----------------------------- MODULE MCAccounts -----------------------------
(* Accounts for TLC: the seeded administrator, one other account, one address *)
(* or two, two requests at once.                                              *)
EXTENDS Accounts, TLC

CONSTANTS e1, e2, x1, r1, r2

MCBodies == {[NoBody EXCEPT !.role = <<"user">>], [NoBody EXCEPT !.enabled = <<FALSE>>],
             [NoBody EXCEPT !.email = <<e2>>],
             [email |-> <<>>, role |-> <<"admin">>, enabled |-> <<TRUE>>]}
MCFirst == [open |-> TRUE, required |-> TRUE, smtp |-> "ready", captcha |-> "image"]
NoInput == [open |-> <<>>, required |-> <<>>, smtp |-> <<>>, captcha |-> <<>>]
MCInputs == {[NoInput EXCEPT !.required = <<FALSE>>],
             [NoInput EXCEPT !.required = <<TRUE>>, !.captcha = <<"off">>],
             [NoInput EXCEPT !.smtp = <<"none">>]}
MCSymmetry == Permutations(Req)
=============================================================================
