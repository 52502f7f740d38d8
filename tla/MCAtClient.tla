------------------------------ MODULE MCAtClient ------------------------------
(***************************************************************************)
(* Requests for the model checker: one that ends at OK or ERROR, as most   *)
(* commands of NB_IOT.c, and one that ends at its second line, as          *)
(* AT+HTTPSEND and AT+HTTPCLOSE; each answer has one line before the last. *)
(***************************************************************************)
EXTENDS AtClient

TwoRequests == {[line_num |-> 0, room |-> 2, data |-> 1],
                [line_num |-> 2, room |-> 2, data |-> 1]}

OneRequest == {[line_num |-> 0, room |-> 2, data |-> 0]}

CloseCommand == [line_num |-> 2, room |-> 2, data |-> 1]
=============================================================================
