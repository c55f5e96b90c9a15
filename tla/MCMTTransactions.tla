-------------------------- MODULE MCMTTransactions --------------------------
(* Instances of MTTransactions: one phone, a call and a message for it. *)
EXTENDS MTTransactions

CONSTANTS m1, call1, sms1, sd1, sd2, tch1

OnePhone == [r \in Request |-> m1]

SentOnce == [r \in Request |-> 1]
SMSTwice == [r \in Request |-> IF r \in SMS THEN 2 ELSE 1]
============================================================================
