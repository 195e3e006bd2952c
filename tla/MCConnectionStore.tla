------------------------- MODULE MCConnectionStore -------------------------
EXTENDS ConnectionStore
CONSTANTS u1, u2, s1
ArgsChoices == {[url |-> u1, ssh |-> FALSE, secret |-> Absent],
                [url |-> u2, ssh |-> TRUE, secret |-> s1]}
=============================================================================
