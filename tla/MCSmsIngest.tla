---------------------------- MODULE MCSmsIngest ----------------------------
(* The instance of SmsIngest: what the network delivers, and to which modem. *)
EXTENDS SmsIngest

Fragment(to, group, total, seq, text) ==
    [to |-> to, group |-> group, total |-> total, seq |-> seq, text |-> text]

\* Three QMI modules share the sweep's cursor, as on the bench.
QmiAndAt == <<"qmi", "qmi", "qmi", "at">>

\* For the first module a message of two parts, its first part delivered a second
\* time and a message the module sent itself; for the third one message; for the
\* AT module one message, a second delivery of it, and a part of another that
\* never becomes whole.
All == [a1 |-> Fragment(1, 1, 2, 1, "x"), a2 |-> Fragment(1, 1, 2, 2, "x"),
        a3 |-> Fragment(1, 1, 2, 1, "x"), own |-> Fragment(1, 0, 0, 0, "w"),
        c1 |-> Fragment(3, 4, 1, 1, "v"),
        b1 |-> Fragment(4, 2, 1, 1, "y"), b2 |-> Fragment(4, 2, 1, 1, "y"),
        b3 |-> Fragment(4, 3, 2, 2, "z")]
AllSupplies == {{"a1", "a2", "a3"}, {"a1", "own"}, {"a1", "c1"}, {"b1", "b2"}, {"b1", "b3"}}
=============================================================================
