--------------------------- MODULE ChangeRequest ----------------------------
(***************************************************************************)
(* The CHANGE-REQUEST attribute of RFC 5780 as internal/stunserver writes  *)
(* and reads it: a 32-bit number with two flags in it.                     *)
(***************************************************************************)
EXTENDS Naturals

ChangeIP == 4
ChangePort == 2

\* What may be asked for: another IP, another port.
Changes == BOOLEAN \X BOOLEAN

Flag(set, bit) == IF set THEN bit ELSE 0

BuildChangeRequest(c) == Flag(c[1], ChangeIP) + Flag(c[2], ChangePort)

IsSet(v, bit) == (v \div bit) % 2 = 1

\* A message as the responder reads it: whether it decodes to a Binding request, and
\* the value of its CHANGE-REQUEST, none where that is missing or has no 4 bytes.  The
\* other bits are ignored.
ParseChangeRequest(msg) ==
    LET ok == msg.binding /\ msg.change # {}
        v == CHOOSE x \in msg.change : TRUE
    IN  [ok |-> ok, flags |-> <<ok /\ IsSet(v, ChangeIP), ok /\ IsSet(v, ChangePort)>>]
=============================================================================
