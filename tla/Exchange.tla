------------------------------ MODULE Exchange ------------------------------
(***************************************************************************)
(* A request and its response as bytes.  The handler has read the body     *)
(* whole, and AtMessages has scanned it for its splice point, when the     *)
(* forward begins; the response passes the tap.                            *)
(***************************************************************************)
EXTENDS Scanner, Stream

vars == <<scanVars, streamVars>>

TypeOK == ScanTypeOK /\ StreamTypeOK

Init == ScanInit /\ StreamInit

\* The body is read and scanned.
Scan ==
  /\ reply.at = "pending"
  /\ WriterStep
  /\ UNCHANGED streamVars

\* It is forwarded.
Forward ==
  /\ Written
  /\ ForwardStep
  /\ UNCHANGED scanVars

Next == Scan \/ Forward

Spec == Init /\ [][Next]_vars

=============================================================================
