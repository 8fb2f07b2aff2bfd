--------------------------- MODULE MCConsumerCase ---------------------------
(***************************************************************************)
(* Small instances of ConsumerCase: two required facts, one that the chat  *)
(* extracts and one that only the form supplies; one file that shows an    *)
(* amount of 2 and one that is all headings.                               *)
(***************************************************************************)
EXTENDS ConsumerCase

CONSTANTS Receipt, Cover

MCFields == {"complaint_summary", "consumer_name"}
MCIntakeFields == {"complaint_summary"}
MCValues == {"purchase", "neighbour", "Ana"}

Says(complaint, name) ==
  [f \in MCFields |-> IF f = "complaint_summary" THEN complaint ELSE name]

\* Anything told about a purchase is a consumer dispute.
MCScopedTexts == {Says("purchase", n) : n \in {None, "Ana"}}

MCMessages == {Says("purchase", None), Says("neighbour", None), Says(None, None)}

MCAmounts == 0..2
MCReferences == {"shown"}
MCFileReferences == [f \in Files |-> IF f = Receipt THEN {"shown"} ELSE {}]
MCReferenceAmount == [x \in {"shown"} |-> 2]

Blank == [text |-> Says(Keep, Keep), loss |-> Keep, ref |-> Keep, improper |-> Keep]

\* A blank patch only carries the confirmation; the evidence never shows 1.
MCPatches ==
  {Blank,
   [Blank EXCEPT !.text = Says(Keep, "Ana")],
   [Blank EXCEPT !.text = Says("neighbour", Keep)],
   [Blank EXCEPT !.loss = 2, !.ref = "shown"],
   [Blank EXCEPT !.loss = 1, !.ref = "shown"],
   [Blank EXCEPT !.loss = 1],
   [Blank EXCEPT !.loss = None],
   [Blank EXCEPT !.improper = 2]}
=============================================================================
