-------------------------- MODULE MCDebugModule --------------------------
(***************************************************************************)
(* Instances of DebugModule for TLC.                                       *)
(***************************************************************************)
EXTENDS DebugModule

Nop == [hartsel |-> 0, hasel |-> FALSE, haltreq |-> FALSE,
        resumereq |-> FALSE, ackhavereset |-> FALSE, hartreset |-> FALSE,
        ndmreset |-> FALSE, dmactive |-> TRUE]

\* Halt, resume, (de)activate, for each hart and one index too many.
MCRunControl ==
  {[Nop EXCEPT !.dmactive = FALSE]}
  \cup {[Nop EXCEPT !.hartsel = i, !.haltreq = r, !.resumereq = ~r] :
          i \in {0, NProcs}, r \in BOOLEAN}

\* The same and the resets of one hart and of all.
MCRunControlAndReset ==
  MCRunControl
  \cup {[Nop EXCEPT !.ndmreset = TRUE], [Nop EXCEPT !.hartreset = TRUE]}

\* Halt or resume one hart or, with the hart array mask, several; the reset of
\* all harts, and deactivation.
MCMaskedRunControl ==
  {[Nop EXCEPT !.hartsel = i, !.hasel = m, !.haltreq = r, !.resumereq = ~r] :
     i \in {0, 1}, m \in BOOLEAN, r \in BOOLEAN}
  \cup {[Nop EXCEPT !.ndmreset = TRUE], [Nop EXCEPT !.dmactive = FALSE]}

MCTwoMasks == {[h \in Harts |-> TRUE], [h \in Harts |-> FALSE]}
MCNone == {}
MCAvailability == {[i \in AvailabilityIds |-> i # 1],
                   [i \in AvailabilityIds |-> TRUE]}
=============================================================================
