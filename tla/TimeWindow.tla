----------------------------- MODULE TimeWindow -----------------------------
(***************************************************************************)
(* common/blockchain/nonce/time_window.go: the nonce corpus of an operator *)
(* account.  GetNextNonce runs under a mutex, but what it returns is the   *)
(* pointer self.manualNonce itself, whose number a later call in the window *)
(* increments in place.  The numbers are therefore kept in cells, and a    *)
(* caller holds the index of a cell, which it reads when it builds its     *)
(* transaction.                                                            *)
(***************************************************************************)
EXTENDS Naturals, Sequences

VARIABLES cells,    \* the big.Int values allocated so far; manualNonce is the last
          recent    \* the last request is less than the window ago

nonceVars == <<cells, recent>>

NonceTypeOK == cells \in Seq(Nat) /\ recent \in BOOLEAN

\* NewTimeWindow: nonce 0, and a last request at time 0, long ago.
NonceInit == cells = <<0>> /\ recent = FALSE

manualNonce == Len(cells)

\* Mutant of GetNextNonce: the number is not advanced inside the window.
RepeatNonce(nodeNonce) ==
  /\ cells' = IF recent THEN cells ELSE Append(cells, nodeNonce)
  /\ recent' = TRUE

\* GetNextNonce: inside the window the cell is advanced in place and the node
\* is not asked; outside it the node's pending nonce goes into a new cell.
GetNextNonce(nodeNonce) ==
  /\ cells' = IF recent THEN [cells EXCEPT ![manualNonce] = @ + 1]
                        ELSE Append(cells, nodeNonce)
  /\ recent' = TRUE

WindowElapses ==
  /\ recent
  /\ recent' = FALSE
  /\ UNCHANGED cells
=============================================================================
