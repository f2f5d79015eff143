-------------------------------- MODULE Chain --------------------------------
(***************************************************************************)
(* dsp::chain (src/core/src/dsp/chain.h): an ordered list of processors of   *)
(* which some are enabled, wired in series from the chain's input to its     *)
(* output, and one consumer of the output that every change of it is told    *)
(* (the splitter of IQFrontEnd, the demodulator or the audio splitter of the *)
(* radio module).  One thread calls everything here; what the operations do  *)
(* to a running block is BlockControl's subject.                             *)
(***************************************************************************)
EXTENDS Naturals, Sequences, FiniteSets, SequencesExt

CONSTANTS Blocks,      \* the processors there are
          Inputs,      \* the streams that can feed the chain
          MaxEnabled   \* bound: how many blocks the caller has enabled at once

ASSUME ChainAssumption == /\ Blocks \cap Inputs = {}
                          /\ Inputs # {}
                          /\ MaxEnabled \in Nat
                          /\ "none" \notin Blocks  \* NoBlock

(* The stream a block reads is named by the block whose out it is, or is one *)
(* of Inputs; a block nobody has wired yet reads none.                       *)
NoStream == "none"
NoBlock  == "none"
Streams  == Blocks \cup Inputs

VARIABLE chain  \* the chain, its blocks' inputs and what its consumer reads

vars == <<chain>>

Chains == [links : Seq(Blocks), states : SUBSET Blocks,
           in : Inputs, out : Streams, running : BOOLEAN,
           reads : [Blocks -> Streams \cup {NoStream}],
           started : SUBSET Blocks, consumer : Streams]

TypeOK == chain \in Chains

Init == \E i \in Inputs :
  chain = [links |-> <<>>, states |-> {}, in |-> i, out |-> i,
           running |-> FALSE, reads |-> [b \in Blocks |-> NoStream],
           started |-> {}, consumer |-> i]

-----------------------------------------------------------------------------
Exists(c, b) == Contains(c.links, b)

(* The places in the list of the enabled blocks, and of one block.          *)
Enabled(c)     == {i \in DOMAIN c.links : c.links[i] \in c.states}
Position(c, b) == CHOOSE i \in DOMAIN c.links : c.links[i] = b

FirstOf(c, places) == IF places = {} THEN NoBlock ELSE c.links[Min(places)]

(* A slip: an operator with one mistake, used by no step.                   *)
SlipBeforeIsNone(c, b) == NoBlock

(* blockBefore returns the first enabled link of those that precede the      *)
(* block; blockAfter returns the first of those that follow it.              *)
BlockBefore(c, b) == FirstOf(c, {i \in Enabled(c) : i < Position(c, b)})
BlockAfter(c, b)  == FirstOf(c, {i \in Enabled(c) : i > Position(c, b)})

(* Slips: operators with one mistake each, used by no step.                 *)
SlipUpstreamUnchecked(c, b) == BlockBefore(c, b)
SlipEnableUnstarted(c, b) ==
  [c EXCEPT !.states = @ \cup {b},
            !.reads[b] = IF BlockBefore(c, b) = NoBlock THEN c.in ELSE BlockBefore(c, b),
            !.out = IF BlockAfter(c, b) = NoBlock THEN b ELSE @,
            !.consumer = IF BlockAfter(c, b) = NoBlock THEN b ELSE @]

(* The output handler the callers pass: the consumer reads the new output.  *)
OutputChanged(c, s) == [c EXCEPT !.out = s, !.consumer = s]

SetBlockInput(c, b, s) == [c EXCEPT !.reads = [@ EXCEPT ![b] = s]]

Upstream(c, b) == IF BlockBefore(c, b) = NoBlock THEN c.in ELSE BlockBefore(c, b)

(* Whatever follows b, the next block or the consumer, now reads s.         *)
Redirect(c, b, s) ==
  IF BlockAfter(c, b) # NoBlock
  THEN SetBlockInput(c, BlockAfter(c, b), s)
  ELSE OutputChanged(c, s)

EnableIn(c, b) ==
  IF b \in c.states THEN c
  ELSE LET wired == SetBlockInput(Redirect(c, b, b), b, Upstream(c, b))
       IN  [wired EXCEPT !.states = @ \cup {b},
                         !.started = IF c.running THEN @ \cup {b} ELSE @]

DisableIn(c, b) ==
  IF b \notin c.states THEN c
  ELSE LET off == [c EXCEPT !.states = @ \ {b}, !.started = @ \ {b}]
       IN  Redirect(off, b, Upstream(off, b))

SetBlockEnabled(c, b, on) == IF on THEN EnableIn(c, b) ELSE DisableIn(c, b)

(* Every link of the list in turn is enabled, or disabled.                  *)
SetAllBlocks(c, on) ==
  LET done[i \in 0..Len(c.links)] ==
        IF i = 0 THEN c ELSE SetBlockEnabled(done[i - 1], c.links[i], on)
  IN  done[Len(c.links)]

-----------------------------------------------------------------------------
(* addBlock as IQFrontEnd::addPreprocessor calls it: the consumer is given   *)
(* the output afterwards, whatever addBlock did.  Adding a block twice and   *)
(* naming one that is not in the chain throw and change nothing.             *)
AddBlock(b, enable) ==
  /\ ~Exists(chain, b)
  /\ enable => Cardinality(chain.states) < MaxEnabled
  /\ LET added == [chain EXCEPT !.links = Append(@, b)]
         c == IF enable THEN EnableIn(added, b) ELSE added
     IN  chain' = OutputChanged(c, c.out)

RemoveBlock(b) ==
  /\ Exists(chain, b)
  /\ chain' = LET c == DisableIn(chain, b)
              IN  [c EXCEPT !.links = RemoveAt(@, Position(c, b))]

EnableBlock(b) ==
  /\ Exists(chain, b)
  /\ Cardinality(chain.states) < MaxEnabled
  /\ chain' = SetBlockEnabled(chain, b, TRUE)

DisableBlock(b) ==
  /\ Exists(chain, b)
  /\ chain' = SetBlockEnabled(chain, b, FALSE)

EnableAllBlocks ==
  /\ Len(chain.links) <= MaxEnabled
  /\ chain' = SetAllBlocks(chain, TRUE)

DisableAllBlocks == chain' = SetAllBlocks(chain, FALSE)

(* setInput: the first enabled link reads the new input, or the consumer.   *)
SetInput(s) ==
  LET c == [chain EXCEPT !.in = s]
  IN  chain' = IF Enabled(c) = {} THEN OutputChanged(c, s)
               ELSE SetBlockInput(c, FirstOf(c, Enabled(c)), s)

Start == /\ ~chain.running
         /\ chain' = [chain EXCEPT !.running = TRUE, !.started = @ \cup chain.states]

Stop == /\ chain.running
        /\ chain' = [chain EXCEPT !.running = FALSE, !.started = @ \ chain.states]

Next == \/ \E b \in Blocks : \/ \E enable \in BOOLEAN : AddBlock(b, enable)
                             \/ RemoveBlock(b)
                             \/ EnableBlock(b)
                             \/ DisableBlock(b)
        \/ EnableAllBlocks \/ DisableAllBlocks
        \/ \E s \in Inputs : SetInput(s)
        \/ Start \/ Stop

Spec == Init /\ [][Next]_vars

-----------------------------------------------------------------------------
(* Properties                                                               *)

(* What a block at this place of the list ought to read: the output of the   *)
(* nearest enabled block before it or, if there is none, the chain's input.  *)
Nearest(c, place) ==
  LET before == {i \in Enabled(c) : i < place}
  IN  IF before = {} THEN c.in ELSE c.links[Max(before)]

Series(c) ==
  /\ \A i \in Enabled(c) : c.reads[c.links[i]] = Nearest(c, i)
  /\ c.out = Nearest(c, Len(c.links) + 1)
  /\ c.consumer = c.out

(* The enabled blocks are in series, in the order of the list: each reads    *)
(* what the enabled block before it writes, the first reads the chain's      *)
(* input, and the consumer reads what the last one writes.  enableBlock and  *)
(* disableBlock rewire "blocks before and after the block" to keep it so.    *)
InSeries == Series(chain)

StartsEnabled(c) == c.started = IF c.running THEN c.states ELSE {}

(* A chain that runs runs exactly its enabled blocks, and a stopped one none.*)
StartedIfEnabled == StartsEnabled(chain)
=============================================================================
