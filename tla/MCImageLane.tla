----------------------------- MODULE MCImageLane -----------------------------
(* Small populations of the image lane, two workers each: one export of two  *)
(* pages beside a reader's visible page, or two exports of one page each.     *)
EXTENDS ImageLane, TLC

CONSTANTS e1, e2, p1, p2, shown

PageFetches == Jobs \ Exports

PagePrio == [p \in Fetches |-> IF QueueOf[p] = "imageHigh" THEN "high" ELSE "low"]

LowQueue == [j \in Jobs |-> "imageLow"]

ShownHigh == [j \in Jobs |-> IF j = shown THEN "imageHigh" ELSE "imageLow"]

BothOfOne == [p \in Fetches |-> IF p = shown THEN None ELSE e1]

Parent == [p \in Fetches |-> CASE p = p1 -> e1 [] p = p2 -> e2 [] OTHER -> None]

NoKeys == [j \in Jobs |-> NoKey]

OneAttempt == [j \in Jobs |-> 1]

Image == [w \in Workers |-> "image"]

OneSlot == [q \in Queues |-> 1]

TwoSlots == [q \in Queues |-> 2]
=============================================================================
