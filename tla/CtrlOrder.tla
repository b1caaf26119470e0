------------------------------ MODULE CtrlOrder ------------------------------
(***************************************************************************)
(* tfs4_ctrl_fix_sect_order (src/tfs.c): the control sectors of a phone,   *)
(* found by their marks in the order of their numbers, are put in the      *)
(* order of the control chain.                                             *)
(***************************************************************************)
EXTENDS TfsTable

\* nums from its k-th element on, then the ones before it
Rotated(nums, k) == SubSeq(nums, k, Len(nums)) \o SubSeq(nums, 1, k - 1)

\* The first sector is the one from which the sectors, read on and around,
\* have the checksum of the chain; the lowest if there is none.
FirstAt(nums, chain) ==
  LET fit == {k \in DOMAIN nums : Rotated(nums, k) = chain}
  IN IF fit = {} THEN 1 ELSE LeastOf(fit)

\* The link at the end of a block's last sector, which only a sector that has
\* a successor carries: the last of the chain ends with its checksum there.
Links(chain, s, t) == \E i \in 1 .. Len(chain) - 1 : chain[i] = s /\ chain[i + 1] = t

\* Mutant: the sector after the last one of a block is taken to be the next.
SuccessorNext(nums, chain, k) == IF k < Len(nums) THEN k + 1 ELSE 0

\* The place of the sector that comes after the one at place k, 0 if none has
\* the number that is looked for.
Successor(nums, chain, k) ==
  LET s == nums[k]
      named == {j \in DOMAIN nums : Links(chain, s, nums[j])}
  IN IF s # LastOf(BlockOf(s)) THEN k + 1
     ELSE IF named = {} THEN 0 ELSE LeastOf(named)

\* The sectors in order, or <<>> if a link leads nowhere: one is looked for
\* after the last sector too.
FixedOrder(nums, chain) ==
  LET n == Len(nums)
      at[i \in 1 .. n + 1] ==
        IF i = 1 THEN FirstAt(nums, chain)
        ELSE IF at[i - 1] \in DOMAIN nums THEN Successor(nums, chain, at[i - 1]) ELSE 0
  IN IF at[n + 1] # 0 /\ \A i \in 1 .. n : at[i] \in DOMAIN nums
     THEN [i \in 1 .. n |-> nums[at[i]]] ELSE <<>>
=============================================================================
