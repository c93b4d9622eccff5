---------------------------- MODULE BatchedMerkle ----------------------------
(***************************************************************************)
(* The tree over the leaves of one evidence batch (batched_evidence.py):   *)
(* its root, the inclusion proof of a leaf and the check of such a proof.  *)
(* A digest is the framed packet it is taken of: SHA-256 is taken to have  *)
(* no collisions, and the two domains keep leaves and nodes apart.         *)
(***************************************************************************)
EXTENDS Naturals, Sequences, SequencesExt

CONSTANTS Payload, MaxLeaves

ASSUME MaxLeavesAssumption == MaxLeaves \in Nat

VARIABLES
    leaves,     \* what each leaf of the batch says
    level,      \* the digests of the level the proof has reached
    cursor,     \* where the path of the proved leaf crosses it, from zero
    steps,      \* siblings so far, and the side each is on
    presented,  \* the leaf whose proof is checked, what is left of the proof
    checking    \* "staging", "proving", "proved", "verifying", or the answer

merkle == <<leaves, level, cursor, steps, presented, checking>>

(* Fault: the digest of a leaf does not cover its index. *)
batched_evidence_leaf_anywhere(payload, index) == <<"leaf", payload>>

(* The index is one of the ten fields; the others are payload.             *)
batched_evidence_leaf(payload, index) == <<"leaf", index, payload>>

node_digest(left, right) == <<"node", left, right>>

(* A level of odd length ends with a node over its last digest twice.      *)
next_level(digests) ==
    [i \in 1..((Len(digests) + 1) \div 2) |->
        node_digest(digests[2 * i - 1], digests[IF 2 * i <= Len(digests) THEN 2 * i ELSE 2 * i - 1])]

(* The level reached after each round of the loop, which ends at one       *)
(* digest.                                                                 *)
levels(digests) ==
    LET reached[k \in 0..Len(digests)] ==
            IF k = 0 THEN digests
            ELSE IF Len(reached[k - 1]) > 1 THEN next_level(reached[k - 1]) ELSE reached[k - 1]
    IN  reached

batched_merkle_root_digests(digests) == levels(digests)[Len(digests)][1]

Digests(batch) == [i \in DOMAIN batch |-> batched_evidence_leaf(batch[i], i - 1)]
batched_merkle_root(batch) == batched_merkle_root_digests(Digests(batch))

NoLeaf == [digest |-> << >>, index |-> 0, proof |-> << >>, left |-> << >>, root |-> << >>, current |-> << >>]

MerkleInit ==
    /\ leaves = << >> /\ level = << >> /\ cursor = 0 /\ steps = << >>
    /\ presented = NoLeaf /\ checking = "staging"

stage_leaf(p) ==
    /\ checking = "staging" /\ Len(leaves) < MaxLeaves
    /\ leaves' = Append(leaves, p)
    /\ UNCHANGED <<level, cursor, steps, presented, checking>>

(* batched_merkle_proof: the loop over the levels starts at the leaves.    *)
batched_merkle_proof(index) ==
    /\ checking = "staging" /\ index \in 0..(Len(leaves) - 1)
    /\ level' = Digests(leaves) /\ cursor' = index /\ steps' = << >>
    /\ presented' = [NoLeaf EXCEPT !.index = index]
    /\ checking' = "proving"
    /\ UNCHANGED leaves

proof_step ==
    /\ checking = "proving" /\ Len(level) > 1
    /\ LET right   == cursor % 2 = 0
           sibling == IF ~right THEN cursor - 1
                      ELSE IF cursor + 1 < Len(level) THEN cursor + 1 ELSE Len(level) - 1
       IN  steps' = Append(steps, [direction |-> IF right THEN "right" ELSE "left",
                                   sibling |-> level[sibling + 1]])
    /\ level' = next_level(level) /\ cursor' = cursor \div 2
    /\ UNCHANGED <<leaves, presented, checking>>

proof_ends ==
    /\ checking = "proving" /\ Len(level) = 1
    /\ presented' = [presented EXCEPT !.root = level[1]]
    /\ checking' = "proved"
    /\ UNCHANGED <<leaves, level, cursor, steps>>

(* batched_merkle_proof_verify: any leaf may come with the proof, and the  *)
(* proof may have been given another direction on its way.                 *)
batched_merkle_proof_verify(leaf, proof) ==
    /\ checking = "proved"
    /\ presented' = [presented EXCEPT !.digest = leaf, !.proof = proof, !.left = proof, !.current = leaf]
    /\ checking' = "verifying"
    /\ UNCHANGED <<leaves, level, cursor, steps>>

verify_step ==
    /\ checking = "verifying" /\ presented.left # << >>
    /\ LET step == Head(presented.left)
           fold(digest) == presented' = [presented EXCEPT !.current = digest, !.left = Tail(@)]
       IN  \/ /\ step.direction = "left" /\ fold(node_digest(step.sibling, presented.current))
              /\ UNCHANGED checking
           \/ /\ step.direction = "right" /\ fold(node_digest(presented.current, step.sibling))
              /\ UNCHANGED checking
           \/ /\ step.direction \notin {"left", "right"} /\ checking' = "refused"
              /\ UNCHANGED presented
    /\ UNCHANGED <<leaves, level, cursor, steps>>

verify_ends ==
    /\ checking = "verifying" /\ presented.left = << >>
    /\ checking' = IF presented.current = presented.root THEN "verified" ELSE "refused"
    /\ UNCHANGED <<leaves, level, cursor, steps, presented>>

Leaves == {batched_evidence_leaf(p, i) : p \in Payload, i \in 0..(MaxLeaves - 1)}
ProofsInTransit ==
    {steps} \cup {[steps EXCEPT ![i].direction = d] : i \in DOMAIN steps, d \in {"left", "right", "up"}}

MerkleNext ==
    \/ \E p \in Payload : stage_leaf(p)
    \/ \E i \in 0..(MaxLeaves - 1) : batched_merkle_proof(i)
    \/ proof_step \/ proof_ends \/ verify_step \/ verify_ends
    \/ \E l \in Leaves, p \in ProofsInTransit : batched_merkle_proof_verify(l, p)

MerkleSpec == MerkleInit /\ [][MerkleNext]_merkle

-----------------------------------------------------------------------------
(* Properties. *)

Batches == UNION {[1..n -> Payload] : n \in 1..MaxLeaves}

(* A batch root commits to one sequence of leaves, although a level of odd *)
(* length repeats its last digest.  The proof made for a leaf ends in that *)
(* root, is accepted with that leaf and with no other, and a changed       *)
(* direction never lets another leaf in.                                   *)
MerkleBinds ==
    /\ (checking = "staging" /\ leaves # << >>) =>
           \A other \in Batches : batched_merkle_root(other) = batched_merkle_root(leaves) => other = leaves
    /\ checking \in {"verified", "refused"} =>
           LET proved == Digests(leaves)[presented.index + 1]
           IN  /\ presented.root = batched_merkle_root(leaves)
               /\ checking = "verified" => presented.digest = proved
               /\ presented.digest = proved /\ presented.proof = steps => checking = "verified"

=============================================================================
