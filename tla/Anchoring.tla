----------------------------- MODULE Anchoring -----------------------------
(***************************************************************************)
(* External verifiability of the device ledger (gateway/src/anchoring.rs   *)
(* and handlers/anchors.rs).  Rows are hashed lazily into a side table,    *)
(* the operator anchors the hashed rows that no confirmed anchor covers,   *)
(* publishes the anchor's memo on Solana and finalizes it; anybody may     *)
(* then ask for the inclusion proof of a row.                              *)
(*                                                                         *)
(* Hashes are terms: two hashes are equal exactly when what was hashed is. *)
(* Every ledger function holds the pool's lock once, so it is one action;  *)
(* prepare takes the lock twice and finalize waits for an RPC in between.  *)
(***************************************************************************)
EXTENDS Integers, Sequences, FiniteSets

CONSTANTS
  Contents,     \* what a ledger row says besides its id
  Operators,    \* holders of a static bearer, one admin call each at a time
  Backlog,      \* the rows of the ledger when the side tables were added
  MaxRows,      \* bound: ledger ids used in one generation
  MaxAnchors,   \* bound: anchors prepared
  MaxResets     \* bound: genesis resets

VARIABLES
  ledger,       \* ledger: the content of row 1, 2, ...
  hashes,       \* ledger_entry_hashes, by entry_id
  anchors,      \* ledger_anchors, by id
  published,    \* memos the anchor authority put on chain (external)
  call,         \* per operator: the admin call in progress
  resets        \* genesis resets so far

vars == <<ledger, hashes, anchors, published, call, resets>>

Idle == [pc |-> "idle"]
Genesis == <<"zero">>

entry_hash(id) == <<"entry", id, ledger[id]>>

chain_hash(prev, entry) == <<"chain", prev, entry>>

hash_pair(left, right) == <<"node", left, right>>

(* One level of the tree: pairs are hashed, an odd node is promoted. *)
Halve(level) ==
  [i \in 1..((Len(level) + 1) \div 2) |->
     IF 2 * i <= Len(level) THEN hash_pair(level[2 * i - 1], level[2 * i])
                            ELSE level[2 * i - 1]]

RECURSIVE merkle_root(_)
merkle_root(leaves) ==
  IF Len(leaves) = 1 THEN leaves[1] ELSE merkle_root(Halve(leaves))

RECURSIVE merkle_proof_Unpaired(_, _)
merkle_proof_Unpaired(leaves, index) ==  \* an odd node paired with itself
  LET sibling == IF index % 2 = 1 THEN index + 1 ELSE index - 1
  IN IF Len(leaves) = 1 THEN << >>
     ELSE <<[sibling |-> leaves[IF sibling <= Len(leaves) THEN sibling ELSE index],
             is_left |-> index % 2 = 0]>>
          \o merkle_proof_Unpaired(Halve(leaves), (index + 1) \div 2)

(* Indices count from 1 here: the even ones are right children. *)
RECURSIVE merkle_proof(_, _)
merkle_proof(leaves, index) ==
  LET sibling == IF index % 2 = 1 THEN index + 1 ELSE index - 1
      step == IF sibling <= Len(leaves)
                THEN <<[sibling |-> leaves[sibling], is_left |-> index % 2 = 0]>>
                ELSE << >>
  IN IF Len(leaves) = 1 THEN << >>
     ELSE step \o merkle_proof(Halve(leaves), (index + 1) \div 2)

RECURSIVE verify_proof(_, _, _)
verify_proof(leaf, proof, expected_root) ==
  IF proof = << >> THEN leaf = expected_root
  ELSE LET step == Head(proof)
       IN verify_proof(IF step.is_left THEN hash_pair(step.sibling, leaf)
                                       ELSE hash_pair(leaf, step.sibling),
                       Tail(proof), expected_root)

anchor_memo(first, last, root, tip) ==
  [first |-> first, last |-> last, count |-> last - first + 1,
   root |-> root, tip |-> tip]

Newest(ids) == CHOOSE i \in ids : \A j \in ids : j <= i
Oldest(ids) == CHOOSE i \in ids : \A j \in ids : i <= j

-----------------------------------------------------------------------------
(* The side table. *)

fetch_unhashed_rows == DOMAIN ledger \ DOMAIN hashes

(* The rows are hashed in id order, each chained to the one before; the    *)
(* chain starts from the row with the highest entry_id.                    *)
RECURSIVE Chained(_, _, _)
Chained(table, prev, todo) ==
  IF todo = {} THEN table
  ELSE LET id == Oldest(todo)
           h == [entry |-> entry_hash(id), chain |-> chain_hash(prev, entry_hash(id))]
       IN Chained([i \in DOMAIN table \cup {id} |-> IF i = id THEN h ELSE table[i]],
                  h.chain, todo \ {id})

backfill_entry_hashes ==
  Chained(hashes,
          IF DOMAIN hashes = {} THEN Genesis ELSE hashes[Newest(DOMAIN hashes)].chain,
          fetch_unhashed_rows)

-----------------------------------------------------------------------------
(* The admin calls. *)

WithStatus(s) == {a \in DOMAIN anchors : anchors[a].status = s}

last_anchored ==
  IF WithStatus("confirmed") = {} THEN 0
  ELSE Newest({anchors[a].memo.last : a \in WithStatus("confirmed")})

(* prepare, first lock: the hashes are brought up to date. *)
prepare(o) ==
  /\ call[o] = Idle
  /\ Len(anchors) + Cardinality({p \in Operators : call[p].pc = "prepare"}) < MaxAnchors
  /\ hashes' = backfill_entry_hashes
  /\ call' = [call EXCEPT ![o] = [pc |-> "prepare"]]
  /\ UNCHANGED <<ledger, anchors, published, resets>>

(* prepare, second lock: refused while an anchor is pending, when nothing  *)
(* is left to anchor, and when the ids have gaps.                          *)
prepare_anchor(o) ==
  LET fresh == {id \in DOMAIN hashes : id > last_anchored}
      first == Oldest(fresh)
      last == Newest(fresh)
      leaves == [i \in 1..(last - first + 1) |-> hashes[first + i - 1].entry]
      memo == anchor_memo(first, last, merkle_root(leaves), hashes[last].chain)
      refused == \/ WithStatus("pending") # {}
                 \/ fresh = {}
                 \/ last - first + 1 # Cardinality(fresh)
  IN /\ call[o].pc = "prepare"
     /\ call' = [call EXCEPT ![o] = Idle]
     /\ anchors' = IF refused THEN anchors
                   ELSE Append(anchors, [status |-> "pending", memo |-> memo])
     /\ UNCHANGED <<ledger, hashes, published, resets>>

(* The operator signs the memo of an anchor that prepare returned. *)
PublishMemo(a) ==
  /\ anchors[a].memo \notin published
  /\ published' = published \cup {anchors[a].memo}
  /\ UNCHANGED <<ledger, hashes, anchors, call, resets>>

(* finalize up to the RPC: the memo of the pending anchor is read. *)
finalize(o, a) ==
  /\ call[o] = Idle
  /\ anchors[a].status = "pending"
  /\ call' = [call EXCEPT ![o] = [pc |-> "finalize", anchor |-> a, memo |-> anchors[a].memo]]
  /\ UNCHANGED <<ledger, hashes, anchors, published, resets>>

confirm_anchor_NoStatus(a) ==
  anchors' = [anchors EXCEPT ![a].status = "confirmed"]

confirm_anchor(a) ==
  anchors' = IF anchors[a].status = "pending"
               THEN [anchors EXCEPT ![a].status = "confirmed"] ELSE anchors

(* The RPC's answer: a published memo is confirmed. *)
verify_memo_anchor(o) ==
  /\ call[o].pc = "finalize"
  /\ call[o].memo \in published
  /\ confirm_anchor(call[o].anchor)
  /\ call' = [call EXCEPT ![o] = Idle]
  /\ UNCHANGED <<ledger, hashes, published, resets>>

(* The RPC fails, or finds no such transaction. *)
VerifyFails(o) ==
  /\ call[o].pc = "finalize"
  /\ call' = [call EXCEPT ![o] = Idle]
  /\ UNCHANGED <<ledger, hashes, anchors, published, resets>>

abandon(a) ==
  /\ anchors[a].status = "pending"
  /\ anchors' = [anchors EXCEPT ![a].status = "abandoned"]
  /\ UNCHANGED <<ledger, hashes, published, call, resets>>

-----------------------------------------------------------------------------
(* The ledger, and the proofs read from it. *)

(* INSERT INTO ledger by whatever moves credits: AUTOINCREMENT gives the   *)
(* next id.                                                                *)
InsertRow(c) ==
  /\ Len(ledger) < MaxRows
  /\ ledger' = Append(ledger, c)
  /\ UNCHANGED <<hashes, anchors, published, call, resets>>

(* The reset empties the ledger and restarts its ids; the side tables stay. *)
reset_genesis ==
  /\ resets < MaxResets
  /\ ledger' = << >>
  /\ resets' = resets + 1
  /\ UNCHANGED <<hashes, anchors, published, call>>

(* The first lock of a proof request. *)
ProofBackfills ==
  /\ fetch_unhashed_rows # {}
  /\ hashes' = backfill_entry_hashes
  /\ UNCHANGED <<ledger, anchors, published, call, resets>>

Covering(id) ==
  {a \in WithStatus("confirmed") : anchors[a].memo.first <= id /\ id <= anchors[a].memo.last}

(* The second lock: what a proof request for row id answers now. *)
inclusion_proof(id) ==
  LET a == anchors[Newest(Covering(id))]
      ids == {i \in DOMAIN hashes : a.memo.first <= i /\ i <= a.memo.last}
      leaves == [i \in 1..Cardinality(ids) |-> hashes[a.memo.first + i - 1].entry]
      position == id - a.memo.first + 1
  IN IF Covering(id) = {} THEN [kind |-> "none"]
     ELSE IF position > Len(leaves) \/ leaves[position] # entry_hash(id)
       THEN [kind |-> "error"]
       ELSE [kind |-> "proof", proof |-> merkle_proof(leaves, position), memo |-> a.memo]

Init ==
  /\ ledger = Backlog
  /\ hashes = << >>
  /\ anchors = << >>
  /\ published = {}
  /\ call = [o \in Operators |-> Idle]
  /\ resets = 0

Next ==
  \/ \E c \in Contents : InsertRow(c)
  \/ reset_genesis
  \/ ProofBackfills
  \/ \E o \in Operators :
       \/ prepare(o)
       \/ prepare_anchor(o)
       \/ \E a \in DOMAIN anchors : finalize(o, a)
       \/ verify_memo_anchor(o)
       \/ VerifyFails(o)
  \/ \E a \in DOMAIN anchors : PublishMemo(a) \/ abandon(a)

Spec == Init /\ [][Next]_vars

-----------------------------------------------------------------------------
TypeOK ==
  /\ ledger \in Seq(Contents)
  /\ \A id \in DOMAIN hashes : id \in 1..MaxRows
  /\ \A a \in DOMAIN anchors : anchors[a].status \in {"pending", "confirmed", "abandoned"}
  /\ \A o \in Operators : call[o].pc \in {"idle", "prepare", "finalize"}

(* At any time the confirmed anchors, in the order of their ranges, cover  *)
(* the rows 1 to the last anchored one without a gap and without an        *)
(* overlap, and each one's memo is on chain: an abandon and a second       *)
(* prepare while finalize waits for the RPC cannot confirm two ranges that *)
(* share a row ("so the published ranges stay contiguous and               *)
(* non-overlapping").                                                      *)
AnchorsTile ==
  /\ \A id \in 1..last_anchored : Cardinality(Covering(id)) = 1
  /\ \A a \in WithStatus("confirmed") : anchors[a].memo \in published

(* A proof that the gateway hands out folds from the hash of the row as it *)
(* is now to the root in a memo that is on chain, whatever the shape of    *)
(* the tree; and until a genesis reset every row that a confirmed anchor   *)
(* covers has a proof.                                                     *)
ProofsVerify ==
  \A id \in DOMAIN ledger :
    LET answer == inclusion_proof(id)
    IN /\ answer.kind = "proof" =>
            /\ answer.memo \in published
            /\ verify_proof(entry_hash(id), answer.proof, answer.memo.root)
       /\ resets = 0 /\ Covering(id) # {} => answer.kind = "proof"
=============================================================================
