------------------------------ MODULE HashTable ------------------------------
(***************************************************************************)
(* The table of lib/hashtable.c, as a function from indices to nodes.  A   *)
(* name is represented by its hash: names of the same hash are one name to *)
(* this program.                                                           *)
(*                                                                         *)
(* Both loops index nodes[] without the modulo.  What lies beyond the      *)
(* array is not ours to know: `beyond' is the bucket that the words read   *)
(* there as keys hash to, and a key found there brings arbitrary data.     *)
(***************************************************************************)
EXTENDS Integers

CONSTANTS HT_SIZE, HT_NEIGHBOURHOOD_SIZE

ASSUME HashTableAssumption ==
  /\ HT_SIZE \in Nat /\ HT_NEIGHBOURHOOD_SIZE \in Nat
  /\ 1 <= HT_NEIGHBOURHOOD_SIZE /\ HT_NEIGHBOURHOOD_SIZE < HT_SIZE

Buckets == 0 .. HT_SIZE - 1
Beyond == HT_SIZE .. HT_SIZE + HT_NEIGHBOURHOOD_SIZE - 2
Neighbourhood == 0 .. HT_NEIGHBOURHOOD_SIZE - 1

HT_SENTINEL == 0
NoData == "no data"
ArbitraryData == "arbitrary data"

H(k) == k % HT_SIZE

HashTableInitialize == [i \in Buckets |-> [key |-> HT_SENTINEL, data |-> NoData]]

\* The test on a free index that is not among the first of the bucket.
Displaceable(ht, beyond, index) ==
  \E j \in Neighbourhood :
    LET y == index + j
        y_hash == IF y \in Buckets THEN H(ht[y].key) ELSE beyond[y]
    IN  y_hash <= index /\ index < (y_hash + HT_NEIGHBOURHOOD_SIZE) % HT_SIZE

\* insert_at # -1
HasRoom(ht, beyond, key) ==
  \E i \in Buckets :
    LET index == (i + H(key)) % HT_SIZE
    IN  /\ ht[index].key = HT_SENTINEL
        /\ i \in Neighbourhood \/ Displaceable(ht, beyond, index)

\* The node written is that of the bucket, never the free one that was found.
Mut_DisplacedIntoNext(ht, key, data) ==
  [ht EXCEPT ![H(key)] = [key |-> key, data |-> data],
             ![(H(key) + 1) % HT_SIZE] = ht[H(key)]]
Mut_OneNodeTooFar(ht, key, data) ==
  [ht EXCEPT ![(H(key) + 1) % HT_SIZE] = [key |-> key, data |-> data]]
Written(ht, key, data) == [ht EXCEPT ![H(key)] = [key |-> key, data |-> data]]

Mut_RefusedButWritten(ht, beyond, key, data) ==
  [ok |-> HasRoom(ht, beyond, key), table |-> Written(ht, key, data)]
\* HT_INSERT_SUCCESS or HT_INSERT_FAILED, and the table after it.
HashTableInsert(ht, beyond, key, data) ==
  IF HasRoom(ht, beyond, key) THEN [ok |-> TRUE, table |-> Written(ht, key, data)]
  ELSE [ok |-> FALSE, table |-> ht]

\* The indices looked at that hold the key.
Mut_KeyNotCompared(ht, key) == {i \in Buckets : i - H(key) \in Neighbourhood}
Matches(ht, key) ==
  {i \in Buckets : i - H(key) \in Neighbourhood /\ ht[i].key = key}

Found(data) == [ok |-> TRUE, data |-> data]
NotFound == [ok |-> FALSE, data |-> NoData]

\* The possible results: HT_GET_SUCCESS and the data, or HT_GET_FAILED.
HashTableGet(ht, key) ==
  LET first == CHOOSE i \in Matches(ht, key) : \A j \in Matches(ht, key) : i <= j
  IN  IF Matches(ht, key) # {} THEN {Found(ht[first].data)}
      ELSE IF H(key) + HT_NEIGHBOURHOOD_SIZE > HT_SIZE
      THEN {NotFound, Found(ArbitraryData)}
      ELSE {NotFound}
=============================================================================
