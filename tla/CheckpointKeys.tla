--------------------------- MODULE CheckpointKeys ---------------------------
(***************************************************************************)
(* The keys of the column family cfCheck: the heights of checkpointed      *)
(* blocks as decimal strings (saveCheckpoint), which RocksDB keeps in the  *)
(* order of strings.  loadCheckpointFromDB seeks to the last one, so 9000  *)
(* is found before 10000.                                                  *)
(***************************************************************************)
EXTENDS Naturals, Sequences

CONSTANT Base  \* radix of std::to_string, 10

ASSUME BaseAssumption == Base \in Nat \ {0, 1}

Digits[n \in Nat] == IF n < Base THEN <<n>> ELSE Append(Digits[n \div Base], n % Base)

KeyBefore(m, n) ==
  LET s == Digits[m]
      t == Digits[n] IN
  \/ Len(s) < Len(t) /\ \A i \in 1..Len(s) : s[i] = t[i]
  \/ \E i \in 1..Len(s) :
       i <= Len(t) /\ s[i] < t[i] /\ \A j \in 1..(i - 1) : s[j] = t[j]

\* where SeekToLast stops
IsLastKey(n, keys) == n \in keys /\ \A m \in keys \ {n} : KeyBefore(m, n)

LastKey(keys) == IF keys = {} THEN 0 ELSE CHOOSE n \in keys : IsLastKey(n, keys)

=============================================================================
