------------------------------ MODULE BloomFilter -----------------------------
(***************************************************************************)
(* The filter an SST asks before it looks for a key                        *)
(* (src/src/utils/bloom_filter.cpp), with any two hash functions in the    *)
(* place of std::hash of the key and of the key with "salt".               *)
(***************************************************************************)
EXTENDS Integers

CONSTANTS
  Key,
  num_bits_, num_hashes_,  \* what the constructor computes for an error rate
  hash1, hash2,
  Word                     \* 2^64, where a size_t wraps

ASSUME BloomAssumption ==
  /\ num_bits_ \in Nat \ {0} /\ num_hashes_ \in Nat /\ Word \in Nat \ {0}
  /\ hash1 \in [Key -> Nat] /\ hash2 \in [Key -> Nat]

Bit == 0 .. num_bits_ - 1

hash(key, idx) == ((hash1[key] + idx * hash2[key]) % Word) % num_bits_

Hashes(key) == {hash(key, idx) : idx \in 0 .. num_hashes_ - 1}

NoBits == [b \in Bit |-> FALSE]

bloom_add(bits_, key) == [b \in Bit |-> bits_[b] \/ b \in Hashes(key)]

possibly_contains(bits_, key) == \A b \in Hashes(key) : bits_[b]

\* The bits in bytes of eight, the last one filled up with zeros.
num_bytes == (num_bits_ + 7) \div 8

encode(bits_) ==
  [i \in 0 .. num_bytes - 1 |->
     [j \in 0 .. 7 |-> IF i * 8 + j < num_bits_ THEN bits_[i * 8 + j] ELSE FALSE]]

decode(bytes) == [b \in Bit |-> bytes[b \div 8][b % 8]]
=============================================================================
