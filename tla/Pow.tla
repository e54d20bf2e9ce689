-------------------------------- MODULE Pow ---------------------------------
(***************************************************************************)
(* Proof-of-work nicks (src/src/pow.rs): the difficulty of a nick is the   *)
(* number of leading zero bits of a hash of nick and key, and a nick is    *)
(* mined by trying suffixes.  The hash is a constant, the key of the user  *)
(* fixed; bytes, hashes and the u8 counter keep a width.                   *)
(***************************************************************************)
EXTENDS Integers, SequencesExt

CONSTANTS
    Bases,         \* names people choose
    Plain,         \* the suffix of a name that was never mined
    MaxAttempts,   \* 200,000,000 in the program
    ByteBits,      \* 8
    HashBytes,     \* 32
    CountBits,     \* 8: the counter is a u8
    Hash,          \* nick_hash for the user's key
    NoNick         \* None

Nicks == Bases \X (0..(MaxAttempts - 1) \cup {Plain})

Bytes == 0..(2^ByteBits - 1)

ASSUME PowAssumption ==
    /\ {MaxAttempts, ByteBits, HashBytes, CountBits} \subseteq Nat \ {0}
    /\ Plain \notin Nat /\ NoNick \notin Nicks
    /\ Hash \in [Nicks -> [1..HashBytes -> Bytes]]

BaseName(nick) == nick[1]

(* u8::leading_zeros *)
LeadingZeros(byte) == Cardinality({i \in 0..(ByteBits - 1) : byte < 2^i})

(* The bytes before the first one that is not zero count in full; the      *)
(* counter wraps (a debug build stops instead).                            *)
leading_zero_bits(hash) ==
    LET set == {i \in 1..HashBytes : hash[i] # 0}
        count == IF set = {} THEN ByteBits * HashBytes
                 ELSE ByteBits * (Min(set) - 1) + LeadingZeros(hash[Min(set)])
    IN  count % 2^CountBits

check_difficulty(nick, bits) == bits = 0 \/ leading_zero_bits(Hash[nick]) >= bits

(* The first suffix that meets the difficulty, if one of the attempts does. *)
mine_nick(base, bits) ==
    LET good == {k \in 0..(MaxAttempts - 1) :
                    leading_zero_bits(Hash[<<base, k>>]) >= bits}
    IN  IF bits = 0 THEN <<base, Plain>>
        ELSE IF good = {} THEN NoNick ELSE <<base, Min(good)>>

HashValue(hash) ==
    FoldLeft(LAMBDA acc, i : acc * 2^ByteBits + hash[i], 0, [i \in 1..HashBytes |-> i])

(* What a difficulty promises of a nick: its hash, read as one number, is    *)
(* below 2^(width - bits).                                                  *)
Meets(nick, bits) == HashValue(Hash[nick]) < 2^(ByteBits * HashBytes - bits)
=============================================================================
