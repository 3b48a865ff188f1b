------------------------------- MODULE Sector -------------------------------
(***************************************************************************)
(* The trailer of a cached sector: key A, the access bits, key B.  The     *)
(* permissions of a group of blocks are three bits C1 C2 C3, each stored   *)
(* once as it is and once inverted, in bytes 6 to 8.                       *)
(***************************************************************************)
EXTENDS Integers, Sequences

CONSTANTS
    Sizes,   \* numbers of blocks of a sector: 4, or 16 on a 4K card
    Keys,    \* functions from 0..5 to bytes
    NoKey,
    MaxCalls \* BOUND

(* By C1 C2 C3 read as a number, what keys A and B may do.  The flags of a  *)
(* trailer (A_W_A, B_W_A, A_R_C, B_R_C, A_W_C, B_W_C, A_R_B, A_W_B, B_W_B)  *)
(* use the same bits as those of a block (A_R, B_R, A_W, B_W, A_I, B_I,     *)
(* A_D, B_D).                                                              *)
m_accessTrailer == <<512 + 128 + 8 + 2, 512 + 128 + 32 + 8 + 2, 128 + 8, 256 + 128 + 64 + 16 + 1,
                     256 + 128 + 64 + 1, 128 + 64 + 16, 128 + 64, 128 + 64>>
m_accessBlock   == <<255, 128 + 64 + 2 + 1, 128 + 64, 64 + 16, 128 + 64 + 16, 64,
                     128 + 64 + 16 + 4 + 2 + 1, 0>>
Flags == {m_accessTrailer[i] : i \in 1..8} \cup {m_accessBlock[i] : i \in 1..8}

VARIABLES
    size,   \* of m_data
    last,   \* the sixteen bytes of its last block
    m_key, m_keyB,
    told,   \* history: per group, the codes that mean what was asked; {} if nothing was
    keyA, keyB, \* history: the keys last set
    calls

vars == <<size, last, m_key, m_keyB, told, keyA, keyB, calls>>

(* A new sector is blank; a card from the factory has every permission.    *)
Zeroed  == [i \in 0..15 |-> 0]
Factory == [Zeroed EXCEPT ![6] = 255, ![7] = 7, ![8] = 128]
AllOnes == [i \in 0..5 |-> 255]

Init ==
    /\ size \in Sizes /\ last \in {Zeroed, Factory}
    /\ m_key = AllOnes /\ m_keyB \in BOOLEAN
    /\ told = [g \in 0..3 |-> {}] /\ keyA = NoKey /\ keyB = NoKey /\ calls = 0

-----------------------------------------------------------------------------
Bit(byte, b)    == (byte \div 2^b) % 2
Set(byte, b, v) == byte + (v - Bit(byte, b)) * 2^b

(* C1, C2 or C3 of a code. *)
C(n, code) == Bit(code, 3 - n)

Group(block) == IF size <= 4 THEN block
                ELSE IF block < 5 THEN 0 ELSE IF block < 10 THEN 1 ELSE IF block < 15 THEN 2 ELSE 3

(* Mutant: C1 and C2 are not told apart in byte 7. *)
WithSwapped(code, g) ==
    [last EXCEPT ![6] = Set(Set(@, g, 1 - C(1, code)), g + 4, 1 - C(2, code)),
                 ![7] = Set(Set(@, g, 1 - C(3, code)), g + 4, C(2, code)),
                 ![8] = Set(Set(@, g, C(2, code)), g + 4, C(3, code))]

(* The access bits of a group. *)
With(code, g) ==
    [last EXCEPT ![6] = Set(Set(@, g, 1 - C(1, code)), g + 4, 1 - C(2, code)),
                 ![7] = Set(Set(@, g, 1 - C(3, code)), g + 4, C(1, code)),
                 ![8] = Set(Set(@, g, C(2, code)), g + 4, C(3, code))]

Call == calls < MaxCalls /\ calls' = calls + 1

(* setPermissions with the three bits: nothing is checked. *)
SetBits(block, code) ==
    /\ Call /\ last' = With(code, Group(block))
    /\ told' = [told EXCEPT ![Group(block)] = {code}]
    /\ UNCHANGED <<size, m_key, m_keyB, keyA, keyB>>

Table(block) == IF block = size - 1 THEN m_accessTrailer ELSE m_accessBlock
Codes(block, permissions) ==
    LET table == Table(block) IN {c \in 0..7 : table[c + 1] = permissions}

(* What setPermissions refuses before it looks into a table. *)
Refused(block, permissions) ==
    \/ block = size - 1 /\ Bit(permissions, 2) = 1
    \/ block # size - 1 /\ (Bit(permissions, 9) = 1 \/ Bit(permissions, 8) = 1)
    \/ block >= size

(* It returns true; the two codes of a trailer that mean the same cannot be *)
(* asked for.                                                              *)
setPermissions(block, permissions) ==
    /\ Call /\ ~Refused(block, permissions)
    /\ \E code \in 0..7 :
          /\ Codes(block, permissions) = {code}
          /\ last' = With(code, Group(block))
    /\ told' = [told EXCEPT ![Group(block)] = Codes(block, permissions)]
    /\ UNCHANGED <<size, m_key, m_keyB, keyA, keyB>>

setKeyA(key) ==
    /\ Call /\ last' = [i \in 0..15 |-> IF i < 6 THEN key[i] ELSE last[i]]
    /\ m_key' = IF m_keyB THEN m_key ELSE key
    /\ keyA' = key
    /\ UNCHANGED <<size, m_keyB, told, keyB>>

(* From the last byte down. *)
setKeyB(key) ==
    /\ Call /\ last' = [i \in 0..15 |-> IF i > 9 THEN key[5 - (15 - i)] ELSE last[i]]
    /\ m_key' = IF m_keyB THEN key ELSE m_key
    /\ keyB' = key
    /\ UNCHANGED <<size, m_keyB, told, keyA>>

useKeyB(b) ==
    /\ Call /\ m_keyB' = b
    /\ UNCHANGED <<size, last, m_key, told, keyA, keyB>>

setAuthentificationKey(key) ==
    /\ Call /\ m_key' = key
    /\ UNCHANGED <<size, last, m_keyB, told, keyA, keyB>>

Next ==
    \/ \E permissions \in Flags : \E block \in 0 .. size : setPermissions(block, permissions)
    \/ \E block \in 0 .. size - 1, code \in 0..7 : SetBits(block, code)
    \/ \E key \in Keys : setKeyA(key) \/ setKeyB(key) \/ setAuthentificationKey(key)
    \/ \E b \in BOOLEAN : useKeyB(b)

Spec == Init /\ [][Next]_vars

-----------------------------------------------------------------------------
(* A card reads the bits of a group in both their forms, and locks the     *)
(* sector for good when they contradict each other.                        *)
Reads(g, code) ==
    /\ Bit(last[8], g + 4) = C(3, code) /\ Bit(last[7], g)     = 1 - C(3, code)
    /\ Bit(last[8], g)     = C(2, code) /\ Bit(last[6], g + 4) = 1 - C(2, code)
    /\ Bit(last[7], g + 4) = C(1, code) /\ Bit(last[6], g)     = 1 - C(1, code)

(* The trailer says what was last asked for each group, whatever was asked *)
(* for the others, and holds both keys, in whatever order the calls came   *)
(* (sector.cpp:60-176).                                                    *)
TrailerSays ==
    /\ \A g \in 0..3 : told[g] # {} => \E code \in told[g] : Reads(g, code)
    /\ keyA # NoKey => \A i \in 0..5 : last[i] = keyA[i]
    /\ keyB # NoKey => \A i \in 0..5 : last[10 + i] = keyB[i]
=============================================================================
