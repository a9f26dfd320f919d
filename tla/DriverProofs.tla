---------------------------- MODULE DriverProofs ----------------------------
(***************************************************************************)
(* The console driver, for every size of buffers and FIFOs and every set   *)
(* of programs: in both directions it is a pipe, whatever old value of a   *)
(* pointer the program works with, and no interrupt stays off for good.    *)
(* The mouse driver, for every set of packets and every size of the port's *)
(* FIFO: PS2_ISR never loses the beginning of a packet.                    *)
(***************************************************************************)
EXTENDS JtagUart, Ps2Mouse, SequenceTheorems, TLAPS

Slot == 0 .. BufLen - 1
Char == 0 .. Chars - 1

Places == {"idle", "close", "w_snap", "w_copy", "w_publish", "w_enable",
           "w_spin", "w_check", "r_snap", "r_more", "r_copy", "r_publish",
           "r_empty", "r_check", "r_enable"}

(***************************************************************************)
(* The types.                                                              *)
(***************************************************************************)
TypeOK ==
    /\ tx_buf \in [Slot -> Char] /\ tx_in \in Slot /\ tx_out \in Slot
    /\ rx_buf \in [Slot -> Char] /\ rx_in \in Slot /\ rx_out \in Slot
    /\ wfifo \in Seq(Char) /\ Len(wfifo) <= WriteDepth
    /\ rfifo \in Seq(Char) /\ Len(rfifo) <= ReadDepth
    /\ typed \in Char /\ seen \in Char /\ next \in Char /\ got \in Char
    /\ calls \subseteq {"w_snap", "r_snap", "close"} /\ pc \in Places
    /\ left \in Nat /\ stable \in Slot

(***************************************************************************)
(* What a call holds as the other pointer is an older value of it: there   *)
(* is room for what the writer copies, and the reader takes what is there. *)
(* What the writer has copied is what it publishes.                        *)
(***************************************************************************)
OldTxOut == pc \in {"w_copy", "w_publish"} =>
                Held(tx_in, tx_out) <= Held(tx_in, stable)
OldRxIn  == pc \in {"r_copy", "r_publish"} =>
                /\ left > 0 /\ stable # rx_out
                /\ Held(stable, rx_out) <= Held(rx_in, rx_out)
Copied   == pc = "w_publish" =>
                \A i \in 0 .. TxN - 1 : tx_buf[tx_in + i] = (next + i) % Chars

IInv == TypeOK /\ OldTxOut /\ OldRxIn /\ Copied /\ InterruptsOn

-----------------------------------------------------------------------------
(***************************************************************************)
(* Numbers that wrap once.                                                 *)
(***************************************************************************)
LEMMA Wrap ==
    ASSUME NEW m \in Nat \ {0}, NEW x \in Nat, x < m + m
    PROVE  x % m = IF x < m THEN x ELSE x - m
OBVIOUS

LEMMA Constants ==
    /\ BufLen \in Nat /\ BufLen > 1 /\ Chars \in Nat \ {0}
    /\ WriteDepth \in Nat \ {0} /\ ReadDepth \in Nat \ {0}
    /\ Threshold \in Nat
    /\ Chars > BufLen - 1 + WriteDepth /\ Chars > BufLen - 1 + ReadDepth
BY JtagAssumption

(***************************************************************************)
(* A slot plus less than a round, and what lies between two slots.         *)
(***************************************************************************)
LEMMA SlotPlus ==
    ASSUME NEW s \in Slot, NEW n \in 0 .. BufLen
    PROVE  /\ (s + n) % BufLen = IF s + n < BufLen THEN s + n
                                 ELSE s + n - BufLen
           /\ (s + n) % BufLen \in Slot
<1> DEFINE x == s + n
<1>1. x \in Nat /\ x < BufLen + BufLen /\ BufLen \in Nat \ {0}
  BY Constants DEF Slot
<1>2. x % BufLen = IF x < BufLen THEN x ELSE x - BufLen
  <2> HIDE DEF x
  <2> QED  BY <1>1, Wrap
<1> QED  BY <1>1, <1>2, Constants DEF Slot

LEMMA HeldIs ==
    ASSUME NEW in \in Slot, NEW out \in Slot
    PROVE  /\ Held(in, out) = IF in >= out THEN in - out ELSE in + BufLen - out
           /\ Held(in, out) \in Slot
<1> DEFINE x == in + BufLen - out
<1>1. x \in Nat /\ x < BufLen + BufLen /\ BufLen \in Nat \ {0}
  BY Constants DEF Slot
<1>2. x % BufLen = IF x < BufLen THEN x ELSE x - BufLen
  <2> HIDE DEF x
  <2> QED  BY <1>1, Wrap
<1>3. Held(in, out) = x % BufLen
  BY DEF Held
<1> QED  BY <1>1, <1>2, <1>3, Constants DEF Slot

LEMMA SlotPlusTwice ==
    ASSUME NEW s \in Slot, NEW n \in Nat, NEW k \in Nat, n + k <= BufLen
    PROVE  (((s + n) % BufLen) + k) % BufLen = (s + (n + k)) % BufLen
<1> DEFINE t == (s + n) % BufLen
<1>1. n \in 0 .. BufLen /\ k \in 0 .. BufLen /\ n + k \in 0 .. BufLen
  BY Constants
<1>2. t \in Slot /\ t = IF s + n < BufLen THEN s + n ELSE s + n - BufLen
  BY <1>1, SlotPlus
<1>3. (t + k) % BufLen = IF t + k < BufLen THEN t + k ELSE t + k - BufLen
  <2> HIDE DEF t
  <2> QED  BY <1>1, <1>2, SlotPlus
<1>4. (s + (n + k)) % BufLen = IF s + (n + k) < BufLen THEN s + (n + k)
                               ELSE s + (n + k) - BufLen
  BY <1>1, SlotPlus
<1>5. t + k < BufLen + BufLen
  <2> HIDE DEF t
  <2> QED  BY <1>1, <1>2, Constants DEF Slot
<1> HIDE DEF t
<1>6. (t + k) % BufLen = (s + (n + k)) % BufLen
  BY <1>1, <1>2, <1>3, <1>4, <1>5, Constants DEF Slot
<1> QED  BY <1>6 DEF t

-----------------------------------------------------------------------------
(***************************************************************************)
(* What leaves a FIFO and what is left are parts of it.                    *)
(***************************************************************************)
LEMMA Parts ==
    ASSUME NEW chars \in Seq(Char), NEW n \in 0 .. Len(chars)
    PROVE  /\ SubSeq(chars, 1, n) \in Seq(Char)
           /\ Len(SubSeq(chars, 1, n)) = n
           /\ \A i \in 1 .. n : SubSeq(chars, 1, n)[i] = chars[i]
           /\ SubSeq(chars, n + 1, Len(chars)) \in Seq(Char)
           /\ Len(SubSeq(chars, n + 1, Len(chars))) = Len(chars) - n
           /\ \A i \in 1 .. Len(chars) - n :
                 SubSeq(chars, n + 1, Len(chars))[i] = chars[n + i]
           /\ SubSeq(chars, 1, n) \o SubSeq(chars, n + 1, Len(chars)) = chars
<1>1. Len(chars) \in Nat /\ n \in Nat /\ n <= Len(chars)
  BY LenProperties
<1>2. \A i \in 1 .. Len(chars) : chars[i] \in Char
  BY ElementOfSeq
<1>3. /\ SubSeq(chars, 1, n) \in Seq(Char)
      /\ Len(SubSeq(chars, 1, n)) = n
      /\ \A i \in 1 .. n : SubSeq(chars, 1, n)[i] = chars[i]
  <2>1. \A i \in 1 .. n : chars[i] \in Char
    BY <1>1, <1>2
  <2>2. /\ SubSeq(chars, 1, n) \in Seq(Char)
        /\ Len(SubSeq(chars, 1, n)) = IF 1 <= n THEN n - 1 + 1 ELSE 0
        /\ \A i \in 1 .. n - 1 + 1 : SubSeq(chars, 1, n)[i] = chars[1 + i - 1]
    BY <1>1, <2>1, SubSeqProperties, 1 \in Int, n \in Int
  <2>3. \A i \in 1 .. n : 1 + i - 1 = i
    BY <1>1
  <2> QED  BY <1>1, <2>2, <2>3
<1>4. /\ SubSeq(chars, n + 1, Len(chars)) \in Seq(Char)
      /\ Len(SubSeq(chars, n + 1, Len(chars))) = Len(chars) - n
      /\ \A i \in 1 .. Len(chars) - n :
            SubSeq(chars, n + 1, Len(chars))[i] = chars[n + i]
  <2> DEFINE h == Len(chars)
  <2>1. \A i \in n + 1 .. h : chars[i] \in Char
    BY <1>1, <1>2
  <2>2. /\ SubSeq(chars, n + 1, h) \in Seq(Char)
        /\ Len(SubSeq(chars, n + 1, h))
              = IF n + 1 <= h THEN h - (n + 1) + 1 ELSE 0
        /\ \A i \in 1 .. h - (n + 1) + 1 :
              SubSeq(chars, n + 1, h)[i] = chars[(n + 1) + i - 1]
    BY <1>1, <2>1, SubSeqProperties, n + 1 \in Int, h \in Int
  <2> HIDE DEF h
  <2>3. h \in Nat /\ n <= h
    BY <1>1 DEF h
  <2>4. \A i \in 1 .. h - n : (n + 1) + i - 1 = n + i
    BY <1>1, <2>3
  <2>5. /\ Len(SubSeq(chars, n + 1, h)) = h - n
        /\ \A i \in 1 .. h - n : SubSeq(chars, n + 1, h)[i] = chars[n + i]
    BY <1>1, <2>2, <2>3, <2>4
  <2> QED  BY <2>2, <2>5 DEF h
<1>5. SubSeq(chars, 1, n) \o SubSeq(chars, n + 1, Len(chars)) = chars
  <2>1. /\ 1 \in 1 .. Len(chars) + 1 /\ n \in 1 - 1 .. Len(chars)
        /\ Len(chars) \in n .. Len(chars)
    BY <1>1
  <2>2. SubSeq(chars, 1, n) \o SubSeq(chars, n + 1, Len(chars))
           = SubSeq(chars, 1, Len(chars))
    BY <2>1, ConcatAdjacentSubSeq
  <2> QED  BY <2>2, SubSeqFull
<1> QED  BY <1>3, <1>4, <1>5

LEMMA DropOfConcat ==
    ASSUME NEW s \in Seq(Char), NEW t \in Seq(Char), NEW n \in 0 .. Len(s)
    PROVE  SubSeq(s \o t, n + 1, Len(s \o t))
              = SubSeq(s, n + 1, Len(s)) \o t
<1> DEFINE both == s \o t
           rest == SubSeq(s, n + 1, Len(s))
           left1 == SubSeq(both, n + 1, Len(both))
           right1 == rest \o t
<1>1. Len(s) \in Nat /\ Len(t) \in Nat /\ n \in Nat /\ n <= Len(s)
  BY LenProperties
<1>2. /\ both \in Seq(Char) /\ Len(both) = Len(s) + Len(t)
      /\ \A i \in 1 .. Len(s) + Len(t) :
            both[i] = IF i <= Len(s) THEN s[i] ELSE t[i - Len(s)]
  BY ConcatProperties
<1>3. /\ rest \in Seq(Char) /\ Len(rest) = Len(s) - n
      /\ \A i \in 1 .. Len(s) - n : rest[i] = s[n + i]
  BY Parts
<1>4. /\ left1 \in Seq(Char) /\ Len(left1) = Len(s) + Len(t) - n
      /\ \A i \in 1 .. Len(s) + Len(t) - n : left1[i] = both[n + i]
  <2>1. n \in 0 .. Len(both)
    BY <1>1, <1>2
  <2> HIDE DEF both
  <2> QED  BY <1>2, <2>1, Parts
<1>5. /\ right1 \in Seq(Char) /\ Len(right1) = Len(s) - n + Len(t)
      /\ \A i \in 1 .. Len(s) - n + Len(t) :
            right1[i] = IF i <= Len(s) - n THEN rest[i]
                        ELSE t[i - (Len(s) - n)]
  <2> HIDE DEF rest
  <2>1. /\ right1 \in Seq(Char) /\ Len(right1) = Len(rest) + Len(t)
        /\ \A i \in 1 .. Len(rest) + Len(t) :
              right1[i] = IF i <= Len(rest) THEN rest[i]
                          ELSE t[i - Len(rest)]
    BY <1>3, ConcatProperties
  <2> QED  BY <1>3, <2>1
<1> HIDE DEF both, rest, left1, right1
<1>6. ASSUME NEW i \in 1 .. Len(s) + Len(t) - n
      PROVE  left1[i] = right1[i]
  <2>1. /\ n + i \in 1 .. Len(s) + Len(t) /\ i \in 1 .. Len(s) - n + Len(t)
        /\ n + i <= Len(s) <=> i <= Len(s) - n
        /\ n + i - Len(s) = i - (Len(s) - n)
    BY <1>1
  <2>2. left1[i] = IF n + i <= Len(s) THEN s[n + i] ELSE t[n + i - Len(s)]
    <3>1. left1[i] = both[n + i]
      BY <1>4
    <3> QED  BY <1>2, <2>1, <3>1
  <2>3. i <= Len(s) - n => rest[i] = s[n + i]
    BY <1>1, <1>3
  <2> QED  BY <1>5, <2>1, <2>2, <2>3
<1>7. Len(left1) = Len(right1)
  BY <1>1, <1>4, <1>5
<1>8. left1 = right1
  BY <1>1, <1>4, <1>5, <1>6, <1>7, SeqEqual
<1> QED  BY <1>8 DEF left1, right1, both, rest

(***************************************************************************)
(* The ring buffers as sequences.                                          *)
(***************************************************************************)
Buffer == [Slot -> Char]

LEMMA RingIs ==
    ASSUME NEW buf \in Buffer, NEW out \in Slot, NEW in \in Slot
    PROVE  /\ Ring(buf, out, in) \in Seq(Char)
           /\ Len(Ring(buf, out, in)) = Held(in, out)
           /\ \A i \in 1 .. Held(in, out) :
                 Ring(buf, out, in)[i] = buf[(out + (i - 1)) % BufLen]
<1> DEFINE n == Held(in, out)
<1>1. n \in Nat /\ n < BufLen
  BY HeldIs, Constants DEF Slot
<1>2. ASSUME NEW i \in 1 .. n
      PROVE  /\ (out + i - 1) % BufLen = (out + (i - 1)) % BufLen
             /\ buf[(out + i - 1) % BufLen] \in Char
  <2> HIDE DEF n
  <2>1. i - 1 \in 0 .. BufLen /\ out + i - 1 = out + (i - 1)
    BY <1>1, Constants DEF Slot
  <2>2. (out + (i - 1)) % BufLen \in Slot
    BY <2>1, SlotPlus
  <2> QED  BY <2>1, <2>2 DEF Buffer
<1>3. Ring(buf, out, in) = [i \in 1 .. n |-> buf[(out + i - 1) % BufLen]]
  BY DEF Ring
<1>4. Ring(buf, out, in) \in [1 .. n -> Char]
  BY <1>2, <1>3, Zenon
<1>5. Ring(buf, out, in) \in Seq(Char)
  <2> HIDE DEF n
  <2> QED  BY <1>1, <1>4, SeqDef
<1>6. Len(Ring(buf, out, in)) = n
  <2> HIDE DEF n
  <2> QED  BY <1>1, <1>4, <1>5, LenProperties
<1>7. \A i \in 1 .. n :
          Ring(buf, out, in)[i] = buf[(out + (i - 1)) % BufLen]
  BY <1>2, <1>3, Zenon
<1> QED  BY <1>5, <1>6, <1>7

LEMMA RingSame ==
    ASSUME NEW old \in Buffer, NEW new \in Buffer,
           NEW out \in Slot, NEW in \in Slot,
           \A i \in 1 .. Held(in, out) :
               new[(out + (i - 1)) % BufLen] = old[(out + (i - 1)) % BufLen]
    PROVE  Ring(new, out, in) = Ring(old, out, in)
<1>1. \A i \in 1 .. Held(in, out) :
          Ring(new, out, in)[i] = Ring(old, out, in)[i]
  BY RingIs
<1> QED  BY <1>1, RingIs, SeqEqual

(***************************************************************************)
(* The first n characters leave a ring.                                    *)
(***************************************************************************)
LEMMA RingDrop ==
    ASSUME NEW buf \in Buffer, NEW out \in Slot, NEW in \in Slot,
           NEW n \in 0 .. Held(in, out)
    PROVE  /\ (out + n) % BufLen \in Slot
           /\ Held(in, (out + n) % BufLen) = Held(in, out) - n
           /\ Ring(buf, (out + n) % BufLen, in)
                 = SubSeq(Ring(buf, out, in), n + 1, Held(in, out))
<1> DEFINE t == (out + n) % BufLen
           h == Held(in, out)
           old == Ring(buf, out, in)
           rest == SubSeq(old, n + 1, h)
<1>1. /\ n \in 0 .. BufLen /\ n \in Nat /\ h \in Nat /\ h < BufLen /\ n <= h
      /\ h = IF in >= out THEN in - out ELSE in + BufLen - out
  <2>1. h \in Slot /\ h = IF in >= out THEN in - out ELSE in + BufLen - out
    BY HeldIs
  <2>2. n \in 0 .. h
    OBVIOUS
  <2> HIDE DEF h
  <2> QED  BY <2>1, <2>2, Constants DEF Slot
<1>2. t \in Slot /\ t = IF out + n < BufLen THEN out + n
                        ELSE out + n - BufLen
  BY <1>1, SlotPlus
<1>3. Held(in, t) = IF in >= t THEN in - t ELSE in + BufLen - t
  <2> HIDE DEF t
  <2> QED  BY <1>2, HeldIs
<1>4. Held(in, t) = h - n
  <2> HIDE DEF t, h
  <2> QED  BY <1>1, <1>2, <1>3, Constants DEF Slot
<1>5. /\ Ring(buf, t, in) \in Seq(Char) /\ Len(Ring(buf, t, in)) = h - n
      /\ \A i \in 1 .. h - n :
            Ring(buf, t, in)[i] = buf[(t + (i - 1)) % BufLen]
  <2> HIDE DEF t, h
  <2>1. /\ Ring(buf, t, in) \in Seq(Char)
        /\ Len(Ring(buf, t, in)) = Held(in, t)
        /\ \A i \in 1 .. Held(in, t) :
              Ring(buf, t, in)[i] = buf[(t + (i - 1)) % BufLen]
    BY <1>2, RingIs
  <2> QED  BY <1>4, <2>1
<1>6. /\ old \in Seq(Char) /\ Len(old) = h
      /\ \A i \in 1 .. h : old[i] = buf[(out + (i - 1)) % BufLen]
  BY RingIs
<1>7. /\ rest \in Seq(Char) /\ Len(rest) = h - n
      /\ \A i \in 1 .. h - n : rest[i] = old[n + i]
  <2> HIDE DEF old, h
  <2> QED  BY <1>1, <1>6, Parts
<1>8. ASSUME NEW i \in 1 .. h - n PROVE Ring(buf, t, in)[i] = rest[i]
  <2>1. (((out + n) % BufLen) + (i - 1)) % BufLen
           = (out + (n + (i - 1))) % BufLen
    <3> HIDE DEF h
    <3>1. i - 1 \in Nat /\ n + (i - 1) <= BufLen
      BY <1>1, Constants
    <3> QED  BY <1>1, <3>1, SlotPlusTwice
  <2>2. n + i \in 1 .. h /\ (n + i) - 1 = n + (i - 1)
    <3> HIDE DEF h
    <3> QED  BY <1>1
  <2>3. old[n + i] = buf[(out + (n + (i - 1))) % BufLen]
    BY <1>6, <2>2
  <2>4. Ring(buf, t, in)[i] = buf[(t + (i - 1)) % BufLen]
    BY <1>5
  <2>5. rest[i] = old[n + i]
    BY <1>7
  <2> QED  BY <2>1, <2>3, <2>4, <2>5
<1>9. Ring(buf, t, in) = rest
  <2> HIDE DEF t, rest, h
  <2> QED  BY <1>5, <1>7, <1>8, SeqEqual
<1> QED  BY <1>2, <1>4, <1>9

(***************************************************************************)
(* n more characters join a ring that has room for them.                   *)
(***************************************************************************)
LEMMA RingAdd ==
    ASSUME NEW buf \in Buffer, NEW out \in Slot, NEW in \in Slot,
           NEW n \in Nat, n <= BufLen - 1 - Held(in, out), NEW more \in Seq(Char),
           Len(more) = n,
           \A i \in 1 .. n : more[i] = buf[(in + (i - 1)) % BufLen]
    PROVE  /\ (in + n) % BufLen \in Slot
           /\ Held((in + n) % BufLen, out) = Held(in, out) + n
           /\ Ring(buf, out, (in + n) % BufLen) = Ring(buf, out, in) \o more
<1> DEFINE t == (in + n) % BufLen
           h == Held(in, out)
           old == Ring(buf, out, in)
           both == old \o more
<1>1. /\ h \in Nat /\ h < BufLen /\ n <= BufLen - 1 - h
      /\ h = IF in >= out THEN in - out ELSE in + BufLen - out
  <2>1. h \in Slot /\ h = IF in >= out THEN in - out ELSE in + BufLen - out
    BY HeldIs
  <2> QED  BY <2>1, Constants DEF Slot
<1>2. n \in 0 .. BufLen
  <2> HIDE DEF h
  <2> QED  BY <1>1, Constants
<1>3. t \in Slot /\ t = IF in + n < BufLen THEN in + n ELSE in + n - BufLen
  BY <1>2, SlotPlus
<1>4. Held(t, out) = IF t >= out THEN t - out ELSE t + BufLen - out
  <2> HIDE DEF t
  <2> QED  BY <1>3, HeldIs
<1>5. Held(t, out) = h + n
  <2> HIDE DEF t, h
  <2> QED  BY <1>1, <1>3, <1>4, Constants DEF Slot
<1>6. /\ Ring(buf, out, t) \in Seq(Char) /\ Len(Ring(buf, out, t)) = h + n
      /\ \A i \in 1 .. h + n :
            Ring(buf, out, t)[i] = buf[(out + (i - 1)) % BufLen]
  <2> HIDE DEF t, h
  <2>1. /\ Ring(buf, out, t) \in Seq(Char)
        /\ Len(Ring(buf, out, t)) = Held(t, out)
        /\ \A i \in 1 .. Held(t, out) :
              Ring(buf, out, t)[i] = buf[(out + (i - 1)) % BufLen]
    BY <1>3, RingIs
  <2> QED  BY <1>5, <2>1
<1>7. /\ old \in Seq(Char) /\ Len(old) = h
      /\ \A i \in 1 .. h : old[i] = buf[(out + (i - 1)) % BufLen]
  BY RingIs
<1>8. /\ both \in Seq(Char) /\ Len(both) = h + n
      /\ \A i \in 1 .. h + n :
            both[i] = IF i <= h THEN old[i] ELSE more[i - h]
  <2> HIDE DEF old, h
  <2> QED  BY <1>7, ConcatProperties
<1>9. in = (out + h) % BufLen
  <2>1. (out + h) % BufLen = IF out + h < BufLen THEN out + h
                             ELSE out + h - BufLen
    <3> HIDE DEF h
    <3> QED  BY <1>1, SlotPlus, Constants
  <2> HIDE DEF h
  <2> QED  BY <1>1, <2>1, Constants DEF Slot
<1>10. ASSUME NEW i \in 1 .. h + n PROVE Ring(buf, out, t)[i] = both[i]
  <2>1. Ring(buf, out, t)[i] = buf[(out + (i - 1)) % BufLen]
    BY <1>6
  <2>2. CASE i <= h
    <3>1. i \in 1 .. h
      <4> HIDE DEF h
      <4> QED  BY <1>1, <2>2
    <3> QED  BY <1>7, <1>8, <2>1, <2>2, <3>1
  <2>3. CASE i > h
    <3>1. i - h \in 1 .. n /\ (i - h) - 1 \in Nat /\ h + ((i - h) - 1) = i - 1
          /\ h + ((i - h) - 1) <= BufLen /\ ~(i <= h)
      <4> HIDE DEF h, t, both, old
      <4>1. h \in Nat /\ i \in 1 .. h + n /\ BufLen \in Nat /\ h + n < BufLen
        BY <1>1, Constants
      <4> QED  BY <2>3, <4>1
    <3>2. more[i - h] = buf[(in + ((i - h) - 1)) % BufLen]
      BY <3>1
    <3>3. (((out + h) % BufLen) + ((i - h) - 1)) % BufLen
             = (out + (h + ((i - h) - 1))) % BufLen
      <4> HIDE DEF h
      <4> QED  BY <1>1, <3>1, SlotPlusTwice
    <3>4. both[i] = more[i - h]
      BY <1>8, <3>1
    <3> HIDE DEF h, t, both
    <3> QED  BY <1>9, <2>1, <3>1, <3>2, <3>3, <3>4
  <2>4. i <= h \/ i > h
    <3> HIDE DEF h
    <3> QED  BY <1>1
  <2> HIDE DEF h, t, both
  <2> QED  BY <2>2, <2>3, <2>4
<1>11. Ring(buf, out, t) = both
  <2> HIDE DEF t, both, h
  <2> QED  BY <1>6, <1>8, <1>10, SeqEqual
<1> QED  BY <1>3, <1>5, <1>11

LEMMA HeldNone ==
    ASSUME NEW in \in Slot, NEW out \in Slot
    PROVE  Held(in, out) = 0 <=> in = out
<1>1. Held(in, out) = IF in >= out THEN in - out ELSE in + BufLen - out
  BY HeldIs
<1> QED  BY <1>1, Constants DEF Slot

(***************************************************************************)
(* How far a slot of the ring, or one just after it, is from its end.      *)
(***************************************************************************)
LEMMA HeldAfter ==
    ASSUME NEW in \in Slot, NEW k \in 0 .. BufLen - 1
    PROVE  (in + k) % BufLen \in Slot /\ Held((in + k) % BufLen, in) = k
<1> DEFINE t == (in + k) % BufLen
<1>1. t \in Slot /\ t = IF in + k < BufLen THEN in + k ELSE in + k - BufLen
  BY SlotPlus, Constants
<1> HIDE DEF t
<1>2. Held(t, in) = IF t >= in THEN t - in ELSE t + BufLen - in
  BY <1>1, HeldIs
<1>3. t \in Slot /\ Held(t, in) = k
  BY <1>1, <1>2, Constants DEF Slot
<1> QED  BY <1>3 DEF t

LEMMA HeldBefore ==
    ASSUME NEW in \in Slot, NEW out \in Slot, NEW k \in Nat,
           k < Held(in, out)
    PROVE  /\ (out + k) % BufLen \in Slot
           /\ Held((out + k) % BufLen, in) = BufLen - Held(in, out) + k
<1> DEFINE t == (out + k) % BufLen
           h == Held(in, out)
<1>1. /\ h \in Slot /\ k < h
      /\ h = IF in >= out THEN in - out ELSE in + BufLen - out
  BY HeldIs
<1>2. k \in 0 .. BufLen
  <2> HIDE DEF h
  <2> QED  BY <1>1, Constants DEF Slot
<1>3. t \in Slot /\ t = IF out + k < BufLen THEN out + k ELSE out + k - BufLen
  BY <1>2, SlotPlus
<1> HIDE DEF t, h
<1>4. Held(t, in) = IF t >= in THEN t - in ELSE t + BufLen - in
  BY <1>3, HeldIs
<1>5. t \in Slot /\ Held(t, in) = BufLen - h + k
  BY <1>1, <1>2, <1>3, <1>4, Constants DEF Slot
<1> QED  BY <1>5 DEF t, h

-----------------------------------------------------------------------------
(***************************************************************************)
(* The interrupt handler.  The receive part fills the ring behind          *)
(* what any reader still has in front of it.                               *)
(***************************************************************************)
rx_moved == IF RI THEN Smaller(Len(rfifo), RxSpace) ELSE 0
tx_moved == IF WI THEN Smaller(WriteDepth - Len(wfifo), Held(tx_in, tx_out))
                  ELSE 0

LEMMA ReceiveMoves ==
    ASSUME TypeOK, Receive
    PROVE  /\ rx_moved \in 0 .. Len(rfifo)
           /\ rx_moved <= BufLen - 1 - Held(rx_in, rx_out)
           /\ rfifo' = SubSeq(rfifo, rx_moved + 1, Len(rfifo))
           /\ rfifo' \in Seq(Char) /\ Len(rfifo') = Len(rfifo) - rx_moved
           /\ rx_in' = (rx_in + rx_moved) % BufLen /\ rx_in' \in Slot
           /\ rx_buf' \in Buffer /\ rx_out' = rx_out
           /\ \A i \in Slot : rx_buf'[i] = IF Held(i, rx_in) < rx_moved
                                          THEN rfifo[Held(i, rx_in) + 1]
                                          ELSE rx_buf[i]
<1> DEFINE n == rx_moved
<1>1. /\ Len(rfifo) \in Nat /\ rfifo \in Seq(Char) /\ rx_in \in Slot
      /\ rx_out \in Slot /\ rx_buf \in [Slot -> Char]
  BY DEF TypeOK
<1>2. n \in 0 .. Len(rfifo) /\ n <= BufLen - 1 - Held(rx_in, rx_out)
  <2>1. Held(rx_in, rx_out) \in Slot
    BY <1>1, HeldIs
  <2> QED  BY <1>1, <2>1, Constants DEF rx_moved, Smaller, RxSpace, Slot
<1>3. /\ rx_buf' = [i \in 0 .. BufLen - 1 |->
                      IF Held(i, rx_in) < n THEN rfifo[Held(i, rx_in) + 1]
                                            ELSE rx_buf[i]]
      /\ rx_in' = (rx_in + n) % BufLen
      /\ rfifo' = SubSeq(rfifo, n + 1, Len(rfifo)) /\ rx_out' = rx_out
  BY DEF Receive, rx_moved
<1> HIDE DEF n
<1>4. rfifo' \in Seq(Char) /\ Len(rfifo') = Len(rfifo) - n
  BY <1>1, <1>2, <1>3, Parts
<1>5. rx_in' \in Slot
  <2>1. Held(rx_in, rx_out) \in Slot
    BY <1>1, HeldIs
  <2>2. n \in 0 .. BufLen
    BY <1>1, <1>2, <2>1, Constants DEF Slot
  <2> QED  BY <1>1, <1>3, <2>2, SlotPlus
<1>6. ASSUME NEW i \in Slot
      PROVE  (IF Held(i, rx_in) < n THEN rfifo[Held(i, rx_in) + 1]
                                    ELSE rx_buf[i]) \in Char
  <2>1. Held(i, rx_in) \in Slot
    BY <1>1, HeldIs
  <2>2. Held(i, rx_in) < n => Held(i, rx_in) + 1 \in 1 .. Len(rfifo)
    BY <1>1, <1>2, <2>1 DEF Slot
  <2>3. Held(i, rx_in) < n => rfifo[Held(i, rx_in) + 1] \in Char
    BY <1>1, <2>2, ElementOfSeq
  <2> QED  BY <1>1, <2>3
<1>7. rx_buf' \in Buffer
  BY <1>3, <1>6 DEF Buffer, Slot
<1>8. \A i \in Slot : rx_buf'[i] = IF Held(i, rx_in) < n
                                   THEN rfifo[Held(i, rx_in) + 1]
                                   ELSE rx_buf[i]
  BY <1>3 DEF Slot
<1> QED  BY <1>2, <1>3, <1>4, <1>5, <1>7, <1>8 DEF n

LEMMA ReceiveRing ==
    ASSUME TypeOK, Receive, NEW out \in Slot,
           Held(rx_in, out) <= Held(rx_in, rx_out)
    PROVE  /\ Held(rx_in', out) = Held(rx_in, out) + rx_moved
           /\ Ring(rx_buf', out, rx_in') \o rfifo'
                 = Ring(rx_buf, out, rx_in) \o rfifo
<1> DEFINE n == rx_moved
           h == Held(rx_in, out)
           moved == SubSeq(rfifo, 1, n)
<1>1. /\ rfifo \in Seq(Char) /\ rx_in \in Slot /\ rx_out \in Slot
      /\ rx_buf \in Buffer
  BY DEF TypeOK, Buffer
<1>2. /\ n \in 0 .. Len(rfifo) /\ rx_in' = (rx_in + n) % BufLen
      /\ rx_buf' \in Buffer
      /\ rfifo' \in Seq(Char)
      /\ rfifo' = SubSeq(rfifo, n + 1, Len(rfifo))
      /\ \A i \in Slot : rx_buf'[i] = IF Held(i, rx_in) < n
                                      THEN rfifo[Held(i, rx_in) + 1]
                                      ELSE rx_buf[i]
  BY ReceiveMoves
<1>3. n \in Nat /\ h \in Nat /\ h < BufLen /\ n <= BufLen - 1 - h
  <2>1. h \in Slot /\ Held(rx_in, rx_out) \in Slot
    BY <1>1, HeldIs
  <2>2. n <= BufLen - 1 - Held(rx_in, rx_out) /\ n \in Nat
    BY <1>2, ReceiveMoves
  <2> HIDE DEF n, h
  <2>3. h <= Held(rx_in, rx_out)
    BY DEF h
  <2> QED  BY <2>1, <2>2, <2>3, Constants DEF Slot
<1>4. /\ moved \in Seq(Char) /\ Len(moved) = n
      /\ \A i \in 1 .. n : moved[i] = rfifo[i]
      /\ moved \o rfifo' = rfifo
  <2> HIDE DEF n
  <2> QED  BY <1>1, <1>2, Parts
<1>5. Ring(rx_buf', out, rx_in) = Ring(rx_buf, out, rx_in)
  <2> SUFFICES ASSUME NEW i \in 1 .. h
               PROVE  rx_buf'[(out + (i - 1)) % BufLen]
                         = rx_buf[(out + (i - 1)) % BufLen]
    BY <1>1, <1>2, RingSame
  <2> DEFINE t == (out + (i - 1)) % BufLen
  <2> HIDE DEF n
  <2>1. i - 1 \in Nat /\ i - 1 < h
    <3> HIDE DEF h
    <3> QED  BY <1>3
  <2>2. t \in Slot /\ Held(t, rx_in) = BufLen - h + (i - 1)
    BY <1>1, <2>1, HeldBefore
  <2>3. ~(Held(t, rx_in) < n)
    <3> HIDE DEF t, h
    <3> QED  BY <1>3, <2>1, <2>2, Constants
  <2> HIDE DEF t
  <2>4. rx_buf'[t] = rx_buf[t]
    BY <1>2, <2>2, <2>3
  <2> QED  BY <2>4 DEF t
<1>6. ASSUME NEW i \in 1 .. n
      PROVE  moved[i] = rx_buf'[(rx_in + (i - 1)) % BufLen]
  <2> DEFINE t == (rx_in + (i - 1)) % BufLen
  <2>1. i - 1 \in 0 .. BufLen - 1 /\ i - 1 < n /\ (i - 1) + 1 = i
    <3> HIDE DEF n, h
    <3> QED  BY <1>3, Constants
  <2>2. t \in Slot /\ Held(t, rx_in) = i - 1
    BY <1>1, <2>1, HeldAfter
  <2> HIDE DEF t, n, moved
  <2>3. rx_buf'[t] = rfifo[i]
    BY <1>2, <2>1, <2>2
  <2> QED  BY <1>4, <2>3 DEF t
<1>7. /\ Held((rx_in + n) % BufLen, out) = h + n
      /\ Ring(rx_buf', out, (rx_in + n) % BufLen)
            = Ring(rx_buf', out, rx_in) \o moved
  <2> HIDE DEF n, moved
  <2>1. \A i \in 1 .. n : moved[i] = rx_buf'[(rx_in + (i - 1)) % BufLen]
    BY <1>6
  <2>2. /\ n <= BufLen - 1 - Held(rx_in, out)
        /\ rx_buf' \in Buffer /\ rx_in \in Slot /\ n \in Nat
        /\ moved \in Seq(Char) /\ Len(moved) = n
    BY <1>1, <1>2, <1>3, <1>4
  <2> QED  BY <2>1, <2>2, RingAdd
<1>8. Ring(rx_buf, out, rx_in) \in Seq(Char)
  BY <1>1, RingIs
<1>9. (Ring(rx_buf, out, rx_in) \o moved) \o rfifo'
         = Ring(rx_buf, out, rx_in) \o (moved \o rfifo')
  <2>1. moved \in Seq(Char) /\ rfifo' \in Seq(Char)
    BY <1>2, <1>4
  <2> HIDE DEF moved
  <2> QED  BY <1>8, <2>1, ConcatAssociative
<1> HIDE DEF moved, n, h
<1> QED  BY <1>2, <1>4, <1>5, <1>7, <1>9 DEF n, h

(***************************************************************************)
(* The transmit part moves the front of the ring to the end of the FIFO.   *)
(***************************************************************************)
LEMMA TransmitMoves ==
    ASSUME TypeOK, Transmit
    PROVE  /\ tx_moved \in 0 .. Held(tx_in, tx_out)
           /\ wfifo' \in Seq(Char) /\ Len(wfifo') <= WriteDepth
           /\ tx_out' = (tx_out + tx_moved) % BufLen /\ tx_out' \in Slot
           /\ UNCHANGED <<tx_buf, tx_in>>
           /\ Held(tx_in, tx_out') = Held(tx_in, tx_out) - tx_moved
           /\ wfifo' \o Ring(tx_buf, tx_out', tx_in)
                 = wfifo \o Ring(tx_buf, tx_out, tx_in)
<1> DEFINE n == tx_moved
           h == Held(tx_in, tx_out)
           ring == Ring(tx_buf, tx_out, tx_in)
           moved == SubSeq(ring, 1, n)
           rest == SubSeq(ring, n + 1, Len(ring))
<1>1. /\ wfifo \in Seq(Char) /\ Len(wfifo) \in 0 .. WriteDepth
      /\ tx_in \in Slot /\ tx_out \in Slot /\ tx_buf \in Buffer
  BY LenProperties, Constants DEF TypeOK, Buffer
<1>2. n \in 0 .. h /\ n <= WriteDepth - Len(wfifo) /\ h \in Nat
  <2>1. h \in Nat /\ WriteDepth - Len(wfifo) \in Nat
    <3>1. h \in Slot
      BY <1>1, HeldIs
    <3> QED  BY <1>1, <3>1, Constants DEF Slot
  <2> HIDE DEF h
  <2>2. n = IF WI THEN Smaller(WriteDepth - Len(wfifo), h) ELSE 0
    BY DEF tx_moved, h
  <2> QED  BY <2>1, <2>2 DEF Smaller
<1>3. /\ wfifo' = wfifo \o moved /\ tx_out' = (tx_out + n) % BufLen
      /\ UNCHANGED <<tx_buf, tx_in>>
  BY DEF Transmit, tx_moved
<1>4. ring \in Seq(Char) /\ Len(ring) = h
  BY <1>1, RingIs
<1>5. /\ moved \in Seq(Char) /\ Len(moved) = n /\ rest \in Seq(Char)
      /\ moved \o rest = ring
  <2>1. n \in 0 .. Len(ring)
    BY <1>2, <1>4
  <2> HIDE DEF n, ring
  <2> QED  BY <1>4, <2>1, Parts
<1>6. wfifo' \in Seq(Char) /\ Len(wfifo') <= WriteDepth
  <2>1. wfifo' \in Seq(Char) /\ Len(wfifo') = Len(wfifo) + n
    <3> HIDE DEF moved, n
    <3> QED  BY <1>1, <1>3, <1>5, ConcatProperties
  <2> HIDE DEF n, h
  <2> QED  BY <1>1, <1>2, <2>1, Constants
<1>7. /\ (tx_out + n) % BufLen \in Slot
      /\ Held(tx_in, (tx_out + n) % BufLen) = h - n
      /\ Ring(tx_buf, (tx_out + n) % BufLen, tx_in) = rest
  <2>1. n \in 0 .. Held(tx_in, tx_out)
    BY <1>2
  <2> HIDE DEF n
  <2>2. /\ (tx_out + n) % BufLen \in Slot
        /\ Held(tx_in, (tx_out + n) % BufLen) = h - n
        /\ Ring(tx_buf, (tx_out + n) % BufLen, tx_in)
              = SubSeq(ring, n + 1, h)
    BY <1>1, <2>1, RingDrop
  <2> QED  BY <1>4, <2>2
<1>8. (wfifo \o moved) \o rest = wfifo \o (moved \o rest)
  <2>1. wfifo \in Seq(Char) /\ moved \in Seq(Char) /\ rest \in Seq(Char)
    BY <1>1, <1>5
  <2> HIDE DEF moved, rest
  <2> QED  BY <2>1, ConcatAssociative
<1>9. wfifo' \o Ring(tx_buf, tx_out', tx_in) = wfifo \o ring
  <2> HIDE DEF moved, rest, ring, n, h
  <2> QED  BY <1>3, <1>5, <1>7, <1>8
<1>10. n \in 0 .. h /\ tx_out' \in Slot /\ Held(tx_in, tx_out') = h - n
  <2> HIDE DEF n, h
  <2> QED  BY <1>2, <1>3, <1>7
<1> QED  BY <1>3, <1>6, <1>9, <1>10

(***************************************************************************)
(* What a call copies at once: within the array, and no more than there    *)
(* is room, or are characters, by the pointer it holds.                    *)
(***************************************************************************)
LEMMA TxNFits ==
    ASSUME TypeOK
    PROVE  /\ TxN \in Nat /\ TxN <= left
           /\ TxN <= BufLen - 1 - Held(tx_in, stable)
           /\ tx_in + TxN <= BufLen
<1>1. tx_in \in Slot /\ stable \in Slot /\ left \in Nat
  BY DEF TypeOK
<1>2. Held(tx_in, stable) = IF tx_in >= stable THEN tx_in - stable
                            ELSE tx_in + BufLen - stable
  BY <1>1, HeldIs
<1>3. /\ TxSpace(tx_in, stable) \in Nat
      /\ TxSpace(tx_in, stable) <= BufLen - 1 - Held(tx_in, stable)
      /\ tx_in + TxSpace(tx_in, stable) <= BufLen
  BY <1>1, <1>2, Constants DEF TxSpace, Slot
<1>4. TxN = Smaller(TxSpace(tx_in, stable), left)
  BY DEF TxN
<1>5. Held(tx_in, stable) \in Nat
  BY <1>1, HeldIs DEF Slot
<1> DEFINE space == TxSpace(tx_in, stable)
<1> HIDE DEF space
<1> QED  BY <1>1, <1>3, <1>4, <1>5, Constants DEF Smaller, space, Slot

LEMMA RxNFits ==
    ASSUME TypeOK
    PROVE  /\ RxN \in Nat /\ RxN <= left /\ RxN <= Held(stable, rx_out)
           /\ left > 0 /\ stable # rx_out => RxN > 0
<1>1. rx_out \in Slot /\ stable \in Slot /\ left \in Nat
  BY DEF TypeOK
<1>2. Held(stable, rx_out) = IF stable >= rx_out THEN stable - rx_out
                             ELSE stable + BufLen - rx_out
  BY <1>1, HeldIs
<1> QED  BY <1>1, <1>2, Constants DEF RxN, Smaller, Slot

-----------------------------------------------------------------------------
(***************************************************************************)
(* The types.                                                              *)
(***************************************************************************)
LEMMA CharIs ==
    ASSUME NEW x \in Nat
    PROVE  x % Chars \in Char
BY Constants DEF Char

LEMMA InitTypes == Init => TypeOK
<1> SUFFICES ASSUME Init PROVE TypeOK
  OBVIOUS
<1>1. 0 \in Slot /\ 0 \in Char
  BY Constants DEF Slot, Char
<1>2. tx_buf \in [Slot -> Char] /\ rx_buf \in [Slot -> Char]
  BY <1>1 DEF Init, Slot
<1>3. /\ wfifo \in Seq(Char) /\ Len(wfifo) <= WriteDepth
      /\ rfifo \in Seq(Char) /\ Len(rfifo) <= ReadDepth
  BY EmptySeq, Constants DEF Init
<1>4. calls \subseteq {"w_snap", "r_snap", "close"}
  BY JtagAssumption DEF Init
<1> QED  BY <1>1, <1>2, <1>3, <1>4 DEF Init, TypeOK, Places

(***************************************************************************)
(* What the host, the handler and the timer leave alone of a call.         *)
(***************************************************************************)
CallKept == UNCHANGED <<pc, callVars>>

LEMMA HostTypesKept ==
    ASSUME TypeOK, HostReads \/ HostTypes \/ HostPolls
    PROVE  TypeOK'
<1>1. UNCHANGED <<tx_buf, tx_in, tx_out, rx_buf, rx_in, rx_out, pc, calls,
                  left, stable, next, got>>
  BY DEF HostReads, HostTypes, HostPolls, Host, callVars
<1>2. /\ wfifo' \in Seq(Char) /\ Len(wfifo') <= WriteDepth
      /\ rfifo' \in Seq(Char) /\ Len(rfifo') <= ReadDepth
      /\ typed' \in Char /\ seen' \in Char
  <2>1. CASE HostReads
    <3>1. Head(wfifo) \in Char /\ Tail(wfifo) \in Seq(Char)
          /\ Len(Tail(wfifo)) = Len(wfifo) - 1 /\ Len(wfifo) \in Nat
      BY <2>1, HeadTailProperties, LenProperties DEF HostReads, TypeOK
    <3>2. (Head(wfifo) + 1) % Chars \in Char
      BY <3>1, CharIs DEF Char
    <3>3. /\ wfifo' = Tail(wfifo) /\ seen' = (Head(wfifo) + 1) % Chars
          /\ UNCHANGED <<rfifo, typed>>
      BY <2>1 DEF HostReads
    <3> QED  BY <3>1, <3>2, <3>3, Constants DEF TypeOK
  <2>2. CASE HostTypes
    <3>1. /\ Append(rfifo, typed) \in Seq(Char) /\ Len(rfifo) \in Nat
          /\ Len(Append(rfifo, typed)) = Len(rfifo) + 1
      BY AppendProperties, LenProperties DEF TypeOK
    <3>2. (typed + 1) % Chars \in Char
      <4>1. typed + 1 \in Nat
        BY Constants DEF Char, TypeOK
      <4> QED  BY <4>1, CharIs
    <3>3. /\ Len(rfifo) < ReadDepth /\ rfifo' = Append(rfifo, typed)
          /\ typed' = (typed + 1) % Chars /\ UNCHANGED <<wfifo, seen>>
      BY <2>2 DEF HostTypes
    <3> QED  BY <3>1, <3>2, <3>3, Constants DEF TypeOK
  <2>3. CASE HostPolls
    BY <2>3 DEF HostPolls, hostVars, TypeOK
  <2> QED  BY <2>1, <2>2, <2>3
<1> QED  BY <1>1, <1>2 DEF TypeOK

LEMMA IrqTypesKept ==
    ASSUME TypeOK, Irq
    PROVE  TypeOK'
<1>1. Receive /\ Transmit
  BY DEF Irq
<1>2. UNCHANGED <<typed, seen, pc, calls, left, stable, next, got>>
  BY DEF Irq, hostVars, callVars
<1>3. /\ rfifo' \in Seq(Char) /\ rx_in' \in Slot /\ rx_buf' \in Buffer
      /\ rx_out' = rx_out /\ Len(rfifo') = Len(rfifo) - rx_moved
      /\ rx_moved \in 0 .. Len(rfifo)
  BY <1>1, ReceiveMoves
<1>4. Len(rfifo') <= ReadDepth
  <2>1. Len(rfifo) \in Nat /\ Len(rfifo) <= ReadDepth
    BY LenProperties DEF TypeOK
  <2> QED  BY <1>3, <2>1, Constants
<1>5. /\ wfifo' \in Seq(Char) /\ Len(wfifo') <= WriteDepth
      /\ tx_out' \in Slot /\ UNCHANGED <<tx_buf, tx_in>>
  BY <1>1, TransmitMoves
<1> QED  BY <1>2, <1>3, <1>4, <1>5 DEF TypeOK, Buffer

LEMMA CallTypesKept ==
    ASSUME TypeOK, Call \/ Program
    PROVE  TypeOK'
<1>1. UNCHANGED <<wfifo, rfifo, tx_out, rx_in, rx_buf, typed, seen, calls>>
  BY DEF Call, Program, WriteSnapshot, WriteAllCopied, WriteCopy,
         WritePublish, WriteEnable, WriteSpin, WriteCheck, ReadSnapshot,
         ReadFilled, ReadCopy, ReadPublish, ReadSpin, ReadCheck, ReadEnable,
         Close, Return, Goto, SameCall, callVars, hostVars
<1>2. pc' \in Places
  BY DEF Call, Program, WriteSnapshot, WriteAllCopied, WriteCopy,
         WritePublish, WriteEnable, WriteSpin, WriteCheck, ReadSnapshot,
         ReadFilled, ReadCopy, ReadPublish, ReadSpin, ReadCheck, ReadEnable,
         Close, Return, Goto, Places, TypeOK
<1>3. tx_buf' \in [Slot -> Char] /\ next' \in Char /\ tx_in' \in Slot
  <2>1. CASE WriteCopy
    <3>1. TxN \in Nat /\ next \in Nat /\ tx_in \in Nat
      BY TxNFits, Constants DEF TypeOK, Char, Slot
    <3>2. ASSUME NEW i \in Slot
          PROVE  (IF i \in tx_in .. tx_in + TxN - 1
                  THEN (next + i - tx_in) % Chars ELSE tx_buf[i]) \in Char
      <4>1. i \in tx_in .. tx_in + TxN - 1 => next + i - tx_in \in Nat
        BY <3>1 DEF Slot
      <4>2. tx_buf[i] \in Char
        BY DEF TypeOK
      <4> QED  BY <4>1, <4>2, CharIs
    <3>3. tx_buf' = [i \in 0 .. BufLen - 1 |->
                       IF i \in tx_in .. tx_in + TxN - 1
                       THEN (next + i - tx_in) % Chars ELSE tx_buf[i]]
      BY <2>1 DEF WriteCopy
    <3>4. tx_buf' \in [Slot -> Char]
      <4> HIDE DEF TxN
      <4> QED  BY <3>2, <3>3 DEF Slot
    <3>5. UNCHANGED <<next, tx_in>>
      BY <2>1 DEF WriteCopy, SameCall, callVars
    <3> QED  BY <3>4, <3>5 DEF TypeOK
  <2>2. CASE WritePublish
    <3>1. /\ tx_in' = (tx_in + TxN) % BufLen
          /\ next' = (next + TxN) % Chars /\ tx_buf' = tx_buf
      BY <2>2 DEF WritePublish
    <3>2. TxN \in Nat /\ tx_in + TxN <= BufLen
      BY TxNFits
    <3>3. next + TxN \in Nat /\ TxN \in 0 .. BufLen
      BY <3>2, Constants DEF TypeOK, Char, Slot
    <3>4. (next + TxN) % Chars \in Char
      BY <3>3, CharIs
    <3>5. (tx_in + TxN) % BufLen \in Slot
      BY <3>3, SlotPlus DEF TypeOK
    <3> QED  BY <3>1, <3>4, <3>5 DEF TypeOK
  <2>3. CASE ~WriteCopy /\ ~WritePublish
    <3>1. UNCHANGED <<tx_buf, next, tx_in>>
      BY <2>3
      DEF Call, Program, WriteSnapshot, WriteAllCopied, WriteEnable,
          WriteSpin, WriteCheck, ReadSnapshot, ReadFilled, ReadCopy,
          ReadPublish, ReadSpin, ReadCheck, ReadEnable, Close, Return,
          SameBuffers, SameCall, callVars
    <3> QED  BY <3>1 DEF TypeOK
  <2> QED  BY <2>1, <2>2, <2>3
<1>4. rx_out' \in Slot /\ got' \in Char
  <2>1. CASE ReadCopy
    <3>1. /\ got' = (rx_buf[(rx_out + RxN - 1) % BufLen] + 1) % Chars
          /\ rx_out' = rx_out
      BY <2>1 DEF ReadCopy, SameBuffers
    <3>2. (rx_out + RxN - 1) % BufLen \in Slot
      BY RxNFits, Constants DEF Slot, TypeOK
    <3>3. rx_buf[(rx_out + RxN - 1) % BufLen] + 1 \in Nat
      BY <3>2, Constants DEF TypeOK, Char
    <3> QED  BY <3>1, <3>3, CharIs DEF TypeOK
  <2>2. CASE ReadPublish
    <3>1. rx_out' = (rx_out + RxN) % BufLen /\ got' = got
      BY <2>2 DEF ReadPublish
    <3>2. rx_out + RxN \in Nat
      BY RxNFits DEF Slot, TypeOK
    <3>3. (rx_out + RxN) % BufLen \in Slot
      BY <3>2, Constants DEF Slot
    <3> QED  BY <3>1, <3>3 DEF TypeOK
  <2>3. CASE ~ReadCopy /\ ~ReadPublish
    <3>1. UNCHANGED <<rx_out, got>>
      BY <2>3
      DEF Call, Program, WriteSnapshot, WriteAllCopied, WriteCopy,
          WritePublish, WriteEnable, WriteSpin, WriteCheck, ReadSnapshot,
          ReadFilled, ReadSpin, ReadCheck, ReadEnable, Close, Return,
          SameBuffers, SameCall, callVars
    <3> QED  BY <3>1 DEF TypeOK
  <2> QED  BY <2>1, <2>2, <2>3
<1>5. left' \in Nat /\ stable' \in Slot
  <2>1. CASE Call
    <3>1. left' \in Nat /\ stable' = stable
      BY <2>1, JtagAssumption DEF Call
    <3> QED  BY <3>1 DEF TypeOK
  <2>2. CASE WritePublish
    <3>1. left' = left - TxN /\ stable' = stable
      BY <2>2 DEF WritePublish
    <3> QED  BY <3>1, TxNFits DEF TypeOK
  <2>3. CASE ReadPublish
    <3>1. left' = left - RxN /\ stable' = stable
      BY <2>3 DEF ReadPublish
    <3> QED  BY <3>1, RxNFits DEF TypeOK
  <2>4. CASE Program /\ ~WritePublish /\ ~ReadPublish
    <3>1. left' \in {0, left} /\ stable' \in {0, stable, tx_out, rx_in}
      BY <2>4
      DEF Program, WriteSnapshot, WriteAllCopied, WriteCopy, WriteEnable,
          WriteSpin, WriteCheck, ReadSnapshot, ReadFilled, ReadCopy,
          ReadSpin, ReadCheck, ReadEnable, Close, Return, SameCall, callVars
    <3>2. 0 \in Slot
      BY Constants DEF Slot
    <3> QED  BY <3>1, <3>2 DEF TypeOK
  <2> QED  BY <2>1, <2>2, <2>3, <2>4
<1> QED  BY <1>1, <1>2, <1>3, <1>4, <1>5 DEF TypeOK

-----------------------------------------------------------------------------
(***************************************************************************)
(* The invariant.                                                          *)
(***************************************************************************)
LEMMA InitIInv == Init => IInv
<1> SUFFICES ASSUME Init PROVE IInv
  OBVIOUS
<1>1. OldTxOut /\ OldRxIn /\ Copied /\ InterruptsOn
  BY DEF Init, OldTxOut, OldRxIn, Copied, InterruptsOn
<1> QED  BY <1>1, InitTypes DEF IInv

(***************************************************************************)
(* The handler turns the transmit interrupt off with an empty ring, the    *)
(* receive interrupt with a full one, and spares what a call holds.        *)
(***************************************************************************)
LEMMA IrqKeeps ==
    ASSUME IInv, Irq
    PROVE  IInv'
<1>1. TypeOK /\ TypeOK'
  BY IrqTypesKept DEF IInv
<1>2. Receive /\ Transmit /\ UNCHANGED <<pc, left, stable, next>>
  BY DEF Irq, callVars
<1>3. /\ tx_moved \in 0 .. Held(tx_in, tx_out)
      /\ tx_out' = (tx_out + tx_moved) % BufLen
      /\ UNCHANGED <<tx_buf, tx_in>>
      /\ Held(tx_in, tx_out') = Held(tx_in, tx_out) - tx_moved
  BY <1>1, <1>2, TransmitMoves
<1>4. /\ rx_moved \in 0 .. Len(rfifo)
      /\ rx_out' = rx_out /\ Len(rfifo') = Len(rfifo) - rx_moved
      /\ rfifo' \in Seq(Char)
  BY <1>1, <1>2, ReceiveMoves
<1>5. Held(rx_in', rx_out) = Held(rx_in, rx_out) + rx_moved
  <2>1. Held(rx_in, rx_out) \in Slot /\ rx_out \in Slot
    BY <1>1, HeldIs DEF TypeOK
  <2>2. Held(rx_in, rx_out) <= Held(rx_in, rx_out)
    BY <2>1, Constants DEF Slot
  <2> QED  BY <1>1, <1>2, <2>1, <2>2, ReceiveRing
<1>6. /\ Held(tx_in, tx_out) \in Slot /\ Held(rx_in, rx_out) \in Slot
      /\ Held(tx_in, stable) \in Slot /\ Held(stable, rx_out) \in Slot
  BY <1>1, HeldIs DEF TypeOK
<1>7. OldTxOut'
  <2> SUFFICES ASSUME pc \in {"w_copy", "w_publish"}
               PROVE  Held(tx_in, tx_out') <= Held(tx_in, stable)
    BY <1>2, <1>3 DEF OldTxOut
  <2>1. Held(tx_in, tx_out) <= Held(tx_in, stable)
    BY DEF IInv, OldTxOut
  <2> QED  BY <1>3, <1>6, <2>1, Constants DEF Slot
<1>8. OldRxIn'
  <2> SUFFICES ASSUME pc \in {"r_copy", "r_publish"}
               PROVE  /\ left > 0 /\ stable # rx_out
                      /\ Held(stable, rx_out) <= Held(rx_in', rx_out)
    BY <1>2, <1>4 DEF OldRxIn
  <2>1. /\ left > 0 /\ stable # rx_out
        /\ Held(stable, rx_out) <= Held(rx_in, rx_out)
    BY DEF IInv, OldRxIn
  <2>2. rx_moved \in Nat
    BY <1>1, <1>4, LenProperties DEF TypeOK
  <2> QED  BY <1>5, <1>6, <2>1, <2>2, Constants DEF Slot
<1>9. Copied'
  BY <1>2, <1>3 DEF IInv, Copied, TxN
<1>10. InterruptsOn'
  <2>1. irq_enable' = irq_enable
           \ ((IF RI /\ rfifo' # <<>> THEN {"RE"} ELSE {})
              \cup (IF WI /\ NothingLeft(tx_moved, WriteDepth - Len(wfifo))
                    THEN {"WE"} ELSE {}))
    BY <1>2 DEF Transmit, tx_moved
  <2>2. ASSUME tx_in' # tx_out'
        PROVE  \/ "WE" \in irq_enable'
               \/ pc' \in {"w_snap", "w_copy", "w_publish", "w_enable"}
    <3>1. tx_in # tx_out
      <4> SUFFICES ASSUME tx_in = tx_out PROVE FALSE
        OBVIOUS
      <4>1. Held(tx_in, tx_out) = 0
        BY <1>1, HeldNone DEF TypeOK
      <4>2. tx_moved = 0
        BY <1>3, <4>1
      <4>3. tx_out' = tx_out
        <5>1. tx_out \in Slot
          BY <1>1 DEF TypeOK
        <5>2. (tx_out + 0) % BufLen = tx_out
          BY <5>1, Constants DEF Slot
        <5> QED  BY <1>3, <4>2, <5>2
      <4> QED  BY <1>3, <2>2, <4>3
    <3>2. CASE WI /\ NothingLeft(tx_moved, WriteDepth - Len(wfifo))
      <4>1. tx_moved = Held(tx_in, tx_out)
        <5>1. tx_moved = Smaller(WriteDepth - Len(wfifo), Held(tx_in, tx_out))
          BY <3>2 DEF tx_moved
        <5>2. tx_moved < WriteDepth - Len(wfifo)
          BY <3>2 DEF NothingLeft
        <5>3. WriteDepth - Len(wfifo) \in Int
          BY <1>1, LenProperties, Constants DEF TypeOK
        <5> QED  BY <1>6, <5>1, <5>2, <5>3 DEF Smaller, Slot
      <4>2. Held(tx_in, tx_out') = 0
        BY <1>3, <1>6, <4>1 DEF Slot
      <4>3. tx_out' \in Slot /\ tx_in \in Slot
        BY <1>1, <1>3 DEF TypeOK
      <4>4. tx_in = tx_out'
        BY <4>2, <4>3, HeldNone
      <4> QED  BY <1>3, <2>2, <4>4
    <3>3. CASE ~(WI /\ NothingLeft(tx_moved, WriteDepth - Len(wfifo)))
      BY <1>2, <2>1, <3>1, <3>3 DEF IInv, InterruptsOn
    <3> QED  BY <3>2, <3>3
  <2>3. ASSUME "RE" \notin irq_enable'
        PROVE  \/ Held(rx_in', rx_out') = BufLen - 1
               \/ pc' \in {"r_more", "r_copy", "r_publish", "r_enable"}
    <3>1. CASE RI /\ rfifo' # <<>>
      <4>1. rx_moved = Smaller(Len(rfifo), RxSpace)
        BY <3>1 DEF rx_moved
      <4>2. Len(rfifo') > 0 /\ Len(rfifo) \in Nat /\ Len(rfifo') \in Nat
        BY <1>1, <1>4, <3>1, EmptySeq, LenProperties DEF TypeOK
      <4>3. rx_moved = BufLen - 1 - Held(rx_in, rx_out)
        BY <1>4, <4>1, <4>2 DEF Smaller, RxSpace
      <4>4. Held(rx_in', rx_out') = BufLen - 1
        BY <1>4, <1>5, <1>6, <4>3, Constants DEF Slot
      <4> QED  BY <4>4
    <3>2. CASE ~(RI /\ rfifo' # <<>>)
      <4>1. "RE" \notin irq_enable
        BY <2>1, <2>3, <3>2
      <4>2. rx_moved = 0
        BY <4>1 DEF rx_moved, RI
      <4>3. Held(rx_in', rx_out') = Held(rx_in, rx_out)
        BY <1>4, <1>5, <1>6, <4>2 DEF Slot
      <4> QED  BY <1>2, <4>1, <4>3 DEF IInv, InterruptsOn
    <3> QED  BY <3>1, <3>2
  <2> QED  BY <2>2, <2>3 DEF InterruptsOn
<1> QED  BY <1>1, <1>7, <1>8, <1>9, <1>10 DEF IInv

(***************************************************************************)
(* The calls.  A pointer is read just before it is used, and an interrupt  *)
(* that is off is turned on before the call returns or waits.              *)
(***************************************************************************)
LEMMA CallKeeps ==
    ASSUME IInv, Call \/ Program
    PROVE  IInv'
<1>1. TypeOK /\ TypeOK'
  BY CallTypesKept DEF IInv
<1>2. UNCHANGED <<tx_out, rx_in>>
  BY DEF Call, Program, WriteSnapshot, WriteAllCopied, WriteCopy,
         WritePublish, WriteEnable, WriteSpin, WriteCheck, ReadSnapshot,
         ReadFilled, ReadCopy, ReadPublish, ReadSpin, ReadCheck, ReadEnable,
         Close, Return, Goto
<1>3. ASSUME pc' \in {"w_copy", "w_publish"}
      PROVE  WriteSnapshot \/ WriteCopy
  BY <1>1, <1>3
  DEF Call, Program, WriteAllCopied, WritePublish, WriteEnable, WriteSpin,
      WriteCheck, ReadSnapshot, ReadFilled, ReadCopy, ReadPublish, ReadSpin,
      ReadCheck, ReadEnable, Close, Return, Goto, TypeOK
<1>4. ASSUME pc' \in {"r_copy", "r_publish"}
      PROVE  ReadSnapshot \/ ReadCopy
  BY <1>1, <1>4
  DEF Call, Program, WriteSnapshot, WriteAllCopied, WriteCopy, WritePublish,
      WriteEnable, WriteSpin, WriteCheck, ReadFilled, ReadPublish, ReadSpin,
      ReadCheck, ReadEnable, Close, Return, Goto, TypeOK
<1>5. OldTxOut'
  <2> SUFFICES ASSUME pc' \in {"w_copy", "w_publish"}
               PROVE  Held(tx_in', tx_out') <= Held(tx_in', stable')
    BY DEF OldTxOut
  <2>1. CASE WriteSnapshot
    <3>1. stable' = tx_out /\ tx_in' = tx_in
      BY <2>1 DEF WriteSnapshot, SameBuffers
    <3>2. Held(tx_in, tx_out) \in Slot
      BY <1>1, HeldIs DEF TypeOK
    <3> QED  BY <1>2, <3>1, <3>2, Constants DEF Slot
  <2>2. CASE WriteCopy
    <3>1. stable' = stable /\ tx_in' = tx_in /\ pc = "w_copy"
      BY <2>2 DEF WriteCopy, SameCall, callVars, Goto
    <3> QED  BY <1>2, <3>1 DEF IInv, OldTxOut
  <2> QED  BY <1>3, <2>1, <2>2
<1>6. OldRxIn'
  <2> SUFFICES ASSUME pc' \in {"r_copy", "r_publish"}
               PROVE  /\ left' > 0 /\ stable' # rx_out'
                      /\ Held(stable', rx_out') <= Held(rx_in', rx_out')
    BY DEF OldRxIn
  <2>1. CASE ReadSnapshot
    <3>1. left > 0 /\ left' = left /\ stable' = rx_in /\ rx_out' = rx_out
          /\ rx_in # rx_out
      BY <2>1 DEF ReadSnapshot, SameBuffers, Goto
    <3>2. Held(rx_in, rx_out) \in Slot
      BY <1>1, HeldIs DEF TypeOK
    <3> QED  BY <1>2, <3>1, <3>2, Constants DEF Slot
  <2>2. CASE ReadCopy
    <3>1. /\ UNCHANGED <<left, stable, rx_out>> /\ pc = "r_copy"
      BY <2>2 DEF ReadCopy, SameBuffers, Goto
    <3> QED  BY <1>2, <3>1 DEF IInv, OldRxIn
  <2> QED  BY <1>4, <2>1, <2>2
<1>7. Copied'
  <2> SUFFICES ASSUME pc' = "w_publish" PROVE Copied'
    BY DEF Copied
  <2>1. WriteCopy
    BY <1>3 DEF WriteSnapshot, Goto
  <2>2. UNCHANGED <<tx_in, next, stable, left>>
    BY <2>1 DEF WriteCopy, SameCall, callVars
  <2>3. TxN' = TxN
    BY <2>2 DEF TxN
  <2>4. TxN \in Nat /\ tx_in + TxN <= BufLen /\ tx_in \in Nat /\ next \in Nat
    <3>1. TxN \in Nat /\ tx_in + TxN <= BufLen
      BY <1>1, TxNFits
    <3> QED  BY <1>1, <3>1, Constants DEF TypeOK, Slot, Char
  <2>5. tx_buf' = [i \in 0 .. BufLen - 1 |->
                     IF i \in tx_in .. tx_in + TxN - 1
                     THEN (next + i - tx_in) % Chars ELSE tx_buf[i]]
    BY <2>1 DEF WriteCopy
  <2>6. ASSUME NEW i \in 0 .. TxN - 1
        PROVE  tx_buf'[tx_in + i] = (next + i) % Chars
    <3> HIDE DEF TxN
    <3>1. /\ tx_in + i \in 0 .. BufLen - 1
          /\ tx_in + i \in tx_in .. tx_in + TxN - 1
          /\ next + (tx_in + i) - tx_in = next + i
      BY <2>4, Constants
    <3> QED  BY <2>5, <3>1
  <2> QED  BY <2>2, <2>3, <2>6 DEF Copied
<1>8. ASSUME tx_in' # tx_out'
      PROVE  \/ "WE" \in irq_enable'
             \/ pc' \in {"w_snap", "w_copy", "w_publish", "w_enable"}
  <2>1. CASE WriteEnable
    BY <2>1 DEF WriteEnable, Kick
  <2>2. CASE WritePublish
    BY <2>2 DEF WritePublish, Goto
  <2>3. CASE ~WriteEnable /\ ~WritePublish
    <3>1. tx_in' = tx_in /\ ("WE" \in irq_enable => "WE" \in irq_enable')
      BY <2>3
      DEF Call, Program, WriteSnapshot, WriteAllCopied, WriteCopy, WriteSpin,
          WriteCheck, ReadSnapshot, ReadFilled, ReadCopy, ReadPublish,
          ReadSpin, ReadCheck, ReadEnable, Close, SameBuffers
    <3>2. pc \in {"w_snap", "w_copy", "w_publish", "w_enable"} =>
              pc' \in {"w_snap", "w_copy", "w_publish", "w_enable"}
      BY <2>3
      DEF Call, Program, WriteSnapshot, WriteAllCopied, WriteCopy, WriteSpin,
          WriteCheck, ReadSnapshot, ReadFilled, ReadCopy, ReadPublish,
          ReadSpin, ReadCheck, ReadEnable, Close, Goto, Return
    <3> QED  BY <1>2, <1>8, <3>1, <3>2 DEF IInv, InterruptsOn
  <2> QED  BY <2>1, <2>2, <2>3
<1>9. ASSUME "RE" \notin irq_enable'
      PROVE  \/ Held(rx_in', rx_out') = BufLen - 1
             \/ pc' \in {"r_more", "r_copy", "r_publish", "r_enable"}
  <2>1. ~ReadEnable
    BY <1>9 DEF ReadEnable
  <2>2. CASE ReadPublish
    BY <2>2 DEF ReadPublish, Goto
  <2>3. CASE ReadSnapshot
    <3>1. "RE" \notin irq_enable /\ rx_out' = rx_out
      BY <1>9, <2>3 DEF ReadSnapshot, SameBuffers
    <3>2. CASE pc' \in {"r_copy", "r_enable"}
      BY <3>2
    <3>3. CASE pc' \notin {"r_copy", "r_enable"}
      <4>1. rx_in = rx_out /\ pc = "r_snap"
        BY <2>3, <3>3 DEF ReadSnapshot, Goto
      <4>2. Held(rx_in, rx_out) = 0
        BY <1>1, <4>1, HeldNone DEF TypeOK
      <4>3. Held(rx_in, rx_out) = BufLen - 1
        BY <3>1, <4>1 DEF IInv, InterruptsOn
      <4> QED  BY <4>2, <4>3, Constants
    <3> QED  BY <3>2, <3>3
  <2>4. CASE ~ReadPublish /\ ~ReadSnapshot
    <3>1. rx_out' = rx_out /\ "RE" \notin irq_enable
      BY <1>9, <2>1, <2>4
      DEF Call, Program, WriteSnapshot, WriteAllCopied, WriteCopy,
          WritePublish, WriteEnable, WriteSpin, WriteCheck, ReadFilled,
          ReadCopy, ReadSpin, ReadCheck, Close, SameBuffers
    <3>2. pc \in {"r_more", "r_copy", "r_publish", "r_enable"} =>
              pc' \in {"r_more", "r_copy", "r_publish", "r_enable"}
      BY <2>1, <2>4
      DEF Call, Program, WriteSnapshot, WriteAllCopied, WriteCopy,
          WritePublish, WriteEnable, WriteSpin, WriteCheck, ReadFilled,
          ReadCopy, ReadSpin, ReadCheck, Close, Goto, Return
    <3> QED  BY <1>2, <3>1, <3>2 DEF IInv, InterruptsOn
  <2> QED  BY <2>2, <2>3, <2>4
<1> QED  BY <1>1, <1>5, <1>6, <1>7, <1>8, <1>9 DEF IInv, InterruptsOn

(***************************************************************************)
(* The host and the timer touch neither the rings nor the interrupts.      *)
(***************************************************************************)
LEMMA OtherKeeps ==
    ASSUME IInv, HostReads \/ HostTypes \/ HostPolls \/ Tick \/ UNCHANGED vars
    PROVE  IInv'
<1>1. UNCHANGED <<tx_buf, tx_in, tx_out, rx_buf, rx_in, rx_out, irq_enable,
                  pc, calls, left, stable, next, got>>
  BY DEF HostReads, HostTypes, HostPolls, Host, Tick, vars, txVars, rxVars,
         callVars
<1>2. TypeOK'
  <2>1. CASE HostReads \/ HostTypes \/ HostPolls
    BY <2>1, HostTypesKept DEF IInv
  <2>2. CASE Tick \/ UNCHANGED vars
    <3>1. UNCHANGED <<wfifo, rfifo, typed, seen>>
      BY <2>2 DEF Tick, vars, txVars, rxVars, hostVars
    <3> QED  BY <1>1, <3>1 DEF IInv, TypeOK
  <2> QED  BY <2>1, <2>2
<1>3. TxN' = TxN
  BY <1>1 DEF TxN
<1> QED
  BY <1>1, <1>2, <1>3 DEF IInv, OldTxOut, OldRxIn, Copied, InterruptsOn

LEMMA StepIInv == IInv /\ [Next]_vars => IInv'
BY IrqKeeps, CallKeeps, OtherKeeps DEF Next

(***************************************************************************)
(* The types, what the calls hold, and the interrupts, in every            *)
(* reachable state.                                                        *)
(***************************************************************************)
THEOREM Invariant == Spec => []IInv
<1> QED  BY InitIInv, StepIInv, PTL DEF Spec

(***************************************************************************)
(* No wake-up is lost: an interrupt that is off has nothing to do, or the  *)
(* call that gives it something to do is about to turn it on.              *)
(***************************************************************************)
THEOREM NoneLost == Spec => []InterruptsOn
<1>1. IInv => InterruptsOn
  BY DEF IInv
<1> QED  BY <1>1, Invariant, PTL

-----------------------------------------------------------------------------
(***************************************************************************)
(* From write to the host: what is under way is in the FIFO and the ring.  *)
(***************************************************************************)
TxUnderWay == wfifo \o Ring(tx_buf, tx_out, tx_in)

LEMMA TxUnderWayIs ==
    ASSUME TypeOK
    PROVE  /\ TxUnderWay \in Seq(Char)
           /\ Len(TxUnderWay) = Len(wfifo) + Held(tx_in, tx_out)
           /\ Len(wfifo) \in Nat
           /\ \A i \in 1 .. Len(wfifo) : TxUnderWay[i] = wfifo[i]
<1>1. /\ Ring(tx_buf, tx_out, tx_in) \in Seq(Char)
      /\ Len(Ring(tx_buf, tx_out, tx_in)) = Held(tx_in, tx_out)
      /\ wfifo \in Seq(Char) /\ Len(wfifo) \in Nat
      /\ Held(tx_in, tx_out) \in Slot
  BY RingIs, HeldIs, LenProperties DEF TypeOK, Buffer
<1> DEFINE ring == Ring(tx_buf, tx_out, tx_in)
<1> HIDE DEF ring
<1>2. /\ wfifo \o ring \in Seq(Char)
      /\ Len(wfifo \o ring) = Len(wfifo) + Len(ring)
      /\ \A i \in 1 .. Len(wfifo) + Len(ring) :
            (wfifo \o ring)[i] = IF i <= Len(wfifo) THEN wfifo[i]
                                 ELSE ring[i - Len(wfifo)]
  BY <1>1, ConcatProperties DEF ring
<1>3. Len(ring) \in Nat
  BY <1>1 DEF ring, Slot
<1>4. \A i \in 1 .. Len(wfifo) : (wfifo \o ring)[i] = wfifo[i]
  BY <1>1, <1>2, <1>3
<1> QED  BY <1>1, <1>2, <1>4 DEF ring, TxUnderWay

LEMMA HostReadsGets ==
    ASSUME TypeOK, HostReads
    PROVE  TxPipe!Get
<1>1. /\ wfifo # <<>> /\ wfifo' = Tail(wfifo)
      /\ seen' = (Head(wfifo) + 1) % Chars
      /\ UNCHANGED <<tx_buf, tx_in, tx_out, next>>
  BY DEF HostReads, Host, callVars
<1>2. wfifo \in Seq(Char) /\ Len(wfifo) \in Nat /\ Len(wfifo) > 0
  BY <1>1, EmptySeq DEF TypeOK
<1> DEFINE ring == Ring(tx_buf, tx_out, tx_in)
<1>3. ring \in Seq(Char)
  BY RingIs DEF TypeOK, Buffer
<1>4. ring' = ring
  BY <1>1
<1> HIDE DEF ring
<1>5. Tail(wfifo) = SubSeq(wfifo, 1 + 1, Len(wfifo)) /\ Head(wfifo) = wfifo[1]
  BY <1>1, <1>2, TailIsSubSeq
<1>6. SubSeq(wfifo \o ring, 1 + 1, Len(wfifo \o ring))
         = SubSeq(wfifo, 1 + 1, Len(wfifo)) \o ring
  BY <1>2, <1>3, DropOfConcat
<1>7. (wfifo \o ring)[1] = wfifo[1] /\ 1 \in 1 .. Len(wfifo \o ring)
  <2>1. Len(ring) \in Nat
    BY <1>3, LenProperties
  <2> QED  BY <1>2, <1>3, <2>1, ConcatProperties
<1>8. /\ (wfifo \o ring)' = SubSeq(wfifo \o ring, 1 + 1, Len(wfifo \o ring))
      /\ seen' = ((wfifo \o ring)[1] + 1) % Chars
  BY <1>1, <1>4, <1>5, <1>6, <1>7
<1> QED  BY <1>1, <1>7, <1>8 DEF TxPipe!Get, ring

(***************************************************************************)
(* A copy is written to slots no character under way is in.                *)
(***************************************************************************)
LEMMA WriteCopyHidden ==
    ASSUME IInv, WriteCopy
    PROVE  TxUnderWay' = TxUnderWay
<1>1. TypeOK /\ TypeOK'
  BY CallTypesKept DEF IInv, Program
<1>2. /\ tx_buf \in Buffer /\ tx_buf' \in Buffer
      /\ tx_in \in Slot /\ tx_out \in Slot /\ stable \in Slot
  BY <1>1 DEF TypeOK, Buffer
<1>3. /\ UNCHANGED <<wfifo, tx_in, tx_out>> /\ pc = "w_copy"
      /\ tx_buf' = [i \in 0 .. BufLen - 1 |->
                      IF i \in tx_in .. tx_in + TxN - 1
                      THEN (next + i - tx_in) % Chars ELSE tx_buf[i]]
  BY DEF WriteCopy, Goto
<1> DEFINE h == Held(tx_in, tx_out)
<1>4. /\ TxN \in Nat /\ h \in Nat /\ h < BufLen
      /\ TxN <= BufLen - 1 - h /\ tx_in + TxN <= BufLen
  <2>1. /\ TxN \in Nat /\ TxN <= BufLen - 1 - Held(tx_in, stable)
        /\ tx_in + TxN <= BufLen
    BY <1>1, TxNFits
  <2>2. h <= Held(tx_in, stable)
    BY <1>3 DEF IInv, OldTxOut
  <2>3. h \in Slot /\ Held(tx_in, stable) \in Slot
    BY <1>2, HeldIs
  <2> HIDE DEF h, TxN
  <2> QED  BY <2>1, <2>2, <2>3, Constants DEF Slot
<1>5. ASSUME NEW i \in 1 .. h
      PROVE  tx_buf'[(tx_out + (i - 1)) % BufLen]
                = tx_buf[(tx_out + (i - 1)) % BufLen]
  <2> DEFINE t == (tx_out + (i - 1)) % BufLen
  <2>1. i - 1 \in Nat /\ i - 1 < h
    <3> HIDE DEF h
    <3> QED  BY <1>4
  <2>2. t \in Slot /\ Held(t, tx_in) = BufLen - h + (i - 1)
    BY <1>2, <2>1, HeldBefore
  <2> HIDE DEF t
  <2>3. Held(t, tx_in) = IF t >= tx_in THEN t - tx_in ELSE t + BufLen - tx_in
    BY <1>2, <2>2, HeldIs
  <2>4. t \notin tx_in .. tx_in + TxN - 1
    <3> HIDE DEF h, TxN
    <3> QED  BY <1>2, <1>4, <2>1, <2>2, <2>3, Constants DEF Slot
  <2>5. tx_buf'[t] = tx_buf[t]
    BY <1>3, <2>2, <2>4 DEF Slot
  <2> QED  BY <2>5 DEF t
<1>6. Ring(tx_buf', tx_out, tx_in) = Ring(tx_buf, tx_out, tx_in)
  BY <1>2, <1>5, RingSame
<1> QED  BY <1>3, <1>6 DEF TxUnderWay

(***************************************************************************)
(* What was copied is under way when tx_in has moved, in order.            *)
(***************************************************************************)
LEMMA WritePublishPuts ==
    ASSUME IInv, WritePublish
    PROVE  \/ TxPipe!Put
           \/ TxUnderWay' = TxUnderWay /\ next' = next /\ seen' = seen
<1>1. TypeOK
  BY DEF IInv
<1>2. /\ wfifo \in Seq(Char) /\ Len(wfifo) \in Nat /\ Len(wfifo) <= WriteDepth
      /\ tx_buf \in Buffer /\ tx_in \in Slot /\ tx_out \in Slot
      /\ stable \in Slot /\ next \in Char
  BY <1>1, LenProperties DEF TypeOK, Buffer
<1>3. /\ UNCHANGED <<wfifo, tx_buf, tx_out, seen>> /\ pc = "w_publish"
      /\ tx_in' = (tx_in + TxN) % BufLen /\ next' = (next + TxN) % Chars
  BY DEF WritePublish, Goto, hostVars
<1> DEFINE h == Held(tx_in, tx_out)
           n == TxN
           more == [i \in 1 .. n |-> (next + i - 1) % Chars]
           ring == Ring(tx_buf, tx_out, tx_in)
<1>4. /\ n \in Nat /\ h \in Nat /\ h < BufLen
      /\ n <= BufLen - 1 - h /\ tx_in + n <= BufLen
  <2>1. /\ n \in Nat /\ n <= BufLen - 1 - Held(tx_in, stable)
        /\ tx_in + n <= BufLen
    BY <1>1, TxNFits
  <2>2. h <= Held(tx_in, stable)
    BY <1>3 DEF IInv, OldTxOut
  <2>3. h \in Slot /\ Held(tx_in, stable) \in Slot
    BY <1>2, HeldIs
  <2> HIDE DEF h, n
  <2> QED  BY <2>1, <2>2, <2>3, Constants DEF Slot
<1>5. \A i \in 0 .. n - 1 : tx_buf[tx_in + i] = (next + i) % Chars
  BY <1>3 DEF IInv, Copied
<1> HIDE DEF n
<1>6. more \in Seq(Char) /\ Len(more) = n
  <2>1. ASSUME NEW i \in 1 .. n PROVE (next + i - 1) % Chars \in Char
    <3>1. next + i - 1 \in Nat
      BY <1>2, <1>4, Constants DEF Char
    <3> QED  BY <3>1, CharIs
  <2>2. more \in [1 .. n -> Char]
    BY <2>1
  <2>3. more \in Seq(Char)
    <3> HIDE DEF more
    <3> QED  BY <1>4, <2>2, SeqDef
  <2> HIDE DEF more
  <2> QED  BY <1>4, <2>2, <2>3, LenProperties
<1>7. ASSUME NEW i \in 1 .. n
      PROVE  more[i] = tx_buf[(tx_in + (i - 1)) % BufLen]
  <2>1. /\ i - 1 \in 0 .. n - 1 /\ i - 1 \in 0 .. BufLen
        /\ tx_in + (i - 1) < BufLen /\ next + i - 1 = next + (i - 1)
    BY <1>2, <1>4, Constants DEF Slot, Char
  <2>2. (tx_in + (i - 1)) % BufLen = tx_in + (i - 1)
    BY <1>2, <2>1, SlotPlus
  <2>3. tx_buf[tx_in + (i - 1)] = (next + (i - 1)) % Chars
    BY <1>5, <2>1
  <2> QED  BY <2>1, <2>2, <2>3
<1>8. Ring(tx_buf, tx_out, (tx_in + n) % BufLen) = ring \o more
  <2>1. n <= BufLen - 1 - Held(tx_in, tx_out)
    BY <1>4
  <2>2. \A i \in 1 .. n : more[i] = tx_buf[(tx_in + (i - 1)) % BufLen]
    BY <1>7
  <2>3. /\ tx_buf \in Buffer /\ tx_in \in Slot /\ tx_out \in Slot
        /\ n \in Nat /\ more \in Seq(Char) /\ Len(more) = n
    BY <1>2, <1>4, <1>6
  <2> HIDE DEF more
  <2> QED  BY <2>1, <2>2, <2>3, RingAdd
<1>9. ring \in Seq(Char) /\ Len(ring) = h
  BY <1>2, RingIs
<1>10. TxUnderWay' = TxUnderWay \o more
  <2>1. (wfifo \o ring) \o more = wfifo \o (ring \o more)
    <3> HIDE DEF more, ring
    <3> QED  BY <1>2, <1>6, <1>9, ConcatAssociative
  <2>2. TxUnderWay' = wfifo \o Ring(tx_buf, tx_out, (tx_in + n) % BufLen)
    BY <1>3 DEF TxUnderWay, n
  <2> QED  BY <1>8, <2>1, <2>2 DEF TxUnderWay
<1>11. Len(TxUnderWay) = Len(wfifo) + h /\ TxUnderWay \in Seq(Char)
  BY <1>1, TxUnderWayIs
<1>12. CASE n = 0
  <2>1. more = <<>>
    <3> HIDE DEF more
    <3> QED  BY <1>6, <1>12, EmptySeq
  <2>2. TxUnderWay \o <<>> = TxUnderWay
    BY <1>11, ConcatEmptySeq
  <2>3. TxUnderWay' = TxUnderWay
    <3> HIDE DEF more
    <3> QED  BY <1>10, <2>1, <2>2
  <2>4. (next + 0) % Chars = next
    BY <1>2, Constants DEF Char
  <2> QED  BY <1>3, <1>12, <2>3, <2>4 DEF n
<1>13. CASE n # 0
  <2>1. n \in 1 .. (BufLen - 1 + WriteDepth) - Len(TxUnderWay)
    <3> HIDE DEF h
    <3> QED  BY <1>2, <1>4, <1>11, <1>13, Constants
  <2>2. next' = (next + n) % Chars /\ seen' = seen
    BY <1>3 DEF n
  <2> QED  BY <1>10, <2>1, <2>2 DEF TxPipe!Put, TxUnderWay
<1> QED  BY <1>12, <1>13

(***************************************************************************)
(* write to host is a pipe: an interrupt moves characters within it, a     *)
(* copy is not in it until tx_in has moved.                                *)
(***************************************************************************)
THEOREM TxImplements == Spec => TxIsPipe
<1>1. Init => TxPipe!PipeInit
  <2> SUFFICES ASSUME Init PROVE TxPipe!PipeInit
    OBVIOUS
  <2>1. TypeOK
    BY InitTypes
  <2>2. wfifo = <<>> /\ tx_in = 0 /\ tx_out = 0 /\ next = 0 /\ seen = 0
    BY DEF Init
  <2>3. Held(tx_in, tx_out) = 0
    BY <2>1, <2>2, HeldNone DEF TypeOK
  <2>4. TxUnderWay \in Seq(Char) /\ Len(TxUnderWay) = 0
    BY <2>1, <2>2, <2>3, TxUnderWayIs, EmptySeq
  <2>5. TxUnderWay = <<>>
    BY <2>4, EmptySeq
  <2> QED  BY <2>2, <2>5 DEF TxPipe!PipeInit, TxUnderWay
<1>2. IInv /\ [Next]_vars
      => [TxPipe!Put \/ TxPipe!Get]_<<TxUnderWay, next, seen>>
  <2> SUFFICES ASSUME IInv, [Next]_vars
               PROVE  \/ TxPipe!Put \/ TxPipe!Get
                      \/ UNCHANGED <<TxUnderWay, next, seen>>
    OBVIOUS
  <2>1. CASE HostReads
    BY <2>1, HostReadsGets DEF IInv
  <2>2. CASE Irq
    <3>1. Transmit /\ UNCHANGED <<next, seen>>
      BY <2>2 DEF Irq, callVars, hostVars
    <3>2. TxUnderWay' = TxUnderWay
      BY <3>1, TransmitMoves DEF IInv, TxUnderWay
    <3> QED  BY <3>1, <3>2
  <2>3. CASE WriteCopy
    <3>1. UNCHANGED <<next, seen>>
      BY <2>3 DEF WriteCopy, SameCall, callVars, Goto, hostVars
    <3> QED  BY <2>3, <3>1, WriteCopyHidden
  <2>4. CASE WritePublish
    BY <2>4, WritePublishPuts
  <2>5. CASE \/ HostTypes \/ HostPolls \/ Tick \/ UNCHANGED vars
             \/ Call
             \/ Program /\ ~WriteCopy /\ ~WritePublish
    <3>1. UNCHANGED <<wfifo, tx_buf, tx_out, tx_in, next, seen>>
      BY <2>5
      DEF HostTypes, HostPolls, Host, Tick, vars, Call, Program,
          WriteSnapshot, WriteAllCopied, WriteEnable, WriteSpin, WriteCheck,
          ReadSnapshot, ReadFilled, ReadCopy, ReadPublish, ReadSpin,
          ReadCheck, ReadEnable, Close, Return, Goto, SameBuffers, SameCall,
          txVars, callVars, hostVars
    <3> QED  BY <3>1 DEF TxUnderWay
  <2> QED  BY <2>1, <2>2, <2>3, <2>4, <2>5 DEF Next
<1> QED
  BY <1>1, <1>2, Invariant, PTL
  DEF Spec, TxIsPipe, TxPipe!PipeSpec, TxUnderWay

-----------------------------------------------------------------------------
(***************************************************************************)
(* From the host to read: what is under way is in the ring, in front of    *)
(* what the call has taken already, and in the FIFO.                       *)
(***************************************************************************)
RxOut == IF pc = "r_publish" THEN (rx_out + RxN) % BufLen ELSE rx_out
RxUnderWay == Ring(rx_buf, RxOut, rx_in) \o rfifo

LEMMA RxOutIs ==
    ASSUME IInv
    PROVE  RxOut \in Slot /\ Held(rx_in, RxOut) <= Held(rx_in, rx_out)
<1>1. TypeOK /\ rx_in \in Slot /\ rx_out \in Slot /\ stable \in Slot
  BY DEF IInv, TypeOK
<1>2. Held(rx_in, rx_out) \in Slot
  BY <1>1, HeldIs
<1>3. CASE pc = "r_publish"
  <2>1. RxN \in Nat /\ RxN <= Held(stable, rx_out)
    BY <1>1, RxNFits
  <2>2. Held(stable, rx_out) <= Held(rx_in, rx_out)
    BY <1>3 DEF IInv, OldRxIn
  <2>3. Held(stable, rx_out) \in Slot
    BY <1>1, HeldIs
  <2>4. RxN \in 0 .. Held(rx_in, rx_out)
    BY <1>2, <2>1, <2>2, <2>3, Constants DEF Slot
  <2>5. /\ (rx_out + RxN) % BufLen \in Slot
        /\ Held(rx_in, (rx_out + RxN) % BufLen) = Held(rx_in, rx_out) - RxN
    <3> HIDE DEF RxN
    <3>1. rx_buf \in Buffer
      BY <1>1 DEF TypeOK, Buffer
    <3> QED  BY <1>1, <2>4, <3>1, RingDrop
  <2>6. RxOut = (rx_out + RxN) % BufLen
    BY <1>3 DEF RxOut
  <2>7. Held(rx_in, rx_out) - RxN <= Held(rx_in, rx_out)
    BY <1>2, <2>1, Constants DEF Slot
  <2> QED  BY <2>5, <2>6, <2>7
<1>4. CASE pc # "r_publish"
  <2>1. RxOut = rx_out
    BY <1>4 DEF RxOut
  <2>2. Held(rx_in, rx_out) <= Held(rx_in, rx_out)
    BY <1>2, Constants DEF Slot
  <2> QED  BY <1>1, <2>1, <2>2
<1> QED  BY <1>3, <1>4

LEMMA RxUnderWayIs ==
    ASSUME IInv
    PROVE  /\ Ring(rx_buf, RxOut, rx_in) \in Seq(Char)
           /\ Len(Ring(rx_buf, RxOut, rx_in)) \in 0 .. BufLen - 1
           /\ rfifo \in Seq(Char) /\ Len(rfifo) \in Nat
           /\ RxUnderWay \in Seq(Char)
           /\ Len(RxUnderWay)
                 = Len(Ring(rx_buf, RxOut, rx_in)) + Len(rfifo)
<1>1. /\ RxOut \in Slot /\ rx_in \in Slot /\ rx_buf \in Buffer
      /\ rfifo \in Seq(Char) /\ Len(rfifo) \in Nat
  BY RxOutIs, LenProperties DEF IInv, TypeOK, Buffer
<1>2. /\ Ring(rx_buf, RxOut, rx_in) \in Seq(Char)
      /\ Len(Ring(rx_buf, RxOut, rx_in)) \in 0 .. BufLen - 1
  BY <1>1, RingIs, HeldIs DEF Slot
<1> QED  BY <1>1, <1>2, ConcatProperties DEF RxUnderWay

LEMMA HostTypesPuts ==
    ASSUME IInv, HostTypes
    PROVE  RxPipe!Put
<1>1. /\ Len(rfifo) < ReadDepth /\ rfifo' = Append(rfifo, typed)
      /\ typed' = (typed + 1) % Chars
      /\ UNCHANGED <<rx_buf, rx_in, rx_out, pc, stable, left, got>>
  BY DEF HostTypes, Host, callVars
<1>2. typed \in Char
  BY DEF IInv, TypeOK
<1> DEFINE ring == Ring(rx_buf, RxOut, rx_in)
           one == [i \in 1 .. 1 |-> (typed + i - 1) % Chars]
<1>3. ring' = ring
  BY <1>1 DEF RxOut, RxN
<1>4. /\ ring \in Seq(Char) /\ Len(ring) \in 0 .. BufLen - 1
      /\ rfifo \in Seq(Char) /\ Len(rfifo) \in Nat
      /\ Len(ring \o rfifo) = Len(ring) + Len(rfifo)
  BY RxUnderWayIs DEF RxUnderWay
<1>5. one = <<typed>>
  <2>1. (typed + 1 - 1) % Chars = typed
    BY <1>2, Constants DEF Char
  <2> QED  BY <2>1
<1>6. rfifo' = rfifo \o <<typed>>
  BY <1>1, <1>2, <1>4, AppendIsConcat
<1>7. (ring \o rfifo) \o <<typed>> = ring \o (rfifo \o <<typed>>)
  <2>1. <<typed>> \in Seq(Char)
    BY <1>2
  <2> HIDE DEF ring
  <2> QED  BY <1>4, <2>1, ConcatAssociative
<1>8. (ring \o rfifo)' = (ring \o rfifo) \o one
  BY <1>3, <1>5, <1>6, <1>7
<1>9. 1 \in 1 .. (BufLen - 1 + ReadDepth) - Len(ring \o rfifo)
  <2> HIDE DEF ring
  <2> QED  BY <1>1, <1>4, Constants
<1> HIDE DEF ring, one
<1>10. /\ (ring \o rfifo)' = (ring \o rfifo) \o one
       /\ typed' = (typed + 1) % Chars /\ got' = got
  BY <1>1, <1>8
<1> QED  BY <1>9, <1>10 DEF RxPipe!Put, ring, one, RxOut

(***************************************************************************)
(* What a call copies out of the ring leaves the pipe, though rx_out       *)
(* follows later.                                                          *)
(***************************************************************************)
LEMMA ReadCopyGets ==
    ASSUME IInv, ReadCopy
    PROVE  RxPipe!Get
<1>1. /\ UNCHANGED <<rx_buf, rx_in, rx_out, rfifo, left, stable, typed>>
      /\ pc = "r_copy" /\ pc' = "r_publish"
      /\ got' = (rx_buf[(rx_out + RxN - 1) % BufLen] + 1) % Chars
  BY DEF ReadCopy, SameBuffers, Goto, hostVars
<1>2. TypeOK /\ rx_in \in Slot /\ rx_out \in Slot /\ stable \in Slot
      /\ rx_buf \in Buffer
  BY DEF IInv, TypeOK, Buffer
<1> DEFINE n == RxN
           h == Held(rx_in, rx_out)
           ring == Ring(rx_buf, rx_out, rx_in)
<1>3. n \in 1 .. h /\ h \in Nat /\ h < BufLen
  <2>1. /\ n \in Nat /\ n <= Held(stable, rx_out)
        /\ left > 0 /\ stable # rx_out => n > 0
    BY <1>2, RxNFits
  <2>2. left > 0 /\ stable # rx_out /\ Held(stable, rx_out) <= h
    BY <1>1 DEF IInv, OldRxIn
  <2>3. h \in Slot /\ Held(stable, rx_out) \in Slot
    BY <1>2, HeldIs
  <2> HIDE DEF n, h
  <2> QED  BY <2>1, <2>2, <2>3, Constants DEF Slot
<1>4. RxOut = rx_out /\ RxOut' = (rx_out + n) % BufLen
  BY <1>1 DEF RxOut, RxN
<1>5. /\ ring \in Seq(Char) /\ Len(ring) = h
      /\ ring[n] = rx_buf[(rx_out + (n - 1)) % BufLen]
  <2> HIDE DEF n
  <2> QED  BY <1>2, <1>3, RingIs
<1>6. Ring(rx_buf, (rx_out + n) % BufLen, rx_in) = SubSeq(ring, n + 1, h)
  <2>1. n \in 0 .. Held(rx_in, rx_out)
    BY <1>3
  <2> HIDE DEF n
  <2> QED  BY <1>2, <2>1, RingDrop
<1>7. rfifo \in Seq(Char) /\ Len(rfifo) \in Nat
  BY RxUnderWayIs
<1>8. SubSeq(ring \o rfifo, n + 1, Len(ring \o rfifo))
         = SubSeq(ring, n + 1, Len(ring)) \o rfifo
  <2>1. n \in 0 .. Len(ring)
    BY <1>3, <1>5
  <2> HIDE DEF n, ring
  <2> QED  BY <1>5, <1>7, <2>1, DropOfConcat
<1>9. (ring \o rfifo)[n] = ring[n] /\ n \in 1 .. Len(ring \o rfifo)
  <2> HIDE DEF n, ring, h
  <2>1. /\ Len(ring \o rfifo) = Len(ring) + Len(rfifo)
        /\ \A i \in 1 .. Len(ring) + Len(rfifo) :
              (ring \o rfifo)[i] = IF i <= Len(ring) THEN ring[i]
                                   ELSE rfifo[i - Len(ring)]
    BY <1>5, <1>7, ConcatProperties
  <2> QED  BY <1>3, <1>5, <1>7, <2>1
<1>10. rx_out + n - 1 = rx_out + (n - 1)
  <2> HIDE DEF n, h
  <2> QED  BY <1>2, <1>3, Constants DEF Slot
<1>11. /\ RxUnderWay = ring \o rfifo
       /\ RxUnderWay' = SubSeq(RxUnderWay, n + 1, Len(RxUnderWay))
  <2>1. RxUnderWay = ring \o rfifo
    BY <1>4 DEF RxUnderWay
  <2>2. RxUnderWay' = Ring(rx_buf, (rx_out + n) % BufLen, rx_in) \o rfifo
    BY <1>1, <1>4 DEF RxUnderWay
  <2> HIDE DEF n, h, ring
  <2> QED  BY <1>5, <1>6, <1>8, <2>1, <2>2
<1>12. got' = (RxUnderWay[n] + 1) % Chars
  BY <1>1, <1>5, <1>9, <1>10, <1>11
<1> HIDE DEF n, h, ring
<1>13. /\ n \in 1 .. Len(RxUnderWay)
       /\ RxUnderWay' = SubSeq(RxUnderWay, n + 1, Len(RxUnderWay))
       /\ got' = (RxUnderWay[n] + 1) % Chars /\ typed' = typed
  BY <1>1, <1>9, <1>11, <1>12
<1> QED  BY <1>13 DEF RxPipe!Get, RxUnderWay, RxOut

(***************************************************************************)
(* host to read is a pipe, whichever value of rx_in the call has, and      *)
(* whatever the handler adds meanwhile.                                    *)
(***************************************************************************)
THEOREM RxImplements == Spec => RxIsPipe
<1>1. Init => RxPipe!PipeInit
  <2> SUFFICES ASSUME Init PROVE RxPipe!PipeInit
    OBVIOUS
  <2>1. TypeOK /\ IInv
    BY InitTypes, InitIInv
  <2>2. /\ rfifo = <<>> /\ rx_in = 0 /\ rx_out = 0 /\ typed = 0 /\ got = 0
        /\ pc = "idle"
    BY DEF Init
  <2>3. RxOut = rx_out
    BY <2>2 DEF RxOut
  <2>4. Held(rx_in, rx_out) = 0
    BY <2>1, <2>2, HeldNone DEF TypeOK
  <2>5. Len(Ring(rx_buf, rx_out, rx_in)) = 0
    BY <2>1, <2>4, RingIs DEF TypeOK, Buffer
  <2>6. RxUnderWay \in Seq(Char) /\ Len(RxUnderWay) = 0
    BY <2>1, <2>2, <2>3, <2>5, RxUnderWayIs, EmptySeq
  <2>7. RxUnderWay = <<>>
    BY <2>6, EmptySeq
  <2> QED  BY <2>2, <2>7 DEF RxPipe!PipeInit, RxUnderWay, RxOut
<1>2. IInv /\ [Next]_vars
      => [RxPipe!Put \/ RxPipe!Get]_<<RxUnderWay, typed, got>>
  <2> SUFFICES ASSUME IInv, [Next]_vars
               PROVE  \/ RxPipe!Put \/ RxPipe!Get
                      \/ UNCHANGED <<RxUnderWay, typed, got>>
    OBVIOUS
  <2>1. CASE HostTypes
    BY <2>1, HostTypesPuts
  <2>2. CASE Irq
    <3>1. /\ Receive /\ UNCHANGED <<typed, got, pc, stable, left>>
          /\ rx_out' = rx_out
      BY <2>2 DEF Irq, callVars, hostVars, Receive
    <3>2. RxOut' = RxOut
      BY <3>1 DEF RxOut, RxN
    <3>3. RxOut \in Slot /\ Held(rx_in, RxOut) <= Held(rx_in, rx_out)
      BY RxOutIs
    <3>4. Ring(rx_buf', RxOut, rx_in') \o rfifo'
             = Ring(rx_buf, RxOut, rx_in) \o rfifo
      <4> HIDE DEF RxOut
      <4>1. TypeOK
        BY DEF IInv
      <4> QED  BY <3>1, <3>3, <4>1, ReceiveRing
    <3> QED  BY <3>1, <3>2, <3>4 DEF RxUnderWay
  <2>3. CASE ReadCopy
    BY <2>3, ReadCopyGets
  <2>4. CASE ReadPublish
    <3>1. /\ pc = "r_publish" /\ pc' = "r_more"
          /\ rx_out' = (rx_out + RxN) % BufLen
          /\ UNCHANGED <<rx_buf, rx_in, rfifo, typed, got>>
      BY <2>4 DEF ReadPublish, Goto, hostVars
    <3>2. RxOut' = RxOut
      BY <3>1 DEF RxOut
    <3> QED  BY <3>1, <3>2 DEF RxUnderWay
  <2>5. CASE HostReads \/ HostPolls \/ Tick \/ UNCHANGED vars
    <3>1. UNCHANGED <<rx_buf, rx_in, rx_out, rfifo, pc, stable, left, typed,
                      got>>
      BY <2>5
      DEF HostReads, HostPolls, Host, Tick, vars, rxVars, hostVars, callVars
    <3> QED  BY <3>1 DEF RxUnderWay, RxOut, RxN
  <2>6. CASE (Call \/ Program) /\ ~ReadCopy /\ ~ReadPublish
    <3>1. UNCHANGED <<rx_buf, rx_in, rx_out, rfifo, typed, got>>
      BY <2>6
      DEF Call, Program, WriteSnapshot, WriteAllCopied, WriteCopy,
          WritePublish, WriteEnable, WriteSpin, WriteCheck, ReadSnapshot,
          ReadFilled, ReadSpin, ReadCheck, ReadEnable, Close, Return, Goto,
          SameBuffers, SameCall, callVars, hostVars
    <3>2. pc # "r_publish" /\ pc' # "r_publish"
      <4>1. calls \subseteq {"w_snap", "r_snap", "close"}
        BY DEF IInv, TypeOK
      <4> QED
        BY <2>6, <4>1
        DEF Call, Program, WriteSnapshot, WriteAllCopied, WriteCopy,
            WritePublish, WriteEnable, WriteSpin, WriteCheck, ReadSnapshot,
            ReadFilled, ReadSpin, ReadCheck, ReadEnable, Close, Return, Goto
    <3> QED  BY <3>1, <3>2 DEF RxUnderWay, RxOut
  <2> QED  BY <2>1, <2>2, <2>3, <2>4, <2>5, <2>6 DEF Next
<1> QED
  BY <1>1, <1>2, Invariant, PTL
  DEF Spec, RxIsPipe, RxPipe!PipeSpec, RxUnderWay, RxOut

-----------------------------------------------------------------------------
(***************************************************************************)
(* The alarm: its time is due ticks from now, and the flag says whether    *)
(* the counter wraps before that.                                          *)
(***************************************************************************)
Wrapped(x) == IF x < TickMod THEN x ELSE x - TickMod

DueInv ==
    /\ nticks \in 0 .. TickMod - 1
    /\ due \in 1 .. Period + 1
    /\ time = Wrapped(nticks + due)
    /\ rollover <=> nticks + due >= TickMod

LEMMA AlarmNumbers ==
    /\ Period \in Nat \ {0} /\ TickMod \in Nat \ {0} /\ Period + 1 < TickMod
    /\ Start \in 0 .. TickMod - 1
    /\ \A x \in Nat : x < TickMod + TickMod => x % TickMod = Wrapped(x)
<1>1. /\ Period \in Nat \ {0} /\ TickMod \in Nat \ {0} /\ Period + 1 < TickMod
      /\ Start \in 0 .. TickMod - 1
  BY AlarmAssumption
<1>2. ASSUME NEW x \in Nat, x < TickMod + TickMod
      PROVE  x % TickMod = Wrapped(x)
  BY <1>1, <1>2, Wrap DEF Wrapped
<1> QED  BY <1>1, <1>2

LEMMA ExpiresWhenDue ==
    ASSUME DueInv
    PROVE  /\ Now = Wrapped(nticks + 1) /\ Now \in 0 .. TickMod - 1
           /\ Expires <=> due = 1
           /\ due # 1 => (StillOver <=> Now + (due - 1) >= TickMod)
<1> USE AlarmNumbers
<1>1. /\ nticks \in 0 .. TickMod - 1 /\ due \in 1 .. Period + 1
      /\ time = Wrapped(nticks + due)
      /\ rollover <=> nticks + due >= TickMod
  BY DEF DueInv
<1>2. Now = Wrapped(nticks + 1)
  <2>1. nticks + 1 \in Nat /\ nticks + 1 < TickMod + TickMod
    BY <1>1
  <2> QED  BY <2>1 DEF Now
<1>3. Now \in 0 .. TickMod - 1
  BY <1>1, <1>2 DEF Wrapped
<1>4. StillOver <=> nticks + due >= TickMod /\ Now # 0
  BY <1>1 DEF StillOver
<1>5. Expires <=> due = 1
  <2>1. CASE nticks + 1 = TickMod
    <3>1. Now = 0 /\ time = due - 1
      BY <1>1, <1>2, <2>1 DEF Wrapped
    <3>2. ~StillOver
      BY <1>4, <3>1
    <3> QED  BY <1>1, <3>1, <3>2 DEF Expires
  <2>2. CASE nticks + 1 < TickMod
    <3>1. Now = nticks + 1
      BY <1>1, <1>2, <2>2 DEF Wrapped
    <3>2. CASE nticks + due >= TickMod
      <4>1. StillOver /\ due # 1
        BY <1>1, <1>4, <2>2, <3>1, <3>2
      <4> QED  BY <4>1 DEF Expires
    <3>3. CASE nticks + due < TickMod
      <4>1. ~StillOver /\ time = nticks + due
        BY <1>1, <1>4, <3>3 DEF Wrapped
      <4> QED  BY <1>1, <3>1, <4>1 DEF Expires
    <3> QED  BY <1>1, <3>2, <3>3
  <2> QED  BY <1>1, <2>1, <2>2
<1>6. ASSUME due # 1 PROVE StillOver <=> Now + (due - 1) >= TickMod
  BY <1>1, <1>2, <1>4, <1>6 DEF Wrapped
<1> QED  BY <1>2, <1>3, <1>5, <1>6

LEMMA DueStep ==
    ASSUME DueInv, alt_tick
    PROVE  DueInv'
<1> USE AlarmNumbers
<1>1. /\ nticks \in 0 .. TickMod - 1 /\ due \in 1 .. Period + 1
      /\ time = Wrapped(nticks + due)
  BY DEF DueInv
<1>2. nticks' = Now /\ Now \in 0 .. TickMod - 1 /\ Now = Wrapped(nticks + 1)
  BY ExpiresWhenDue DEF alt_tick
<1>3. CASE Expires
  <2>1. due = 1 /\ time = Now
    BY <1>1, <1>2, <1>3, ExpiresWhenDue
  <2>2. /\ time' = (time + Period) % TickMod /\ due' = Period
        /\ rollover' <=> time' < Now
    BY <1>3 DEF alt_tick, RollsOver
  <2>3. time' = Wrapped(Now + Period)
    <3>1. Now + Period \in Nat /\ Now + Period < TickMod + TickMod
      BY <1>2
    <3> HIDE DEF Now
    <3> QED  BY <2>1, <2>2, <3>1
  <2>4. rollover' <=> Now + Period >= TickMod
    <3> HIDE DEF Now
    <3> QED  BY <1>2, <2>2, <2>3 DEF Wrapped
  <2> QED  BY <1>2, <2>2, <2>3, <2>4 DEF DueInv
<1>4. CASE ~Expires
  <2>1. due # 1
    BY <1>4, ExpiresWhenDue
  <2>2. time' = time /\ due' = due - 1 /\ (rollover' <=> StillOver)
    BY <1>4 DEF alt_tick
  <2>3. rollover' <=> Now + (due - 1) >= TickMod
    BY <2>1, <2>2, ExpiresWhenDue
  <2>4. time = Wrapped(Now + (due - 1))
    BY <1>1, <1>2, <2>1 DEF Wrapped
  <2>5. due' \in 1 .. Period + 1
    BY <1>1, <2>1, <2>2
  <2> QED  BY <1>2, <2>2, <2>3, <2>4, <2>5 DEF DueInv
<1> QED  BY <1>3, <1>4

(***************************************************************************)
(* The alarm's callback comes every Period ticks, also when the counter or *)
(* the alarm's time wraps.                                                 *)
(***************************************************************************)
THEOREM OnTime == Spec => AlarmOnTime
<1>1. Init => DueInv
  <2> SUFFICES ASSUME Init PROVE DueInv
    OBVIOUS
  <2> USE AlarmNumbers
  <2>1. /\ nticks = Start /\ due = Period + 1
        /\ time = (Period + nticks + 1) % TickMod
        /\ rollover <=> time < nticks
    BY DEF Init, AlarmInit, RollsOver
  <2>2. /\ Period + nticks + 1 \in Nat
        /\ Period + nticks + 1 < TickMod + TickMod
        /\ Period + nticks + 1 = nticks + due
    BY <2>1
  <2>3. time = Wrapped(nticks + due)
    BY <2>1, <2>2
  <2>4. rollover <=> nticks + due >= TickMod
    BY <2>1, <2>3 DEF Wrapped
  <2> QED  BY <2>1, <2>3, <2>4 DEF DueInv
<1>2. DueInv /\ [Next]_vars => DueInv'
  <2> SUFFICES ASSUME DueInv, [Next]_vars PROVE DueInv'
    OBVIOUS
  <2>1. CASE Tick
    BY <2>1, DueStep DEF Tick
  <2>2. CASE HostReads \/ HostTypes \/ HostPolls \/ Irq \/ UNCHANGED vars
    <3>1. UNCHANGED alarmVars
      BY <2>2 DEF HostReads, HostTypes, HostPolls, Host, Irq, vars
    <3> QED  BY <3>1 DEF alarmVars, DueInv
  <2>3. CASE Call \/ Program
    <3>1. UNCHANGED alarmVars
      BY <2>3
      DEF Call, Program, WriteSnapshot, WriteAllCopied, WriteCopy,
          WritePublish, WriteEnable, WriteSpin, WriteCheck, ReadSnapshot,
          ReadFilled, ReadCopy, ReadPublish, ReadSpin, ReadCheck, ReadEnable,
          Close, Return, Goto
    <3> QED  BY <3>1 DEF alarmVars, DueInv
  <2> QED  BY <2>1, <2>2, <2>3 DEF Next
<1>3. DueInv => (Expires <=> due = 1)
  BY ExpiresWhenDue
<1> QED  BY <1>1, <1>2, <1>3, PTL DEF Spec, AlarmOnTime

-----------------------------------------------------------------------------
(***************************************************************************)
(* The mouse driver.  Bytes, where they come from, and the types.          *)
(***************************************************************************)
Values == {"FA", "AA", "00", "x"} \cup UNION {{v[i] : i \in 1 .. 3} : v \in Packets}
Origins  == {"none", "ackFF", "ackF4", "bat", "id", "byte1", "byte2", "byte3"}
Byte   == [val : Values, part : Origins]

MouseTypes ==
    /\ fifo \in Seq(Byte) /\ unsent \in Seq(Byte)
    /\ last \in Seq(Byte) /\ Len(last) = 3
    /\ cnt \in 0 .. 3 /\ isr \in {"idle", "wait"}

(***************************************************************************)
(* Of the bytes to come, behind the first j of the port, the i-th is the   *)
(* part of a packet PS2_ISR expects of it when it counts from c, and the   *)
(* last one ends a packet.                                                 *)
(***************************************************************************)
PartAt(c, i) == Part[((c + i - 2) % 3) + 1]

InPackets(j, c) ==
    /\ \A i \in 1 .. Len(fifo) - j : fifo[j + i].part = PartAt(c, i)
    /\ \A i \in 1 .. Len(unsent) :
           unsent[i].part = PartAt(c, Len(fifo) - j + i)
    /\ (c - 1 + Len(fifo) - j + Len(unsent)) % 3 = 0

(***************************************************************************)
(* PS2_ISR between two bytes: cnt is the byte of the packet it expects.    *)
(***************************************************************************)
Counting == /\ cnt \in 1 .. 3 /\ InPackets(0, cnt)
            /\ cnt >= 2 => last[3].part = Part[cnt - 1]
            /\ cnt = 3 => last[2].part = Part[1]

(***************************************************************************)
(* PS2_ISR in a handshake: behind the acknowledgment a packet begins.      *)
(***************************************************************************)
Acknowledged(j) == /\ fifo[j] = Ack
                   /\ \A i \in 1 .. j - 1 : fifo[i] # Ack
                   /\ InPackets(j, 1)

Handshake ==
    /\ cnt = 1
    /\ \/ unsent = <<Ack>> /\ \A i \in 1 .. Len(fifo) : fifo[i] # Ack
       \/ \E j \in 1 .. Len(fifo) : Acknowledged(j)

Tracked == ~broken => /\ boot = "on" /\ mode = "stream"
                      /\ isr = "idle" => Counting
                      /\ isr = "wait" => Handshake

(***************************************************************************)
(* What Mouse_ISR has read is what was written last, unless a packet came  *)
(* in meanwhile, or its flag is still up.                                  *)
(***************************************************************************)
Shown == \/ main \in {"b2", "b3", "clear"}
         \/ main = "loop" /\ ~flag_mouse
         => raced \/ taken = {valid}

-----------------------------------------------------------------------------
(***************************************************************************)
(* The sequences of bytes.                                                 *)
(***************************************************************************)
LEMMA Tails ==
    ASSUME NEW q \in Seq(Byte), q # <<>>
    PROVE  /\ Len(q) \in Nat /\ Len(q) >= 1
           /\ Head(q) \in Byte /\ Head(q) = q[1]
           /\ Tail(q) \in Seq(Byte) /\ Len(Tail(q)) = Len(q) - 1
           /\ \A i \in 1 .. Len(q) - 1 : Tail(q)[i] = q[i + 1]
BY HeadTailProperties, EmptySeq

LEMMA Appends ==
    ASSUME NEW q \in Seq(Byte), NEW b \in Byte
    PROVE  /\ Append(q, b) \in Seq(Byte) /\ Len(Append(q, b)) = Len(q) + 1
           /\ \A i \in 1 .. Len(q) : Append(q, b)[i] = q[i]
           /\ Append(q, b)[Len(q) + 1] = b
BY AppendProperties

LEMMA Bytes ==
    /\ Ack \in Byte /\ Ack.val = "FA" /\ Ack.part = "ackF4"
    /\ <<Ack>> \in Seq(Byte) /\ Test \in Seq(Byte)
    /\ <<Answer("FA", "ackFF")>> \o Test \in Seq(Byte)
    /\ <<None, None, None>> \in Seq(Byte) /\ Len(<<None, None, None>>) = 3
BY DEF Ack, Answer, Byte, Values, Origins, Test, None

LEMMA PacketBytes ==
    ASSUME NEW v \in Packets
    PROVE  /\ [i \in 1 .. 3 |-> Answer(v[i], Part[i])] \in Seq(Byte)
           /\ Len([i \in 1 .. 3 |-> Answer(v[i], Part[i])]) = 3
<1> DEFINE packet == [i \in 1 .. 3 |-> Answer(v[i], Part[i])]
<1>1. ASSUME NEW i \in 1 .. 3 PROVE Answer(v[i], Part[i]) \in Byte
  BY DEF Answer, Byte, Values, Origins, Part
<1>2. packet \in [1 .. 3 -> Byte]
  BY <1>1
<1> HIDE DEF packet
<1>3. packet \in Seq(Byte)
  BY <1>2, SeqDef
<1>4. Len(packet) = 3
  <2>1. DOMAIN packet = 1 .. 3 /\ DOMAIN packet = 1 .. Len(packet)
    BY <1>2, <1>3, LenProperties
  <2>2. Len(packet) \in Nat
    BY <1>3, LenProperties
  <2> QED  BY <2>1, <2>2
<1> QED  BY <1>3, <1>4 DEF packet

LEMMA CommandTypes ==
    ASSUME MouseTypes, NEW c \in {"FF", "F4"}, Command(c)
    PROVE  unsent' \in Seq(Byte)
BY Bytes DEF Command, MouseTypes, mouseVars

(***************************************************************************)
(* The last three bytes PS2_ISR has read, with the one it reads.           *)
(***************************************************************************)
LEMMA LastThree ==
    ASSUME NEW q \in Seq(Byte), Len(q) = 3, NEW b \in Byte
    PROVE  /\ Append(Tail(q), b) \in Seq(Byte)
           /\ Len(Append(Tail(q), b)) = 3
           /\ Append(Tail(q), b)[1] = q[2]
           /\ Append(Tail(q), b)[2] = q[3]
           /\ Append(Tail(q), b)[3] = b
<1>1. q # <<>>
  <2>1. Len(<<>>) = 0
    OBVIOUS
  <2> QED  BY <2>1
<1>2. /\ Tail(q) \in Seq(Byte) /\ Len(Tail(q)) = 3 - 1
      /\ \A i \in 1 .. 3 - 1 : Tail(q)[i] = q[i + 1]
  BY <1>1, Tails, Zenon
<1>3. Tail(q)[1] = q[2] /\ Tail(q)[2] = q[3] /\ Len(Tail(q)) = 2
  BY <1>2
<1> DEFINE t == Tail(q)
           r == Append(t, b)
<1>4. r \in Seq(Byte) /\ Len(r) = Len(t) + 1 /\ r[Len(t) + 1] = b
  BY <1>2, Appends, Zenon
<1>5. \A i \in 1 .. Len(t) : r[i] = t[i]
  BY <1>2, Appends, Zenon
<1>6. Len(t) = 2 /\ t[1] = q[2] /\ t[2] = q[3]
  BY <1>3
<1>7. /\ r \in Seq(Byte) /\ Len(r) = 3
      /\ r[1] = q[2] /\ r[2] = q[3] /\ r[3] = b
  <2> HIDE DEF t, r
  <2> QED  BY <1>4, <1>5, <1>6
<1> QED  BY <1>7

-----------------------------------------------------------------------------
(***************************************************************************)
(* A byte that is read while packets are expected is the one expected.     *)
(***************************************************************************)
LEMMA PartStep ==
    /\ \A c \in 1 .. 3 : PartAt(c, 1) = Part[c]
    /\ \A c \in 1 .. 3, i \in Nat \ {0} :
           PartAt(IF c = 3 THEN 1 ELSE c + 1, i) = PartAt(c, i + 1)
    /\ \A c \in 1 .. 3, i \in Nat \ {0} :
           PartAt(c, i) \in {"byte1", "byte2", "byte3"}
    /\ \A c \in 1 .. 3, n \in Nat, i \in 1 .. 3 :
           (c - 1 + n) % 3 = 0 => PartAt(c, n + i) = Part[i]
BY DEF PartAt, Part

(***************************************************************************)
(* A byte that leaves the mouse stays in its place of the stream.          *)
(***************************************************************************)
LEMMA SendStream ==
    ASSUME MouseTypes, Send
    PROVE  /\ Len(fifo) \in Nat /\ Len(fifo') = Len(fifo) + 1
           /\ \A i \in 1 .. Len(fifo) : fifo'[i] = fifo[i]
           /\ fifo'[Len(fifo) + 1] = unsent[1]
           /\ Len(unsent) \in Nat \ {0} /\ Len(unsent') = Len(unsent) - 1
           /\ \A i \in 1 .. Len(unsent) - 1 : unsent'[i] = unsent[i + 1]
           /\ fifo' \in Seq(Byte) /\ unsent' \in Seq(Byte)
<1>1. /\ unsent \in Seq(Byte) /\ unsent # <<>> /\ fifo \in Seq(Byte)
      /\ unsent' = Tail(unsent) /\ fifo' = Append(fifo, Head(unsent))
  BY DEF MouseTypes, Send, Leave
<1>2. /\ Len(unsent) \in Nat /\ Len(unsent) >= 1
      /\ Head(unsent) \in Byte /\ Head(unsent) = unsent[1]
      /\ unsent' \in Seq(Byte) /\ Len(unsent') = Len(unsent) - 1
      /\ \A i \in 1 .. Len(unsent) - 1 : unsent'[i] = unsent[i + 1]
  BY <1>1, Tails, Zenon
<1>3. /\ fifo' \in Seq(Byte) /\ Len(fifo') = Len(fifo) + 1
      /\ \A i \in 1 .. Len(fifo) : fifo'[i] = fifo[i]
      /\ fifo'[Len(fifo) + 1] = Head(unsent)
  BY <1>1, <1>2, Appends, Zenon
<1>4. Len(fifo) \in Nat
  BY <1>1, LenProperties
<1> QED  BY <1>2, <1>3, <1>4

LEMMA SendKeeps ==
    ASSUME MouseTypes, Send, NEW c \in 1 .. 3, NEW j \in 0 .. Len(fifo),
           InPackets(j, c)
    PROVE  InPackets(j, c)'
<1> DEFINE m == Len(fifo)
           n == Len(unsent)
<1>1. /\ m \in Nat /\ Len(fifo') = m + 1
      /\ \A i \in 1 .. m : fifo'[i] = fifo[i]
      /\ fifo'[m + 1] = unsent[1]
      /\ n \in Nat \ {0} /\ Len(unsent') = n - 1
      /\ \A i \in 1 .. n - 1 : unsent'[i] = unsent[i + 1]
  BY SendStream
<1>2. /\ \A i \in 1 .. m - j : fifo[j + i].part = PartAt(c, i)
      /\ \A i \in 1 .. n : unsent[i].part = PartAt(c, m - j + i)
      /\ (c - 1 + m - j + n) % 3 = 0
  BY DEF InPackets
<1>0. j \in 0 .. m /\ m \in Nat
  BY <1>1
<1> HIDE DEF m, n
<1>3. ASSUME NEW i \in 1 .. (m + 1) - j
      PROVE  fifo'[j + i].part = PartAt(c, i)
  <2>1. CASE i = m - j + 1
    <3>1. j + i = m + 1 /\ 1 \in 1 .. n
      BY <1>1, <2>1
    <3> QED  BY <1>1, <1>2, <2>1, <3>1
  <2>2. CASE i # m - j + 1
    <3>1. i \in 1 .. m - j /\ j + i \in 1 .. m
      BY <1>0, <2>2
    <3> QED  BY <1>1, <1>2, <3>1
  <2> QED  BY <2>1, <2>2
<1>4. ASSUME NEW i \in 1 .. n - 1
      PROVE  unsent'[i].part = PartAt(c, (m + 1) - j + i)
  <2>1. i + 1 \in 1 .. n /\ m - j + (i + 1) = (m + 1) - j + i
    BY <1>1
  <2> QED  BY <1>1, <1>2, <2>1
<1>5. (c - 1 + (m + 1) - j + (n - 1)) % 3 = 0
  <2>1. c - 1 + (m + 1) - j + (n - 1) = c - 1 + m - j + n
    BY <1>1
  <2> QED  BY <1>2, <2>1
<1> QED  BY <1>1, <1>3, <1>4, <1>5 DEF InPackets

(***************************************************************************)
(* The mouse sends a whole packet after the last one.                      *)
(***************************************************************************)
LEMMA MoveKeeps ==
    ASSUME MouseTypes, Move, NEW c \in 1 .. 3, NEW j \in 0 .. Len(fifo),
           InPackets(j, c)
    PROVE  InPackets(j, c)'
<1> DEFINE n == Len(fifo) - j
<1>1. PICK v \in Packets :
          unsent' = [i \in 1 .. 3 |-> Answer(v[i], Part[i])]
  BY DEF Move
<1>2. /\ Len(unsent') = 3
      /\ \A i \in 1 .. 3 : unsent'[i].part = Part[i]
  BY <1>1, PacketBytes DEF Answer
<1>3. Len(unsent) = 0 /\ Len(fifo) \in Nat /\ fifo' = fifo
  BY LenProperties DEF Move, MouseTypes
<1>4. n \in Nat /\ (c - 1 + n) % 3 = 0
  BY <1>3 DEF InPackets
<1>5. \A i \in 1 .. 3 : unsent'[i].part = PartAt(c, n + i)
  BY <1>2, <1>4, PartStep
<1>6. (c - 1 + n + 3) % 3 = 0
  BY <1>4
<1>7. \A i \in 1 .. Len(fifo) - j : fifo'[j + i].part = PartAt(c, i)
  BY <1>3 DEF InPackets
<1>8. c - 1 + Len(fifo) - j + 3 = c - 1 + n + 3
  BY <1>3
<1>9. (c - 1 + Len(fifo) - j + 3) % 3 = 0
  BY <1>6, <1>8
<1> QED  BY <1>2, <1>3, <1>5, <1>7, <1>9 DEF InPackets

(***************************************************************************)
(* PS2_ISR reads a byte.                                                   *)
(***************************************************************************)
ReadsByte == /\ fifo # <<>> /\ fifo' = Tail(fifo)

LEMMA ReadsStream ==
    ASSUME MouseTypes, ReadsByte
    PROVE  /\ Len(fifo) \in Nat /\ Len(fifo) >= 1
           /\ Head(fifo) = fifo[1] /\ Head(fifo) \in Byte
           /\ fifo' \in Seq(Byte) /\ Len(fifo') = Len(fifo) - 1
           /\ \A i \in 1 .. Len(fifo) - 1 : fifo'[i] = fifo[i + 1]
<1>1. fifo \in Seq(Byte) /\ fifo # <<>> /\ fifo' = Tail(fifo)
  BY DEF MouseTypes, ReadsByte
<1> QED  BY <1>1, Tails, Zenon

LEMMA ReadsAhead ==
    ASSUME MouseTypes, ReadsByte, unsent' = unsent,
           NEW c \in 1 .. 3, NEW j \in 1 .. Len(fifo), InPackets(j, c)
    PROVE  InPackets(j - 1, c)'
<1> DEFINE m == Len(fifo)
           n == Len(unsent)
<1>1. /\ m \in Nat /\ Len(fifo') = m - 1 /\ n \in Nat
      /\ \A i \in 1 .. m - 1 : fifo'[i] = fifo[i + 1]
  BY ReadsStream, LenProperties DEF MouseTypes
<1>2. /\ \A i \in 1 .. m - j : fifo[j + i].part = PartAt(c, i)
      /\ \A i \in 1 .. n : unsent[i].part = PartAt(c, m - j + i)
      /\ (c - 1 + m - j + n) % 3 = 0
  BY DEF InPackets
<1> HIDE DEF m, n
<1>3. (m - 1) - (j - 1) = m - j
  BY <1>1
<1>4. ASSUME NEW i \in 1 .. m - j
      PROVE  fifo'[(j - 1) + i].part = PartAt(c, i)
  <2>1. (j - 1) + i \in 1 .. m - 1 /\ ((j - 1) + i) + 1 = j + i
    BY <1>1
  <2> QED  BY <1>1, <1>2, <2>1
<1>5. (c - 1 + (m - 1) - (j - 1) + n) % 3 = 0
  <2>1. c - 1 + (m - 1) - (j - 1) + n = c - 1 + m - j + n
    BY <1>1
  <2> QED  BY <1>2, <2>1
<1>6. Len(unsent') = n /\ unsent' = unsent
  BY DEF n
<1> QED  BY <1>1, <1>2, <1>3, <1>4, <1>5, <1>6 DEF InPackets

LEMMA ReadsPart ==
    ASSUME MouseTypes, ReadsByte, unsent' = unsent,
           NEW c \in 1 .. 3, InPackets(0, c)
    PROVE  /\ fifo[1].part = Part[c]
           /\ InPackets(0, IF c = 3 THEN 1 ELSE c + 1)'
<1> DEFINE m == Len(fifo)
           n == Len(unsent)
           d == IF c = 3 THEN 1 ELSE c + 1
<1>1. /\ m \in Nat /\ m >= 1 /\ Len(fifo') = m - 1 /\ n \in Nat
      /\ \A i \in 1 .. m - 1 : fifo'[i] = fifo[i + 1]
  BY ReadsStream, LenProperties DEF MouseTypes
<1>2. /\ \A i \in 1 .. m - 0 : fifo[0 + i].part = PartAt(c, i)
      /\ \A i \in 1 .. n : unsent[i].part = PartAt(c, m - 0 + i)
      /\ (c - 1 + m - 0 + n) % 3 = 0
  BY DEF InPackets
<1>3. Len(unsent') = n /\ unsent' = unsent
  OBVIOUS
<1>4. \A i \in Nat \ {0} : PartAt(d, i) = PartAt(c, i + 1)
  BY PartStep
<1>5. PartAt(c, 1) = Part[c]
  BY PartStep
<1>6. d \in 1 .. 3 /\ (d = c + 1 \/ d + 3 = c + 1)
  OBVIOUS
<1> HIDE DEF m, n, d
<1>7. fifo[1].part = Part[c]
  BY <1>1, <1>2, <1>5
<1>8. ASSUME NEW i \in 1 .. (m - 1) - 0
      PROVE  fifo'[0 + i].part = PartAt(d, i)
  <2>1. i \in 1 .. m - 1 /\ 0 + i = i /\ i + 1 \in 1 .. m - 0
        /\ 0 + (i + 1) = i + 1 /\ i \in Nat \ {0}
    BY <1>1
  <2>2. fifo'[i] = fifo[i + 1]
    BY <1>1, <2>1
  <2>3. fifo[i + 1].part = PartAt(c, i + 1)
    BY <1>2, <2>1
  <2> QED  BY <1>4, <2>1, <2>2, <2>3
<1>9. ASSUME NEW i \in 1 .. n
      PROVE  unsent[i].part = PartAt(d, (m - 1) - 0 + i)
  <2>1. /\ (m - 1) - 0 + i \in Nat \ {0}
        /\ ((m - 1) - 0 + i) + 1 = m - 0 + i
    BY <1>1
  <2>2. PartAt(d, (m - 1) - 0 + i) = PartAt(c, m - 0 + i)
    BY <1>4, <2>1
  <2> QED  BY <1>2, <2>2
<1>10. (d - 1 + (m - 1) - 0 + n) % 3 = 0
  <2>1. \/ d - 1 + (m - 1) - 0 + n = c - 1 + m - 0 + n
        \/ d - 1 + (m - 1) - 0 + n = c - 1 + m - 0 + n - 3
    BY <1>1, <1>6
  <2>2. c - 1 + m - 0 + n \in Nat
    BY <1>1
  <2>3. d - 1 + (m - 1) - 0 + n \in Nat
    BY <1>1, <1>6
  <2>4. (c - 1 + m - 0 + n) % 3 = 0
    BY <1>2
  <2> DEFINE x == c - 1 + m - 0 + n
             y == d - 1 + (m - 1) - 0 + n
  <2>5. x % 3 = 0
    BY <2>4, Zenon
  <2>6. x \in Nat /\ y \in Nat
    BY <2>2, <2>3, Zenon
  <2>7. y = x \/ y = x - 3
    BY <1>1, <1>6
  <2> HIDE DEF x, y
  <2>8. y % 3 = 0
    BY <2>5, <2>6, <2>7
  <2> QED  BY <2>8 DEF y
<1> QED  BY <1>1, <1>3, <1>7, <1>8, <1>9, <1>10 DEF InPackets, d


LEMMA NextParts ==
    ASSUME MouseTypes, NEW c \in 1 .. 3, NEW j \in 0 .. Len(fifo),
           InPackets(j, c)
    PROVE  /\ \A i \in 1 .. Len(fifo) - j :
                  fifo[j + i].part \in {"byte1", "byte2", "byte3"}
           /\ unsent # <<>> => unsent[1].part \in {"byte1", "byte2", "byte3"}
           /\ j = 0 /\ fifo # <<>> => fifo[1].part = Part[c]
<1> DEFINE m == Len(fifo)
           n == Len(unsent)
<1>1. m \in Nat /\ n \in Nat /\ j \in 0 .. m
  BY LenProperties DEF MouseTypes
<1>2. (unsent # <<>> => 1 \in 1 .. n) /\ (fifo # <<>> => 1 \in 1 .. m)
  BY Tails DEF MouseTypes
<1>3. /\ \A i \in 1 .. m - j : fifo[j + i].part = PartAt(c, i)
      /\ \A i \in 1 .. n : unsent[i].part = PartAt(c, m - j + i)
  BY DEF InPackets
<1> HIDE DEF m, n
<1>4. ASSUME NEW i \in 1 .. m - j
      PROVE  fifo[j + i].part \in {"byte1", "byte2", "byte3"}
  <2>1. i \in Nat \ {0}
    BY <1>1
  <2>2. PartAt(c, i) \in {"byte1", "byte2", "byte3"}
    BY <2>1, PartStep, Zenon
  <2> QED  BY <1>3, <2>2, Zenon
<1>5. ASSUME unsent # <<>>
      PROVE  unsent[1].part \in {"byte1", "byte2", "byte3"}
  <2>1. 1 \in 1 .. n /\ m - j + 1 \in Nat \ {0}
    BY <1>1, <1>2, <1>5
  <2> QED  BY <1>3, <2>1, PartStep
<1>6. ASSUME j = 0, fifo # <<>>
      PROVE  fifo[1].part = Part[c]
  <2>1. 1 \in 1 .. m - j /\ j + 1 = 1
    BY <1>1, <1>2, <1>6
  <2> QED  BY <1>3, <2>1, PartStep
<1> QED  BY <1>4, <1>5, <1>6 DEF m

-----------------------------------------------------------------------------
(***************************************************************************)
(* Every action keeps the types.                                           *)
(***************************************************************************)
LEMMA MouseTypesInit == MouseInit => MouseTypes
<1> SUFFICES ASSUME MouseInit PROVE MouseTypes
  OBVIOUS
<1>1. <<>> \in Seq(Byte)
  OBVIOUS
<1> QED  BY <1>1, Bytes DEF MouseInit, MouseTypes

LEMMA MouseTypesStep == MouseTypes /\ [MouseNext]_ps2Vars => MouseTypes'
<1> SUFFICES ASSUME MouseTypes, [MouseNext]_ps2Vars PROVE MouseTypes'
  OBVIOUS
<1> USE DEF MouseTypes
<1>1. <<>> \in Seq(Byte)
  OBVIOUS
<1>2. CASE Plug
  BY <1>2, Bytes DEF Plug, ps2IsrVars
<1>3. CASE Unplug
  BY <1>1, <1>3 DEF Unplug, ps2IsrVars
<1>4. CASE Move
  BY <1>4, PacketBytes DEF Move, ps2IsrVars
<1>5. CASE Send
  <2>1. fifo' \in Seq(Byte) /\ unsent' \in Seq(Byte)
    BY <1>5, SendStream, Zenon
  <2> QED  BY <1>5, <2>1 DEF Send, ps2IsrVars
<1>6. CASE Lose
  <2>1. unsent' \in Seq(Byte)
    BY <1>6, Tails DEF Lose, Leave
  <2> QED  BY <1>6, <2>1 DEF Lose, ps2IsrVars
<1>7. CASE Boot
  <2>1. CASE InitReset
    <3>1. unsent' \in Seq(Byte)
      BY <2>1, CommandTypes DEF InitReset, WriteByte
    <3> QED  BY <2>1, <3>1 DEF InitReset, Booting, WriteByte, ps2IsrVars
  <2>2. CASE InitByte
    <3>1. fifo' \in Seq(Byte)
      BY <2>2, Tails DEF InitByte
    <3>2. Command("F4") \/ UNCHANGED mouseVars
      BY <2>2 DEF InitByte
    <3>3. unsent' \in Seq(Byte)
      BY <3>2, CommandTypes DEF mouseVars
    <3> QED  BY <2>2, <3>1, <3>3 DEF InitByte, Booting, ps2IsrVars
  <2>3. CASE InitTimeout
    BY <2>3 DEF InitTimeout, Booting, ps2IsrVars, mouseVars
  <2>4. CASE MainReset
    <3>1. unsent' \in Seq(Byte)
      BY <2>4, CommandTypes DEF MainReset, WriteByte
    <3> QED  BY <2>4, <3>1 DEF MainReset, Booting, WriteByte, ps2IsrVars
  <2> QED  BY <1>7, <2>1, <2>2, <2>3, <2>4 DEF Boot
<1>8. CASE PS2_ISR
  <2>1. /\ fifo' \in Seq(Byte) /\ Head(fifo) \in Byte
        /\ last' = Append(Tail(last), Head(fifo))
    BY <1>8, Tails DEF PS2_ISR
  <2>2. last' \in Seq(Byte) /\ Len(last') = 3
    BY <2>1, LastThree
  <2>3. Command("F4") \/ UNCHANGED mouseVars
    BY <1>8 DEF PS2_ISR
  <2>4. unsent' \in Seq(Byte)
    BY <2>3, CommandTypes DEF mouseVars
  <2>5. cnt' \in 0 .. 3
    BY <1>8 DEF PS2_ISR, CntAtInsertion, PacketEnds
  <2>6. isr' \in {"idle", "wait"}
    BY <1>8 DEF PS2_ISR
  <2> QED  BY <2>1, <2>2, <2>4, <2>5, <2>6
<1>9. CASE WaitAck
  <2>1. fifo' \in Seq(Byte)
    BY <1>9, Tails DEF WaitAck
  <2> QED  BY <1>9, <2>1 DEF WaitAck, mouseVars
<1>10. CASE WaitTimeout
  BY <1>10 DEF WaitTimeout, mouseVars
<1>11. CASE MouseMain
  BY <1>11 DEF MouseMain, CheckFlag, Read1, Read2, Read3, Read, ClearFlag,
               MainGoto, mouseVars
<1>12. CASE UNCHANGED ps2Vars
  BY <1>12 DEF ps2Vars, mouseVars, ps2IsrVars
<1> QED  BY <1>2, <1>3, <1>4, <1>5, <1>6, <1>7, <1>8, <1>9, <1>10, <1>11, <1>12
         DEF MouseNext, Driver

(***************************************************************************)
(* PS2_ISR hands a packet over: main reads it, or its flag is still up, or *)
(* main is at work on the one before.                                      *)
(***************************************************************************)
LEMMA ShownStep == Shown /\ [MouseNext]_ps2Vars => Shown'
<1> SUFFICES ASSUME Shown, [MouseNext]_ps2Vars PROVE Shown'
  OBVIOUS
<1> USE DEF Shown
<1>1. CASE Plug \/ Unplug \/ Move \/ Send \/ Lose
  BY <1>1 DEF Plug, Unplug, Move, Send, Lose, ps2IsrVars, ps2MainVars
<1>2. CASE Boot
  BY <1>2 DEF Boot, InitReset, InitByte, InitTimeout, MainReset, Booting,
              ps2IsrVars, ps2MainVars
<1>3. CASE PS2_ISR
  <2> DEFINE n == IF cnt >= 1 THEN cnt + 1 ELSE cnt
  <2>1. /\ valid' = IF n = 4 THEN 1 - valid ELSE valid
        /\ flag_mouse' = (flag_mouse \/ n = 4)
        /\ raced' = (raced \/ (n = 4 /\ main # "loop"))
        /\ main' = main /\ taken' = taken
    BY <1>3 DEF PS2_ISR, ps2MainVars, FlagsMouse
  <2> HIDE DEF n
  <2>2. CASE n = 4
    BY <2>1, <2>2
  <2>3. CASE n # 4
    BY <2>1, <2>3
  <2> QED  BY <2>2, <2>3
<1>4. CASE WaitAck \/ WaitTimeout
  BY <1>4 DEF WaitAck, WaitTimeout, ps2MainVars
<1>5. CASE CheckFlag
  BY <1>5 DEF CheckFlag, MainGoto
<1>6. CASE Read1 \/ Read2 \/ Read3
  BY <1>6 DEF Read1, Read2, Read3, Read, MainGoto
<1>7. CASE ClearFlag
  BY <1>7 DEF ClearFlag, MainGoto
<1>8. CASE UNCHANGED ps2Vars
  BY <1>8 DEF ps2Vars, ps2IsrVars, ps2MainVars
<1> QED  BY <1>1, <1>2, <1>3, <1>4, <1>5, <1>6, <1>7, <1>8
         DEF MouseNext, Driver, MouseMain

(***************************************************************************)
(* main.c:393-396 shows the packet PS2_ISR has written last, unless one    *)
(* came in while main was at work.                                         *)
(***************************************************************************)
THEOREM LastPacketShown == MouseSpec => []ShownUnlessRaced
<1>1. MouseInit => Shown
  BY DEF MouseInit, Shown
<1>2. Shown => ShownUnlessRaced
  BY DEF Shown, ShownUnlessRaced
<1> QED  BY <1>1, <1>2, ShownStep, PTL DEF MouseSpec

(***************************************************************************)
(* While no fault is known, the bytes to come are counted, or stand behind *)
(* an acknowledgment.  The steps of the mouse.                             *)
(***************************************************************************)
LEMMA TrackedMove ==
    ASSUME MouseTypes, Tracked, Move
    PROVE  Tracked'
<1> SUFFICES ASSUME ~broken'
             PROVE  /\ boot' = "on" /\ mode' = "stream"
                    /\ isr' = "idle" => Counting'
                    /\ isr' = "wait" => Handshake'
  BY DEF Tracked
<1>1. /\ boot = "on" /\ mode = "stream" /\ unsent = <<>>
      /\ boot' = boot /\ mode' = mode /\ isr' = isr /\ cnt' = cnt
      /\ last' = last /\ fifo' = fifo
      /\ (isr = "idle" => Counting) /\ (isr = "wait" => Handshake)
  BY DEF Tracked, Move, ps2IsrVars
<1>2. Len(fifo) \in Nat
  BY LenProperties DEF MouseTypes
<1>3. ASSUME isr = "idle" PROVE Counting'
  <2>1. PICK c \in 1 .. 3 : c = cnt
    BY <1>1, <1>3 DEF Counting
  <2>2. InPackets(0, c)
    BY <1>1, <1>3, <2>1 DEF Counting
  <2>3. InPackets(0, c)'
    BY <1>2, <2>2, MoveKeeps
  <2> QED  BY <1>1, <1>3, <2>1, <2>3 DEF Counting, InPackets
<1>4. ASSUME isr = "wait" PROVE Handshake'
  <2>1. unsent # <<Ack>>
    BY <1>1
  <2>2. PICK j \in 1 .. Len(fifo) : Acknowledged(j)
    BY <1>1, <1>4, <2>1 DEF Handshake
  <2>3. InPackets(j, 1)'
    BY <1>2, <2>2, MoveKeeps DEF Acknowledged
  <2>4. Acknowledged(j)'
    BY <1>1, <2>2, <2>3 DEF Acknowledged
  <2> QED  BY <1>1, <1>4, <2>4 DEF Handshake
<1> QED  BY <1>1, <1>3, <1>4

LEMMA TrackedSend ==
    ASSUME MouseTypes, Tracked, Send
    PROVE  Tracked'
<1> SUFFICES ASSUME ~broken'
             PROVE  /\ boot' = "on" /\ mode' = "stream"
                    /\ isr' = "idle" => Counting'
                    /\ isr' = "wait" => Handshake'
  BY DEF Tracked
<1>1. /\ boot = "on" /\ mode = "stream"
      /\ boot' = boot /\ isr' = isr /\ cnt' = cnt /\ last' = last
      /\ (isr = "idle" => Counting) /\ (isr = "wait" => Handshake)
  BY DEF Tracked, Send, ps2IsrVars
<1>2. /\ Len(fifo) \in Nat /\ Len(fifo') = Len(fifo) + 1
      /\ \A i \in 1 .. Len(fifo) : fifo'[i] = fifo[i]
      /\ fifo'[Len(fifo) + 1] = unsent[1]
      /\ Len(unsent) \in Nat \ {0} /\ Len(unsent') = Len(unsent) - 1
  BY SendStream
<1>3. /\ unsent # <<>> /\ Head(unsent) = unsent[1]
      /\ unsent[1].part # "id" => mode' = mode
  BY Tails DEF MouseTypes, Send, Leave
<1>4. ASSUME isr = "idle" PROVE mode' = mode /\ Counting'
  <2>1. PICK c \in 1 .. 3 : c = cnt
    BY <1>1, <1>4 DEF Counting
  <2>2. InPackets(0, c)
    BY <1>1, <1>4, <2>1 DEF Counting
  <2>3. InPackets(0, c)'
    BY <1>2, <2>2, SendKeeps
  <2>4. unsent[1].part \in {"byte1", "byte2", "byte3"}
    BY <1>2, <1>3, <2>2, NextParts
  <2>5. Counting'
    BY <1>1, <1>4, <2>1, <2>3 DEF Counting, InPackets
  <2> QED  BY <1>3, <2>4, <2>5
<1>5. ASSUME isr = "wait" PROVE mode' = mode /\ Handshake'
  <2>1. CASE unsent = <<Ack>> /\ \A i \in 1 .. Len(fifo) : fifo[i] # Ack
    <3>1. unsent[1] = Ack /\ Len(unsent) = 1
      BY <2>1
    <3>2. PICK k \in Nat : k = Len(fifo) + 1
      BY <1>2
    <3>3. /\ Len(fifo') = k /\ k \in 1 .. k /\ Len(unsent') = 0
          /\ fifo'[k] = Ack /\ \A i \in 1 .. k - 1 : fifo'[i] # Ack
      BY <1>2, <2>1, <3>1, <3>2
    <3>4. /\ \A i \in 1 .. k - k : fifo'[k + i].part = PartAt(1, i)
          /\ \A i \in 1 .. 0 : unsent'[i].part = PartAt(1, k - k + i)
          /\ (1 - 1 + k - k + 0) % 3 = 0
      BY <3>2
    <3>5. InPackets(k, 1)'
      BY <3>3, <3>4 DEF InPackets
    <3>6. Acknowledged(k)'
      BY <3>3, <3>5 DEF Acknowledged
    <3> QED  BY <1>1, <1>3, <1>5, <3>1, <3>3, <3>6, Bytes DEF Handshake
  <2>2. CASE \E j \in 1 .. Len(fifo) : Acknowledged(j)
    <3>1. PICK j \in 1 .. Len(fifo) : Acknowledged(j)
      BY <2>2
    <3>2. InPackets(j, 1)'
      BY <1>2, <3>1, SendKeeps DEF Acknowledged
    <3>3. Acknowledged(j)'
      BY <1>2, <3>1, <3>2 DEF Acknowledged
    <3>4. unsent[1].part \in {"byte1", "byte2", "byte3"}
      BY <1>2, <1>3, <3>1, NextParts DEF Acknowledged
    <3>5. j \in 1 .. Len(fifo')
      BY <1>2
    <3> QED  BY <1>1, <1>3, <1>5, <3>3, <3>4, <3>5 DEF Handshake
  <2> QED  BY <1>1, <1>5, <2>1, <2>2 DEF Handshake
<1>6. isr \in {"idle", "wait"}
  BY DEF MouseTypes
<1> QED  BY <1>1, <1>4, <1>5, <1>6

(***************************************************************************)
(* The steps of PS2_ISR.                                                   *)
(***************************************************************************)
LEMMA TrackedIsr ==
    ASSUME MouseTypes, Tracked, PS2_ISR
    PROVE  Tracked'
<1> DEFINE last3 == Append(Tail(last), Head(fifo))
           n     == IF cnt >= 1 THEN cnt + 1 ELSE cnt
<1>1. /\ boot = "on" /\ isr = "idle" /\ boot' = boot
      /\ fifo # <<>> /\ fifo' = Tail(fifo) /\ last' = last3
      /\ ReadsByte
  BY DEF PS2_ISR, ReadsByte
<1>2. /\ Len(fifo) \in Nat /\ Len(fifo') = Len(fifo) - 1
      /\ Head(fifo) = fifo[1] /\ Head(fifo) \in Byte
      /\ \A i \in 1 .. Len(fifo) - 1 : fifo'[i] = fifo[i + 1]
  BY <1>1, ReadsStream
<1>3. last'[2] = last[3] /\ last'[3] = fifo[1]
  BY <1>1, <1>2, LastThree DEF MouseTypes
<1> SUFFICES ASSUME ~broken' PROVE Tracked'
  BY DEF Tracked
<1>4. CASE Insertion(last3) /\ broken
  <2>1. Newest /\ Command("F4") /\ isr' = "wait" /\ cnt' = 1
    BY <1>4 DEF PS2_ISR, CntAtInsertion
  <2>2. mode' = "stream" /\ unsent' = <<Ack>> /\ fifo' = <<>>
    BY <1>1, <2>1 DEF Newest, Command
  <2>3. Handshake'
    BY <2>1, <2>2 DEF Handshake
  <2> QED  BY <1>1, <2>1, <2>2, <2>3 DEF Tracked
<1>5. CASE Insertion(last3) /\ ~broken
  <2>1. mode = "stream" /\ Counting
    BY <1>1, <1>5 DEF Tracked
  <2>2. Command("F4") /\ isr' = "wait" /\ cnt' = 1
    BY <1>5 DEF PS2_ISR, CntAtInsertion
  <2>3. mode' = "stream" /\ unsent' = <<Ack>>
    BY <2>1, <2>2 DEF Command
  <2>4. PICK c \in 1 .. 3 : c = cnt
    BY <2>1 DEF Counting
  <2>5. InPackets(0, c)
    BY <2>1, <2>4 DEF Counting
  <2>6. \A i \in 1 .. Len(fifo) :
            fifo[i].part \in {"byte1", "byte2", "byte3"}
    <3>1. /\ 0 \in 0 .. Len(fifo) /\ Len(fifo) - 0 = Len(fifo)
          /\ \A i \in 1 .. Len(fifo) : 0 + i = i
      BY <1>2
    <3>2. \A i \in 1 .. Len(fifo) - 0 :
              fifo[0 + i].part \in {"byte1", "byte2", "byte3"}
      BY <2>5, <3>1, NextParts
    <3> QED  BY <3>1, <3>2
  <2>7. \A i \in 1 .. Len(fifo') : fifo'[i] # Ack
    BY <1>2, <2>6, Bytes
  <2> QED  BY <1>1, <2>2, <2>3, <2>7 DEF Tracked, Handshake
<1>6. CASE ~Insertion(last3)
  <2>1. /\ ~broken /\ isr' = "idle" /\ mode' = mode /\ unsent' = unsent
        /\ cnt' = PacketEnds(n)
    BY <1>1, <1>6 DEF PS2_ISR, mouseVars
  <2>2. mode = "stream" /\ Counting
    BY <1>1, <2>1 DEF Tracked
  <2>3. PICK c \in 1 .. 3 : c = cnt
    BY <2>2 DEF Counting
  <2> DEFINE d == IF c = 3 THEN 1 ELSE c + 1
  <2>4. cnt' = d
    BY <2>1, <2>3 DEF PacketEnds
  <2>5. InPackets(0, c)
    BY <2>2, <2>3 DEF Counting
  <2>6. fifo[1].part = Part[c] /\ InPackets(0, d)'
    BY <1>1, <2>1, <2>5, ReadsPart
  <2>7. InPackets(0, cnt)'
    BY <2>4, <2>6 DEF InPackets
  <2>8. /\ cnt' \in 1 .. 3
        /\ cnt' >= 2 => last'[3].part = Part[cnt' - 1]
    BY <1>3, <2>4, <2>6
  <2>9. cnt' = 3 => last'[2].part = Part[1]
    BY <1>3, <2>2, <2>3, <2>4 DEF Counting
  <2>10. Counting'
    BY <2>7, <2>8, <2>9 DEF Counting
  <2> QED  BY <1>1, <2>1, <2>2, <2>10 DEF Tracked
<1> QED  BY <1>4, <1>5, <1>6

LEMMA TrackedAck ==
    ASSUME MouseTypes, Tracked, WaitAck
    PROVE  Tracked'
<1> SUFFICES ASSUME ~broken' PROVE Tracked'
  BY DEF Tracked
<1>1. /\ ReadsByte /\ isr = "wait" /\ unsent' = unsent /\ mode' = mode
      /\ boot' = boot /\ cnt' = cnt
      /\ isr' = IF IsAck(Head(fifo)) THEN "idle" ELSE "wait"
      /\ ~broken /\ (IsAck(Head(fifo)) => Head(fifo) = Ack)
  BY DEF WaitAck, ReadsByte, mouseVars
<1>2. boot = "on" /\ mode = "stream" /\ Handshake
  BY <1>1 DEF Tracked
<1>3. /\ Len(fifo) \in Nat /\ Len(fifo) >= 1 /\ Len(fifo') = Len(fifo) - 1
      /\ Head(fifo) = fifo[1]
      /\ \A i \in 1 .. Len(fifo) - 1 : fifo'[i] = fifo[i + 1]
  BY <1>1, ReadsStream
<1>4. IsAck(Ack)
  BY Bytes DEF IsAck
<1>5. CASE unsent = <<Ack>> /\ \A i \in 1 .. Len(fifo) : fifo[i] # Ack
  <2>1. ~IsAck(Head(fifo))
    BY <1>1, <1>3, <1>5
  <2>2. \A i \in 1 .. Len(fifo') : fifo'[i] # Ack
    BY <1>3, <1>5
  <2> QED  BY <1>1, <1>2, <1>5, <2>1, <2>2 DEF Tracked, Handshake
<1>6. CASE \E j \in 1 .. Len(fifo) : Acknowledged(j)
  <2>1. PICK j \in 1 .. Len(fifo) : Acknowledged(j)
    BY <1>6
  <2>2. InPackets(j - 1, 1)'
    BY <1>1, <2>1, ReadsAhead DEF Acknowledged
  <2>3. CASE fifo[1] = Ack
    <3>1. j = 1
      <4>1. \A i \in 1 .. j - 1 : i # 1
        BY <2>1, <2>3 DEF Acknowledged
      <4>2. j # 1 => 1 \in 1 .. j - 1
        BY <1>3
      <4> QED  BY <4>1, <4>2
    <3>2. InPackets(0, 1)'
      BY <2>2, <3>1
    <3>3. isr' = "idle" /\ cnt' = 1
      BY <1>1, <1>2, <1>3, <1>4, <2>3 DEF Handshake
    <3>4. Counting'
      BY <3>2, <3>3 DEF Counting, InPackets
    <3> QED  BY <1>1, <1>2, <3>3, <3>4 DEF Tracked
  <2>4. CASE fifo[1] # Ack
    <3>1. isr' = "wait" /\ cnt' = 1
      BY <1>1, <1>2, <1>3, <2>4 DEF Handshake
    <3>2. j - 1 \in 1 .. Len(fifo') /\ (j - 1) + 1 = j
      BY <1>3, <2>1, <2>4 DEF Acknowledged
    <3>3. fifo'[j - 1] = Ack
      BY <1>3, <2>1, <3>2 DEF Acknowledged
    <3>4. \A i \in 1 .. (j - 1) - 1 : fifo'[i] # Ack
      BY <1>3, <2>1, <3>2 DEF Acknowledged
    <3>5. Acknowledged(j - 1)'
      BY <2>2, <3>3, <3>4 DEF Acknowledged
    <3> QED  BY <1>1, <1>2, <3>1, <3>2, <3>5 DEF Tracked, Handshake
  <2> QED  BY <2>3, <2>4
<1> QED  BY <1>2, <1>5, <1>6 DEF Handshake

LEMMA TrackedStep ==
    MouseTypes /\ Tracked /\ [MouseNext]_ps2Vars => Tracked'
<1> SUFFICES ASSUME MouseTypes, Tracked, [MouseNext]_ps2Vars PROVE Tracked'
  OBVIOUS
<1>1. CASE Plug \/ Unplug \/ Lose \/ WaitTimeout
  BY <1>1 DEF Plug, Unplug, Lose, WaitTimeout, Tracked
<1>2. CASE Move
  BY <1>2, TrackedMove
<1>3. CASE Send
  BY <1>3, TrackedSend
<1>4. CASE Boot
  <2>1. boot # "on" /\ broken' = broken
    BY <1>4 DEF Boot, InitReset, InitByte, InitTimeout, MainReset, Booting
  <2> QED  BY <2>1 DEF Tracked
<1>5. CASE PS2_ISR
  BY <1>5, TrackedIsr
<1>6. CASE WaitAck
  BY <1>6, TrackedAck
<1>7. CASE MouseMain \/ UNCHANGED ps2Vars
  <2>1. /\ fifo' = fifo /\ mode' = mode /\ unsent' = unsent
        /\ boot' = boot /\ isr' = isr /\ cnt' = cnt /\ last' = last
        /\ broken' = broken
    BY <1>7 DEF MouseMain, CheckFlag, Read1, Read2, Read3, Read, ClearFlag,
                MainGoto, ps2Vars, mouseVars, ps2IsrVars
  <2> QED  BY <2>1 DEF Tracked, Counting, Handshake, Acknowledged, InPackets
<1> QED  BY <1>1, <1>2, <1>3, <1>4, <1>5, <1>6, <1>7 DEF MouseNext, Driver

(***************************************************************************)
(* A packet is handed over with its third byte.                            *)
(***************************************************************************)
LEMMA HandsOver ==
    MouseTypes /\ Tracked /\ [MouseNext]_ps2Vars
        => [valid' # valid /\ ~broken => IsPacket(last')]_ps2Vars
<1> SUFFICES ASSUME MouseTypes, Tracked, [MouseNext]_ps2Vars,
                    valid' # valid, ~broken
             PROVE  IsPacket(last')
  OBVIOUS
<1>1. PS2_ISR
  BY DEF MouseNext, Driver, Plug, Unplug, Move, Send, Lose, Boot, InitReset,
         InitByte, InitTimeout, MainReset, Booting, WaitAck, WaitTimeout,
         MouseMain, CheckFlag, Read1, Read2, Read3, Read, ClearFlag, MainGoto,
         ps2Vars, ps2IsrVars
<1>2. /\ isr = "idle" /\ cnt = 3
      /\ last' = Append(Tail(last), Head(fifo))
  BY <1>1 DEF PS2_ISR, MouseTypes
<1>3. Counting /\ ReadsByte
  BY <1>1, <1>2 DEF Tracked, PS2_ISR, ReadsByte
<1>4. Head(fifo) = fifo[1] /\ Head(fifo) \in Byte /\ Len(fifo) \in Nat
  BY <1>3, ReadsStream
<1>5. InPackets(0, 3) /\ fifo # <<>>
  BY <1>2, <1>3 DEF Counting, InPackets, ReadsByte
<1>6. fifo[1].part = Part[3]
  BY <1>4, <1>5, NextParts
<1>7. last'[1] = last[2] /\ last'[2] = last[3] /\ last'[3] = fifo[1]
  BY <1>2, <1>4, LastThree DEF MouseTypes
<1>8. last[2].part = Part[1] /\ last[3].part = Part[2]
  BY <1>2, <1>3 DEF Counting
<1> QED  BY <1>6, <1>7, <1>8 DEF IsPacket

(***************************************************************************)
(* What PS2_ISR (PS2_ISR.c:30-52) hands to main is one packet, first byte  *)
(* to third, also when an insertion is taken for one in mid-packet.        *)
(***************************************************************************)
THEOREM PacketsAligned == MouseSpec => Aligned
<1>1. MouseInit => Tracked
  BY DEF MouseInit, Tracked
<1> QED  BY <1>1, MouseTypesInit, MouseTypesStep, TrackedStep, HandsOver, PTL
         DEF MouseSpec, Aligned
=============================================================================
