--------------------------- MODULE SoftwareProofs ---------------------------
(***************************************************************************)
(* Proofs about two programs: the FreeRTOS demo of src/sw and what its two *)
(* tasks print, and the testbench of src/sim/cpp that loads a program into *)
(* the SRAM and says how it ended.                                         *)
(*                                                                         *)
(* put_dec, its reading back and FlattenSeq are recursions.  What they     *)
(* compute is proved by counting up to their argument, one step at a time. *)
(***************************************************************************)
EXTENDS Freertos, SimMain, FiniteSetTheorems, SequenceTheorems, TLAPS

(* Counting up from 0 to m inside a set: if m were not reached, the map    *)
(* that lowers what is outside the set by one would put k + 1 numbers into *)
(* k places.                                                               *)
LEMMA CountingUp ==
  ASSUME NEW m \in Nat, NEW S, 0 \in S, \A j \in 0..(m - 1) : j \in S => j + 1 \in S
  PROVE  \A j \in 0..m : j \in S
<1> SUFFICES ASSUME NEW k \in 0..m, k \notin S PROVE FALSE
  OBVIOUS
<1> DEFINE f == [x \in 0..k |-> IF x \in S THEN x ELSE x - 1]
<1>1. f \in [0..k -> 0..(k - 1)]
  OBVIOUS
<1>2. k \in Nat /\ k # 0
  OBVIOUS
<1>3. /\ IsFiniteSet(0..k) /\ Cardinality(0..k) = k + 1
      /\ IsFiniteSet(0..(k - 1)) /\ Cardinality(0..(k - 1)) = k
  BY <1>2, FS_Interval
<1>4. PICK x, y \in 0..k : x # y /\ f[x] = f[y]
  <2> HIDE DEF f
  <2>1. k < k + 1
    BY <1>2
  <2> QED BY <1>1, <1>3, <2>1, FS_PigeonHole
<1>5. \A a, b \in 0..k : a \in S /\ b \notin S => a # b - 1
  OBVIOUS
<1> QED BY <1>4, <1>5

-----------------------------------------------------------------------------
(* What the demo prints of a number.                                       *)

Words ==
  {"open", "digit", "close", "banner", "PASS", "ASSERT", "exception", "interrupt"}
Token == [by : Actor, what : Words, digit : Nat]

LEMMA Quotient ==
  ASSUME NEW b \in Nat \ {0, 1}, NEW v \in Nat
  PROVE  /\ v \div b \in Nat /\ v % b \in 0 .. b - 1
         /\ v = (v \div b) * b + (v % b)
         /\ v > 0 => v \div b < v
<1>1. v \div b \in Nat /\ v % b \in 0 .. b - 1
  OBVIOUS
<1>2. v = (v \div b) * b + (v % b)
  OBVIOUS
<1>3. \A q \in Nat, r \in Nat : v = q * b + r /\ v > 0 => q < v
  OBVIOUS
<1> QED BY <1>1, <1>2, <1>3

BufStep(f, v) == IF v = 0 THEN <<>> ELSE <<v % Base>> \o f[v \div Base]

LEMMA BufExists ==
  \E f : f = [v \in 0 .. Wrap |-> BufStep(f, v)]
<1> DEFINE Runs(m) == \E f : f = [v \in 0 .. m |-> BufStep(f, v)]
           T == { m \in 0 .. Wrap : Runs(m) }
<1>0. Wrap \in Nat /\ Base \in Nat \ {0, 1}
  BY FreertosAssumption
<1>1. 0 \in T
  <2> DEFINE f0 == [v \in 0 .. 0 |-> <<>>]
  <2>1. f0 = [v \in 0 .. 0 |-> BufStep(f0, v)]
    BY DEF BufStep
  <2> HIDE DEF f0
  <2>2. Runs(0)
    BY <2>1
  <2> HIDE DEF Runs
  <2> QED BY <1>0, <2>2
<1>2. ASSUME NEW m \in 0 .. (Wrap - 1), m \in T PROVE m + 1 \in T
  <2>1. PICK f : f = [v \in 0 .. m |-> BufStep(f, v)]
    BY <1>2
  <2> DEFINE g == [v \in 0 .. (m + 1) |-> IF v = m + 1 THEN BufStep(f, v) ELSE f[v]]
  <2>2. \A v \in 0 .. (m + 1) : g[v] = BufStep(g, v)
    <3> TAKE v \in 0 .. (m + 1)
    <3>1. v # 0 => v \div Base \in 0 .. m
      BY <1>0, Quotient
    <3>2. v # 0 => g[v \div Base] = f[v \div Base]
      BY <3>1
    <3>3. BufStep(f, v) = BufStep(g, v)
      BY <3>2, Zenon DEF BufStep
    <3>4. CASE v = m + 1
      BY <3>3, <3>4
    <3>5. CASE v # m + 1
      <4>1. v \in 0 .. m
        BY <3>5
      <4>2. f[v] = BufStep(f, v)
        BY <2>1, <4>1
      <4> QED BY <3>3, <3>5, <4>2
    <3> QED BY <3>4, <3>5
  <2>3. g = [v \in 0 .. (m + 1) |-> BufStep(g, v)]
    BY <2>2
  <2> HIDE DEF g
  <2>4. Runs(m + 1)
    BY <2>3
  <2>5. m + 1 \in 0 .. Wrap
    BY <1>0
  <2> HIDE DEF Runs
  <2> QED BY <2>4, <2>5
<1> HIDE DEF T
<1>3. \A m \in 0 .. Wrap : m \in T
  BY <1>0, <1>1, <1>2, CountingUp
<1>4. Wrap \in T
  BY <1>0, <1>3
<1> QED BY <1>4 DEF T

LEMMA BufIs ==
  ASSUME NEW v \in 0 .. Wrap
  PROVE  Buf[v] = IF v = 0 THEN <<>> ELSE <<v % Base>> \o Buf[v \div Base]
<1>1. Buf = CHOOSE f : f = [w \in 0 .. Wrap |-> BufStep(f, w)]
  BY DEF Buf, BufStep
<1>2. Buf = [w \in 0 .. Wrap |-> BufStep(Buf, w)]
  BY <1>1, BufExists, Zenon
<1>3. Buf[v] = BufStep(Buf, v)
  BY <1>2
<1> QED BY <1>3 DEF BufStep

(* The digits p write the number v.                                        *)
Writes(p, v) ==
  \E f \in [0 .. Len(p) -> Nat] :
     /\ f[0] = 0 /\ f[Len(p)] = v
     /\ \A i \in 1 .. Len(p) : f[i] = f[i - 1] * Base + p[i]

LEMMA WritesOne ==
  ASSUME NEW p \in Seq(Nat), NEW v \in Nat, Writes(p, v), NEW d \in Nat
  PROVE  Writes(Append(p, d), v * Base + d)
<1> DEFINE q == Append(p, d)
<1>0. Base \in Nat
  BY FreertosAssumption
<1>1. PICK f \in [0 .. Len(p) -> Nat] :
         /\ f[0] = 0 /\ f[Len(p)] = v
         /\ \A i \in 1 .. Len(p) : f[i] = f[i - 1] * Base + p[i]
  BY DEF Writes
<1>2. Len(p) \in Nat /\ Len(q) = Len(p) + 1 /\ q[Len(p) + 1] = d
      /\ \A i \in 1 .. Len(p) : q[i] = p[i]
  OBVIOUS
<1> HIDE DEF q
<1> DEFINE m == Len(p)
           g == [i \in 0 .. (m + 1) |-> IF i = m + 1 THEN v * Base + d ELSE f[i]]
<1>3. v * Base + d \in Nat
  BY <1>0
<1>4. g \in [0 .. (m + 1) -> Nat] /\ g[0] = 0 /\ g[m + 1] = v * Base + d
  BY <1>1, <1>2, <1>3
<1>5. ASSUME NEW i \in 1 .. (m + 1) PROVE g[i] = g[i - 1] * Base + q[i]
  <2>1. g[i - 1] = f[i - 1]
    BY <1>2
  <2>2. CASE i = m + 1
    BY <1>1, <1>2, <2>1, <2>2
  <2>3. CASE i # m + 1
    <3>1. i \in 1 .. m /\ g[i] = f[i]
      BY <1>2, <2>3
    <3>2. f[i] = f[i - 1] * Base + p[i] /\ q[i] = p[i]
      BY <1>1, <1>2, <3>1
    <3> HIDE DEF g
    <3> QED BY <2>1, <3>1, <3>2
  <2> QED BY <2>2, <2>3
<1> HIDE DEF g
<1>6. Len(q) = m + 1
  BY <1>2
<1> QED BY <1>4, <1>5, <1>6 DEF Writes, q
Digits == 0 .. Base - 1

LEMMA ReverseCons ==
  ASSUME NEW E, NEW s \in Seq(E), NEW d \in E
  PROVE  /\ <<d>> \o s \in Seq(E) /\ Reverse(s) \in Seq(E) /\ Len(Reverse(s)) = Len(s)
         /\ Reverse(<<d>> \o s) = Append(Reverse(s), d)
<1>1. Reverse(s) \in Seq(E) /\ Len(Reverse(s)) = Len(s)
      /\ \A i \in 1 .. Len(s) : Reverse(s)[i] = s[(Len(s) - i) + 1]
  BY DEF Reverse
<1> DEFINE c == <<d>> \o s
<1>2. c \in Seq(E) /\ Len(c) = Len(s) + 1 /\ c[1] = d
      /\ \A i \in 1 .. Len(s) : c[i + 1] = s[i]
  OBVIOUS
<1> HIDE DEF c
<1>3. Reverse(c) \in Seq(E) /\ Len(Reverse(c)) = Len(c)
      /\ \A i \in 1 .. Len(c) : Reverse(c)[i] = c[(Len(c) - i) + 1]
  BY <1>2 DEF Reverse
<1> DEFINE r == Reverse(s)
           q == Reverse(c)
<1>4. r \in Seq(E) /\ Len(r) = Len(s) /\ Len(q) = Len(s) + 1 /\ q \in Seq(E)
  BY <1>1, <1>2, <1>3
<1>5. ASSUME NEW i \in 1 .. Len(s) + 1 PROVE q[i] = Append(r, d)[i]
  <2>1. q[i] = c[(Len(s) + 1 - i) + 1]
    BY <1>2, <1>3
  <2>2. CASE i = Len(s) + 1
    BY <1>2, <1>4, <2>1, <2>2
  <2>3. CASE i # Len(s) + 1
    <3>1. i \in 1 .. Len(s) /\ Len(s) + 1 - i \in 1 .. Len(s)
      BY <2>3
    <3>2. c[(Len(s) + 1 - i) + 1] = s[Len(s) + 1 - i]
      BY <1>2, <3>1
    <3>3. r[i] = s[(Len(s) - i) + 1]
      BY <1>1, <3>1
    <3>4. (Len(s) - i) + 1 = Len(s) + 1 - i
      BY <3>1
    <3> HIDE DEF r, q
    <3>5. Append(r, d)[i] = r[i]
      BY <1>4, <3>1
    <3> QED BY <2>1, <3>2, <3>3, <3>4, <3>5 DEF r
  <2> QED BY <2>2, <2>3
<1> HIDE DEF r, q
<1>6. Append(r, d) \in Seq(E) /\ Len(Append(r, d)) = Len(s) + 1
  BY <1>4
<1>7. q = Append(r, d)
  BY <1>4, <1>5, <1>6
<1> QED BY <1>1, <1>2, <1>7 DEF r, q, c

(* put_dec's digits write its number, without a leading zero.              *)
Digital(v) ==
  /\ Buf[v] \in Seq(Digits) /\ Reverse(Buf[v]) \in Seq(Digits)
  /\ v > 0 => Reverse(Buf[v]) # <<>> /\ Reverse(Buf[v])[1] # 0
  /\ Writes(Reverse(Buf[v]), v)

LEMMA DigitsSeq ==
  ASSUME NEW x \in Seq(Digits), Base \in Nat PROVE x \in Seq(Nat)
<1>1. \A i \in 1 .. Len(x) : x[i] \in Nat
  BY DEF Digits
<1>2. Len(x) \in Nat /\ x = [i \in 1 .. Len(x) |-> x[i]]
  OBVIOUS
<1> QED BY <1>1, <1>2

LEMMA BufZero ==
  Buf[0] = <<>>
<1>1. \A v \in 0 .. Wrap : v = 0 => Buf[v] = <<>>
  BY BufIs
<1>2. 0 \in 0 .. Wrap
  BY FreertosAssumption
<1> QED BY <1>1, <1>2, Zenon

LEMMA BufWrites ==
  ASSUME NEW v \in 0 .. Wrap PROVE Digital(v)
<1> DEFINE T == { m \in 0 .. Wrap : \A w \in 0 .. m : Digital(w) }
<1>0. Wrap \in Nat /\ Base \in Nat \ {0, 1} /\ Digits \subseteq Nat /\ 0 \in Digits
  BY FreertosAssumption DEF Digits
<1>1. 0 \in T
  <2>1. Buf[0] = <<>>
    BY <1>0, BufZero
  <2>2. Reverse(Buf[0]) = <<>>
    BY <2>1 DEF Reverse
  <2>3. Writes(<<>>, 0)
    <3> DEFINE f == [i \in 0 .. 0 |-> 0]
    <3>1. f \in [0 .. 0 -> Nat] /\ f[0] = 0
      OBVIOUS
    <3> HIDE DEF f
    <3>2. Len(<<>>) = 0
      OBVIOUS
    <3> QED BY <3>1, <3>2 DEF Writes
  <2>4. ASSUME NEW x, x = 0 PROVE Digital(x)
    <3>1. Buf[x] = <<>> /\ Reverse(Buf[x]) = <<>> /\ ~(x > 0)
      BY <2>1, <2>2, <2>4
    <3>2. Buf[x] \in Seq(Digits) /\ Reverse(Buf[x]) \in Seq(Digits)
      <4>1. <<>> \in Seq(Digits)
        OBVIOUS
      <4> QED BY <3>1, <4>1, Zenon
    <3>3. Writes(Reverse(Buf[x]), x)
      BY <2>3, <2>4, <3>1, Zenon
    <3> QED BY <3>1, <3>2, <3>3, Zenon DEF Digital
  <2> QED BY <1>0, <2>4
<1>2. ASSUME NEW m \in 0 .. (Wrap - 1), m \in T PROVE m + 1 \in T
  <2> DEFINE w == m + 1
             d == w % Base
             h == w \div Base
  <2>1. w \in 0 .. Wrap /\ w > 0 /\ w \in Nat
    BY <1>0
  <2> HIDE DEF w
  <2>2. h \in Nat /\ d \in Digits /\ w = h * Base + d /\ h < w
    BY <1>0, <2>1, Quotient DEF Digits
  <2>3. Buf[w] = <<d>> \o Buf[h]
    <3>1. w # 0
      BY <2>1
    <3> QED BY <2>1, <3>1, BufIs, Zenon DEF d, h
  <2> HIDE DEF d, h
  <2>4. Digital(h) /\ h \in 0 .. Wrap
    <3>1. h \in 0 .. m /\ h \in 0 .. Wrap
      BY <1>0, <2>1, <2>2 DEF w
    <3> QED BY <1>2, <3>1
  <2>5. Buf[w] \in Seq(Digits) /\ Reverse(Buf[h]) \in Seq(Digits)
        /\ Reverse(Buf[w]) = Append(Reverse(Buf[h]), d)
    BY <2>2, <2>3, <2>4, ReverseCons DEF Digital
  <2> DEFINE r == Reverse(Buf[h])
  <2>6. r \in Seq(Digits) /\ r \in Seq(Nat) /\ Writes(r, h) /\ (h > 0 => r # <<>> /\ r[1] # 0)
    <3>1. \A x \in Seq(Digits) : x \in Seq(Nat)
      BY <1>0, DigitsSeq
    <3> QED BY <2>4, <3>1 DEF Digital
  <2>7. Reverse(Buf[w]) = Append(r, d)
    BY <2>5
  <2>8. h = 0 => r = <<>>
    <3>1. Buf[0] = <<>>
      BY BufZero
    <3> QED BY <3>1 DEF Reverse
  <2> HIDE DEF r
  <2>9. Append(r, d) \in Seq(Digits) /\ Append(r, d) # <<>>
    BY <2>2, <2>6
  <2>10. Append(r, d)[1] # 0
    <3>1. CASE h = 0
      <4>1. 0 * Base = 0
        BY <1>0
      <4>2. d = w
        BY <1>0, <2>2, <3>1, <4>1
      <4> QED BY <2>1, <2>8, <3>1, <4>2
    <3>2. CASE h # 0
      BY <2>2, <2>6, <3>2
    <3> QED BY <3>1, <3>2
  <2>11. Writes(Append(r, d), h * Base + d)
    BY <1>0, <2>2, <2>6, WritesOne
  <2>12. Digital(w)
    BY <2>2, <2>5, <2>7, <2>9, <2>10, <2>11 DEF Digital
  <2>13. \A x \in 0 .. w : x \in 0 .. m \/ x = w
    BY DEF w
  <2>14. \A x \in 0 .. w : Digital(x)
    BY <1>2, <2>12, <2>13
  <2> QED BY <2>1, <2>14 DEF w
<1> HIDE DEF T
<1>3. \A m \in 0 .. Wrap : m \in T
  BY <1>0, <1>1, <1>2, CountingUp
<1>4. v \in T /\ v \in 0 .. v
  BY <1>0, <1>3
<1> QED BY <1>4 DEF T

LEMMA PutDecWrites ==
  ASSUME NEW v \in 0 .. Wrap
  PROVE  /\ put_dec(v) \in Seq(Nat) /\ put_dec(v) # <<>>
         /\ put_dec(v)[1] = 0 => Len(put_dec(v)) = 1
         /\ Writes(put_dec(v), v)
<1>0. Wrap \in Nat /\ Base \in Nat \ {0, 1} /\ Digits \subseteq Nat
  BY FreertosAssumption DEF Digits
<1>1. CASE v = 0
  <2>1. put_dec(v) = <<0>>
    BY <1>1 DEF put_dec
  <2> DEFINE f == [i \in 0 .. 1 |-> 0]
  <2>2. f \in [0 .. 1 -> Nat] /\ f[0] = 0 /\ f[1] = 0
    OBVIOUS
  <2> HIDE DEF f
  <2>3. Len(<<0>>) = 1 /\ <<0>>[1] = 0
    OBVIOUS
  <2>4. f[1] = f[0] * Base + 0
    BY <1>0, <2>2
  <2>5. \A i \in 1 .. 1 : f[i] = f[i - 1] * Base + <<0>>[i]
    BY <2>2, <2>3, <2>4
  <2>6. Writes(<<0>>, 0)
    BY <2>2, <2>3, <2>5 DEF Writes
  <2> QED BY <1>1, <2>1, <2>6
<1>2. CASE v # 0
  <2>1. put_dec(v) = Reverse(Buf[v]) /\ v > 0
    BY <1>0, <1>2 DEF put_dec
  <2>2. \A x \in Seq(Digits) : x \in Seq(Nat)
    BY <1>0, DigitsSeq
  <2>3. Digital(v)
    BY BufWrites
  <2> QED BY <2>1, <2>2, <2>3 DEF Digital
<1> QED BY <1>1, <1>2

ValueStep(f, ds, i) == IF i = 0 THEN 0 ELSE f[i - 1] * Base + ds[i].digit

LEMMA ValueOfDigits ==
  ASSUME NEW p \in Seq(Nat), NEW v \in Nat, Writes(p, v),
         NEW ds \in Seq(Token), Len(ds) = Len(p), \A i \in 1 .. Len(p) : ds[i].digit = p[i]
  PROVE  Value(ds) = v
<1> DEFINE m == Len(p)
           g == CHOOSE h : h = [i \in 0 .. Len(ds) |-> ValueStep(h, ds, i)]
<1>1. PICK f \in [0 .. m -> Nat] :
         /\ f[0] = 0 /\ f[m] = v
         /\ \A i \in 1 .. m : f[i] = f[i - 1] * Base + p[i]
  BY DEF Writes
<1>2. m \in Nat /\ Len(ds) = m
  OBVIOUS
<1>3. f = [i \in 0 .. m |-> ValueStep(f, ds, i)]
  <2>1. ASSUME NEW i \in 0 .. m PROVE f[i] = ValueStep(f, ds, i)
    <3>1. CASE i = 0
      BY <1>1, <3>1 DEF ValueStep
    <3>2. CASE i # 0
      <4>1. i \in 1 .. m
        BY <1>2, <3>2
      <4> QED BY <1>1, <3>2, <4>1 DEF ValueStep
    <3> QED BY <3>1, <3>2
  <2> QED BY <2>1
<1>4. g = [i \in 0 .. m |-> ValueStep(g, ds, i)]
  BY <1>2, <1>3, Zenon
<1>5. Value(ds) = g[m]
  BY <1>2 DEF Value, ValueStep
<1> HIDE DEF g, m
<1> DEFINE T == { k \in 0 .. m : g[k] = f[k] }
<1>6. 0 \in T
  BY <1>1, <1>2, <1>4 DEF ValueStep
<1>7. ASSUME NEW k \in 0 .. (m - 1), k \in T PROVE k + 1 \in T
  <2>1. k + 1 \in 0 .. m /\ k + 1 # 0 /\ (k + 1) - 1 = k
    BY <1>2
  <2>2. g[k + 1] = ValueStep(g, ds, k + 1) /\ f[k + 1] = ValueStep(f, ds, k + 1)
    BY <1>3, <1>4, <2>1
  <2>3. g[k] = f[k]
    BY <1>7
  <2> QED BY <2>1, <2>2, <2>3 DEF ValueStep
<1> HIDE DEF T
<1>8. \A k \in 0 .. m : k \in T
  BY <1>2, <1>6, <1>7, CountingUp
<1>9. m \in T
  BY <1>2, <1>8
<1> QED BY <1>1, <1>5, <1>9 DEF T
(* The first k of a sequence, and the others.                              *)
Cut(s, k) == [i \in 1 .. k |-> s[i]]
Rest(s, k) == [i \in 1 .. Len(s) - k |-> s[k + i]]

LEMMA CutIs ==
  ASSUME NEW E, NEW s \in Seq(E), NEW k \in 0 .. Len(s)
  PROVE  /\ Cut(s, k) \in Seq(E) /\ Len(Cut(s, k)) = k
         /\ \A i \in 1 .. k : Cut(s, k)[i] = s[i]
BY DEF Cut

LEMMA RestIs ==
  ASSUME NEW E, NEW s \in Seq(E), NEW k \in 0 .. Len(s)
  PROVE  Rest(s, k) \in Seq(E) /\ Len(Rest(s, k)) = Len(s) - k
BY DEF Rest

LEMMA CutAndRestEnds ==
  ASSUME NEW E, NEW s \in Seq(E) PROVE Rest(s, 0) = s /\ Cut(s, Len(s)) = s
<1>1. Rest(s, 0) = s
  BY DEF Rest
<1>2. /\ Cut(s, Len(s)) \in Seq(E) /\ Len(Cut(s, Len(s))) = Len(s)
      /\ \A i \in 1 .. Len(s) : Cut(s, Len(s))[i] = s[i]
  BY DEF Cut
<1> QED BY <1>1, <1>2

LEMMA CutAndRestMove ==
  ASSUME NEW E, NEW s \in Seq(E), NEW k \in 0 .. Len(s), k < Len(s)
  PROVE  /\ Rest(s, k) # <<>> /\ Head(Rest(s, k)) = s[k + 1]
         /\ Tail(Rest(s, k)) = Rest(s, k + 1)
         /\ Cut(s, k + 1) = IF k = 0 THEN <<s[k + 1]>> ELSE Append(Cut(s, k), s[k + 1])
<1>1. Len(s) \in Nat /\ k \in Nat
  OBVIOUS
<1>2. Cut(s, k) \in Seq(E) /\ Len(Cut(s, k)) = k /\ \A i \in 1 .. k : Cut(s, k)[i] = s[i]
  BY DEF Cut
<1>3. /\ Rest(s, k) \in Seq(E) /\ Len(Rest(s, k)) = Len(s) - k
      /\ \A i \in 1 .. Len(s) - k : Rest(s, k)[i] = s[k + i]
  BY DEF Rest
<1>4. Rest(s, k) # <<>> /\ Head(Rest(s, k)) = s[k + 1]
  BY <1>1, <1>3
<1>5. Tail(Rest(s, k)) = Rest(s, k + 1)
  <2>1. /\ Rest(s, k + 1) \in Seq(E) /\ Len(Rest(s, k + 1)) = Len(s) - (k + 1)
        /\ \A i \in 1 .. Len(s) - (k + 1) : Rest(s, k + 1)[i] = s[(k + 1) + i]
    BY <1>1 DEF Rest
  <2> DEFINE a == Rest(s, k)
             b == Rest(s, k + 1)
  <2> HIDE DEF a
  <2>2. a \in Seq(E) /\ a # <<>> /\ Len(a) = Len(s) - k
    BY <1>3, <1>4 DEF a
  <2>3. Tail(a) \in Seq(E) /\ Len(Tail(a)) = Len(s) - k - 1
        /\ \A i \in 1 .. Len(s) - k - 1 : Tail(a)[i] = a[i + 1]
    BY <1>1, <2>2
  <2>4. ASSUME NEW i \in 1 .. Len(s) - k - 1 PROVE Tail(a)[i] = b[i]
    <3>1. a[i + 1] = s[k + (i + 1)]
      BY <1>1, <1>3 DEF a
    <3>2. b[i] = s[(k + 1) + i]
      BY <1>1, <2>1
    <3>3. k + (i + 1) = (k + 1) + i
      BY <1>1
    <3> QED BY <2>3, <3>1, <3>2, <3>3
  <2> HIDE DEF b
  <2>5. b \in Seq(E) /\ Len(b) = Len(s) - k - 1
    BY <1>1, <2>1 DEF b
  <2>6. Len(Tail(a)) = Len(b) /\ \A i \in 1 .. Len(Tail(a)) : Tail(a)[i] = b[i]
    BY <2>3, <2>4, <2>5
  <2>7. Tail(a) = b
    BY <2>3, <2>5, <2>6, SeqEqual
  <2> QED BY <2>7 DEF a, b
<1>6. Cut(s, k + 1) = IF k = 0 THEN <<s[k + 1]>> ELSE Append(Cut(s, k), s[k + 1])
  <2>1. /\ Cut(s, k + 1) \in Seq(E) /\ Len(Cut(s, k + 1)) = k + 1
        /\ \A i \in 1 .. k + 1 : Cut(s, k + 1)[i] = s[i]
    BY <1>1 DEF Cut
  <2> DEFINE a == Cut(s, k)
             b == Cut(s, k + 1)
  <2> HIDE DEF a, b
  <2>2. CASE k = 0
    <3>1. b \in Seq(E) /\ Len(b) = 1 /\ b[1] = s[k + 1]
      BY <1>1, <2>1, <2>2 DEF b
    <3>2. b = <<s[k + 1]>>
      BY <3>1
    <3> QED BY <2>2, <3>2 DEF b
  <2>3. CASE k # 0
    <3>1. s[k + 1] \in E
      BY <1>1
    <3> DEFINE e == s[k + 1]
    <3>2. a \in Seq(E) /\ Len(a) = k /\ (\A i \in 1 .. k : a[i] = s[i]) /\ e \in E
      BY <1>2, <3>1 DEF a
    <3>3. b \in Seq(E) /\ Len(b) = k + 1 /\ b[k + 1] = e /\ \A i \in 1 .. k : b[i] = s[i]
      BY <1>1, <2>1 DEF b
    <3> HIDE DEF e
    <3>4. b = Append(a, e)
      BY <1>1, <3>2, <3>3
    <3> QED BY <2>3, <3>4 DEF a, b, e
  <2> QED BY <2>2, <2>3
<1> QED BY <1>4, <1>5, <1>6

(* The line of a number, of which no part but the whole is complete.       *)
LineShape(t, v, s) ==
  /\ s \in Seq(Token) /\ Len(s) >= 3
  /\ s[1] = Tok(t, "open") /\ s[Len(s)] = Tok(t, "close")
  /\ \A i \in 1 .. Len(s) :
        /\ s[i].by = t
        /\ s[i].what = (IF i = 1 THEN "open" ELSE IF i = Len(s) THEN "close" ELSE "digit")

LEMMA LineIs ==
  ASSUME NEW t \in Task, NEW v \in 0 .. Wrap
  PROVE  /\ LineShape(t, v, Line(t, v))
         /\ Fits(Line(t, v), t, v)
<1> DEFINE p == put_dec(v)
           ds == [i \in DOMAIN p |-> Digit(t, p[i])]
           s == <<Tok(t, "open")>> \o ds \o <<Tok(t, "close")>>
<1>1. p \in Seq(Nat) /\ p # <<>> /\ (p[1] = 0 => Len(p) = 1) /\ Writes(p, v) /\ v \in Nat
  BY PutDecWrites, FreertosAssumption
<1>2. Line(t, v) = s
  BY DEF Line
<1> HIDE DEF p
<1>3. /\ Tok(t, "open") \in Token /\ Tok(t, "close") \in Token
      /\ Tok(t, "open").by = t /\ Tok(t, "close").by = t
      /\ Tok(t, "open").what = "open" /\ Tok(t, "close").what = "close"
      /\ \A d \in Nat : Digit(t, d) \in Token /\ Digit(t, d).digit = d
                        /\ Digit(t, d).by = t /\ Digit(t, d).what = "digit"
  BY DEF Tok, Digit, Token, Actor, Words
<1>4. /\ ds \in Seq(Token) /\ Len(ds) = Len(p) /\ Len(p) \in Nat /\ Len(p) > 0
      /\ \A i \in 1 .. Len(p) : ds[i].digit = p[i] /\ ds[i].by = t /\ ds[i].what = "digit"
  <2>1. DOMAIN p = 1 .. Len(p) /\ Len(p) \in Nat /\ Len(p) > 0 /\ \A i \in 1 .. Len(p) : p[i] \in Nat
    BY <1>1
  <2> QED BY <1>3, <2>1
<1>5. Value(ds) = v
  <2> HIDE DEF ds
  <2> QED BY <1>1, <1>4, ValueOfDigits
<1> HIDE DEF ds
<1> DEFINE m == Len(p)
<1>6. /\ s \in Seq(Token) /\ Len(s) = m + 2
      /\ s[1] = Tok(t, "open") /\ s[m + 2] = Tok(t, "close")
      /\ \A i \in 2 .. m + 1 : s[i] = ds[i - 1]
  <2> DEFINE a == Tok(t, "open")
             b == Tok(t, "close")
             r == <<a>> \o ds
  <2> HIDE DEF a, b
  <2>1. r \in Seq(Token) /\ Len(r) = m + 1 /\ r[1] = a /\ \A i \in 2 .. m + 1 : r[i] = ds[i - 1]
    BY <1>3, <1>4 DEF a
  <2> HIDE DEF r
  <2>2. b \in Token
    BY <1>3 DEF b
  <2>3. r \o <<b>> \in Seq(Token) /\ Len(r \o <<b>>) = m + 2 /\ (r \o <<b>>)[m + 2] = b
        /\ \A i \in 1 .. m + 1 : (r \o <<b>>)[i] = r[i]
    BY <1>4, <2>1, <2>2
  <2> QED BY <1>4, <2>1, <2>3 DEF a, b, r
<1> HIDE DEF s
<1>7. LineShape(t, v, s)
  <2>1. ASSUME NEW i \in 1 .. Len(s)
        PROVE  /\ s[i].by = t
               /\ s[i].what = (IF i = 1 THEN "open" ELSE IF i = Len(s) THEN "close" ELSE "digit")
    <3>1. CASE i = 1 \/ i = Len(s)
      BY <1>3, <1>4, <1>6, <3>1
    <3>2. CASE ~(i = 1 \/ i = Len(s))
      <4>1. i \in 2 .. m + 1 /\ i - 1 \in 1 .. Len(p)
        BY <1>4, <1>6, <3>2
      <4> QED BY <1>4, <1>6, <3>2, <4>1
    <3> QED BY <3>1, <3>2
  <2> QED BY <1>4, <1>6, <2>1 DEF LineShape
<1>8. Complete(s, t)
  BY <1>4, <1>6 DEF Complete, Last
<1>9. SubSeq(s, 2, Len(s) - 1) = ds
  <2>1. /\ SubSeq(s, 2, m + 1) \in Seq(Token) /\ Len(SubSeq(s, 2, m + 1)) = m
        /\ \A i \in 1 .. m : SubSeq(s, 2, m + 1)[i] = s[i + 1]
    BY <1>4, <1>6
  <2>2. \A i \in 1 .. m : s[i + 1] = ds[i]
    BY <1>4, <1>6
  <2> DEFINE u == SubSeq(s, 2, m + 1)
  <2> HIDE DEF u
  <2>3. u \in Seq(Token) /\ Len(u) = m /\ \A i \in 1 .. m : u[i] = ds[i]
    BY <2>1, <2>2 DEF u
  <2>4. u = ds
    BY <1>4, <2>3
  <2>5. Len(s) - 1 = m + 1
    BY <1>4, <1>6
  <2> QED BY <2>4, <2>5 DEF u
<1>10. ds # <<>> /\ (Head(ds).digit = 0 => Len(ds) = 1)
  BY <1>1, <1>4
<1>11. Fits(s, t, v)
  <2>1. DOMAIN s = 1 .. Len(s)
    BY <1>6
  <2> QED BY <1>5, <1>7, <1>8, <1>9, <1>10, <2>1 DEF Fits, LineShape
<1> QED BY <1>2, <1>7, <1>11

LEMMA PartFits ==
  ASSUME NEW t \in Task, NEW v \in 0 .. Wrap, NEW x, NEW k \in 0 .. Len(Line(t, v)) - 1
  PROVE  Fits(Cut(Line(t, v), k), t, x) /\ ~Complete(Cut(Line(t, v), k), t)
<1> DEFINE s == Line(t, v)
           c == Cut(s, k)
<1>1. LineShape(t, v, s)
  BY LineIs
<1> HIDE DEF s
<1>2. /\ s \in Seq(Token) /\ Len(s) >= 3 /\ Len(s) \in Nat /\ k \in 0 .. Len(s) /\ k < Len(s)
      /\ \A i \in 1 .. Len(s) :
            /\ s[i].by = t
            /\ s[i].what = (IF i = 1 THEN "open" ELSE IF i = Len(s) THEN "close" ELSE "digit")
  BY <1>1 DEF LineShape, s
<1>3. c \in Seq(Token) /\ Len(c) = k /\ \A i \in 1 .. k : c[i] = s[i]
  <2>1. s \in Seq(Token) /\ k \in 0 .. Len(s)
    BY <1>2
  <2>2. /\ Cut(s, k) \in Seq(Token) /\ Len(Cut(s, k)) = k
        /\ \A i \in 1 .. k : Cut(s, k)[i] = s[i]
    BY <2>1, CutIs
  <2> QED BY <2>2
<1> HIDE DEF c
<1>4. k > 0 => c[k].what # "close"
  BY <1>2, <1>3
<1>5. ~Complete(c, t)
  <2>1. c # <<>> => Last(c) = c[k] /\ k > 0
    BY <1>3 DEF Last
  <2>2. Tok(t, "close").what = "close"
    BY DEF Tok
  <2> QED BY <1>4, <2>1, <2>2 DEF Complete
<1>6. \A i \in DOMAIN c :
        c[i].by = t /\ c[i].what = (IF i = 1 THEN "open"
                                    ELSE IF i = Len(c) /\ Complete(c, t) THEN "close" ELSE "digit")
  BY <1>2, <1>3, <1>5
<1>7. Fits(c, t, x)
  BY <1>5, <1>6 DEF Fits
<1> QED BY <1>5, <1>7 DEF c, s

LEMMA NothingFits ==
  ASSUME NEW t, NEW v PROVE Fits(<<>>, t, v) /\ ~Complete(<<>>, t)
BY DEF Fits, Complete
-----------------------------------------------------------------------------
(* Who runs, and the types.                                                *)

Codes == {"loop", "0", "2", "3", "4"}
Struck == fault \in {"exception", "interrupt"}

RunsNow(a) ==
  IF Struck THEN a = "trap"
  ELSE IF ~on THEN a = "main"
  ELSE a \in ready /\ (a = "blink" => "hello" \notin ready)

(* The types; what is about to be written exists, and no trap strikes      *)
(* before the scheduler runs.                                              *)
FTyped ==
  /\ build \in Builds /\ heap \in Heaps /\ on \in BOOLEAN /\ even \in BOOLEAN
  /\ ready \subseteq Task /\ wake \in [Task -> 0 .. 2]
  /\ pc \in [Actor -> {"poll", "write", "after", "spin"}]
  /\ then \in [Actor -> Codes] /\ line \in [Actor -> Seq(Token)]
  /\ n \in [Task -> 0 .. Wrap - 1] /\ told \in [Task -> 0 .. Wrap - 1]
  /\ since \in [Task -> 0 .. 2] /\ cur \in [Task -> Seq(Token)]
  /\ fifo \in 0 .. Depth /\ lost \subseteq Actor
  /\ exit \in Seq(Codes) /\ fault \in {"none"} \cup Kinds
  /\ \A a \in Actor : pc[a] = "write" => line[a] # <<>>
  /\ Struck => on

LEMMA RunningIs ==
  ASSUME FTyped, NEW a \in Actor
  PROVE  Running(a) <=> ~Halted /\ RunsNow(a)
<1>1. CASE Struck
  BY <1>1 DEF Running, RunsNow, Struck, FTyped
<1>2. CASE ~Struck /\ ~on
  BY <1>2 DEF Running, RunsNow, Struck
<1>3. CASE ~Struck /\ on
  <2>1. ready \subseteq Task
    BY DEF FTyped
  <2>2. a \in ready => ((\A t \in ready : Priority(t) <= Priority(a)) <=> (a = "blink" => "hello" \notin ready))
    BY <2>1 DEF Priority, Task
  <2>3. Running(a) <=> ~Halted /\ a \in ready /\ \A t \in ready : Priority(t) <= Priority(a)
    BY <1>3 DEF Running, Struck
  <2> HIDE DEF Running, Halted
  <2> QED BY <1>3, <2>2, <2>3 DEF RunsNow
<1> QED BY <1>1, <1>2, <1>3

LEMMA OneRuns ==
  ASSUME FTyped, NEW a \in Actor, NEW b \in Actor, RunsNow(a), RunsNow(b)
  PROVE  a = b
BY DEF RunsNow, FTyped, Task

LEMMA Toks ==
  /\ \A a \in Actor, w \in Words : Tok(a, w) \in Token /\ Tok(a, w).by = a /\ Tok(a, w).what = w
  /\ Task \subseteq Actor /\ "main" \in Actor /\ "trap" \in Actor
  /\ \A t \in Task : t \in {"hello", "blink"}
  /\ "hello" \in Task /\ "blink" \in Task /\ "main" \notin Task /\ "trap" \notin Task
BY DEF Tok, Token, Actor, Task, Words

LEMMA LineTyped ==
  ASSUME NEW t \in Task, NEW v \in 0 .. Wrap - 1 PROVE Line(t, v) \in Seq(Token)
<1>1. v \in 0 .. Wrap
  BY FreertosAssumption
<1> QED BY <1>1, LineIs DEF LineShape

LEMMA CountTyped ==
  ASSUME NEW v \in 0 .. Wrap - 1 PROVE (v + 1) % Wrap \in 0 .. Wrap - 1
<1>1. Wrap \in Nat \ {0}
  BY FreertosAssumption
<1>2. v + 1 \in Nat
  OBVIOUS
<1> QED BY <1>1, <1>2

LEMMA SeenTyped ==
  ASSUME NEW s \in Seq(Token), NEW t, NEW tok \in Token PROVE Seen(s, t, tok) \in Seq(Token)
BY DEF Seen

LEMMA FTypedStart ==
  ASSUME Init PROVE FTyped
<1>1. /\ build \in Builds /\ heap \in Heaps /\ on = FALSE /\ even = TRUE /\ ready = {} /\ lost = {}
      /\ wake = [t \in Task |-> 0] /\ pc = [a \in Actor |-> "poll"]
      /\ then = [a \in Actor |-> "loop"] /\ fifo = 0 /\ fault = "none" /\ exit = <<>>
      /\ n = [t \in Task |-> 0] /\ told = [t \in Task |-> 0] /\ since = [t \in Task |-> 0]
      /\ cur = [t \in Task |-> <<>>]
  BY DEF Init
<1>2. line \in [Actor -> Seq(Token)]
  <2>1. line = [a \in Actor |-> IF a = "main" THEN <<Tok("main", "banner")>>
                                ELSE IF a \in Task THEN Line(a, 0) ELSE <<>>]
    BY DEF Init
  <2>2. <<Tok("main", "banner")>> \in Seq(Token)
    <3>1. Tok("main", "banner") \in Token
      BY Toks DEF Words
    <3> QED BY <3>1
  <2>3. \A v \in 0 .. Wrap - 1 : v = 0 => \A t \in Task : Line(t, v) \in Seq(Token)
    BY LineTyped
  <2>4. \A t \in Task : Line(t, 0) \in Seq(Token)
    <3>1. 0 \in 0 .. Wrap - 1
      BY FreertosAssumption
    <3> QED BY <2>3, <3>1, Zenon
  <2>5. <<>> \in Seq(Token)
    OBVIOUS
  <2> QED BY <2>1, <2>2, <2>4, <2>5
<1>3. 0 \in 0 .. Wrap - 1 /\ 0 \in 0 .. Depth
  BY FreertosAssumption
<1>4. <<>> \in Seq(Token) /\ <<>> \in Seq(Codes) /\ 0 \in 0 .. 2
  OBVIOUS
<1>5. /\ n \in [Task -> 0 .. Wrap - 1] /\ told \in [Task -> 0 .. Wrap - 1]
      /\ since \in [Task -> 0 .. 2] /\ cur \in [Task -> Seq(Token)] /\ wake \in [Task -> 0 .. 2]
  BY <1>1, <1>3, <1>4
<1>6. /\ pc \in [Actor -> {"poll", "write", "after", "spin"}] /\ then \in [Actor -> Codes]
      /\ \A a \in Actor : pc[a] # "write"
  BY <1>1 DEF Codes
<1>7. fifo \in 0 .. Depth /\ lost \subseteq Actor /\ on \in BOOLEAN /\ even \in BOOLEAN /\ ready \subseteq Task
      /\ exit \in Seq(Codes) /\ fault \in {"none"} \cup Kinds
  BY <1>1, <1>3, <1>4
<1> QED BY <1>1, <1>2, <1>5, <1>6, <1>7 DEF FTyped, Struck

LEMMA WriteTyped ==
  ASSUME FTyped, NEW a \in Actor, Write(a)
  PROVE  /\ line[a] \in Seq(Token) /\ line[a] # <<>> /\ Head(line[a]) \in Token
         /\ Tail(line[a]) \in Seq(Token)
         /\ FTyped'
<1>1. line[a] \in Seq(Token) /\ line[a] # <<>> /\ Head(line[a]) \in Token /\ Tail(line[a]) \in Seq(Token)
  BY DEF FTyped, Write
<1>2. lost' \subseteq Actor /\ fifo' \in 0 .. Depth
  <2>1. fifo \in 0 .. Depth /\ Depth \in Nat
    BY FreertosAssumption DEF FTyped
  <2>2. lost' = (IF TxFull THEN lost \cup {a} ELSE lost) /\ fifo' = IF build.fpga /\ ~TxFull THEN fifo + 1 ELSE fifo
    BY DEF Write
  <2>3. build.fpga /\ ~TxFull => fifo # Depth
    BY DEF TxFull
  <2>4. lost' \subseteq Actor
    BY <2>2 DEF FTyped
  <2> QED BY <2>1, <2>2, <2>3, <2>4
<1>3. cur' \in [Task -> Seq(Token)]
  <2>1. \A t \in Task : cur'[t] \in {cur[t], Seen(cur[t], t, Head(line[a]))}
    BY DEF Write
  <2>3. cur' = [t \in Task |-> cur'[t]]
    BY DEF Write
  <2>2. \A t \in Task : cur[t] \in Seq(Token) /\ Seen(cur[t], t, Head(line[a])) \in Seq(Token)
    BY <1>1, SeenTyped DEF FTyped
  <2>4. \A t \in Task : cur'[t] \in Seq(Token)
    BY <2>1, <2>2
  <2> QED BY <2>3, <2>4
<1>4. told' \in [Task -> 0 .. Wrap - 1]
  <2>1. /\ \A t \in Task : told'[t] \in {told[t], (told[t] + 1) % Wrap}
        /\ told' = [t \in Task |-> told'[t]]
    BY DEF Write
  <2>2. \A t \in Task : told[t] \in 0 .. Wrap - 1 /\ (told[t] + 1) % Wrap \in 0 .. Wrap - 1
    BY CountTyped DEF FTyped
  <2>3. \A t \in Task : told'[t] \in 0 .. Wrap - 1
    BY <2>1, <2>2
  <2> QED BY <2>1, <2>3
<1>5. since' \in [Task -> 0 .. 2]
  <2>1. \/ since' = since
        \/ a \in Task /\ since' = [since EXCEPT ![a] = IF @ < 2 THEN @ + 1 ELSE @]
    BY DEF Write
  <2>2. since \in [Task -> 0 .. 2]
    BY DEF FTyped
  <2>3. CASE since' = since
    BY <2>2, <2>3
  <2>4. CASE a \in Task /\ since' = [since EXCEPT ![a] = IF @ < 2 THEN @ + 1 ELSE @]
    BY <2>2, <2>4
  <2> QED BY <2>1, <2>3, <2>4
<1>6. /\ line' = [line EXCEPT ![a] = Tail(line[a])]
      /\ pc' = [pc EXCEPT ![a] = IF Tail(line[a]) = <<>> THEN "after" ELSE "poll"]
      /\ UNCHANGED <<build, heap, on, ready, wake, then, n, even, exit, fault>>
  BY DEF Write
<1>7. line' \in [Actor -> Seq(Token)] /\ pc' \in [Actor -> {"poll", "write", "after", "spin"}]
      /\ \A b \in Actor : pc'[b] = "write" => line'[b] # <<>>
  BY <1>1, <1>6 DEF FTyped
<1>8. FTyped'
  BY <1>2, <1>3, <1>4, <1>5, <1>6, <1>7 DEF FTyped, Struck
<1> QED BY <1>1, <1>8

(* A task's next line begins and it waits.                                 *)
LEMMA DelayTyped ==
  ASSUME FTyped, NEW t \in Task, NEW d \in 0 .. 2, DelayThen(t, d),
         n' = [n EXCEPT ![t] = Count(@)],
         UNCHANGED <<build, heap, on, then, uart, even, exit, fault>>
  PROVE  FTyped'
<1>1. t \in Actor
  BY Toks
<1>2. n' \in [Task -> 0 .. Wrap - 1]
  BY CountTyped DEF FTyped, Count
<1>3. Line(t, n'[t]) \in Seq(Token)
  BY <1>2, LineTyped
<1>4. line' \in [Actor -> Seq(Token)] /\ pc' \in [Actor -> {"poll", "write", "after", "spin"}]
      /\ \A b \in Actor : pc'[b] = "write" => line'[b] # <<>>
  BY <1>1, <1>3 DEF FTyped, DelayThen
<1>5. wake' \in [Task -> 0 .. 2] /\ ready' \subseteq Task
  BY DEF FTyped, DelayThen
<1> QED BY <1>2, <1>4, <1>5 DEF FTyped, uart, Struck

(* Another text is to be printed and another thing done after it.          *)
LEMMA TurnTyped ==
  ASSUME FTyped, NEW a \in Actor, NEW w \in Words, NEW c \in Codes,
         line' = [line EXCEPT ![a] = <<Tok(a, w)>>],
         pc' = [pc EXCEPT ![a] = "poll"] \/ pc' = pc,
         then' = [then EXCEPT ![a] = c]
  PROVE  /\ line' \in [Actor -> Seq(Token)] /\ pc' \in [Actor -> {"poll", "write", "after", "spin"}]
         /\ then' \in [Actor -> Codes]
         /\ \A b \in Actor : pc'[b] = "write" => line'[b] # <<>>
<1>1. Tok(a, w) \in Token
  BY Toks
<1>2. <<Tok(a, w)>> \in Seq(Token) /\ <<Tok(a, w)>> # <<>>
  BY <1>1
<1> QED BY <1>2 DEF FTyped

LEMMA FTypedStep ==
  ASSUME FTyped, [Next]_vars PROVE FTyped'
<1>1. ASSUME NEW a \in Actor, Poll(a) PROVE FTyped'
  BY <1>1 DEF FTyped, Poll, uart, Struck
<1>2. ASSUME NEW a \in Actor, Write(a) PROVE FTyped'
  BY <1>2, WriteTyped
<1>3. ASSUME NEW a \in Actor, Exit(a) PROVE FTyped'
  <2>1. exit' \in Seq(Codes)
    BY <1>3 DEF Exit, FTyped
  <2> QED BY <1>3, <2>1 DEF FTyped, Exit, uart, Struck
<1>a. ASSUME NEW a \in Task \cup {"main"}, Asserts(a),
             UNCHANGED <<build, heap, on, ready, wake, n, uart, even, exit>>
      PROVE  FTyped'
  <2>1. a \in Actor /\ "ASSERT" \in Words /\ "2" \in Codes
    BY DEF Actor, Words, Codes
  <2>2. fault' \in {"none"} \cup Kinds /\ ~Struck'
    BY <1>a DEF Asserts, Kinds, Struck
  <2> QED BY <1>a, <2>1, <2>2, TurnTyped DEF FTyped, Asserts, uart
<1>4. ASSUME StartScheduler PROVE FTyped'
  <2>1. CASE HasIdle
    <3>1. ready' \subseteq Task
      BY <1>4, <2>1 DEF StartScheduler, Created
    <3> QED BY <1>4, <2>1, <3>1 DEF FTyped, StartScheduler, uart, Struck
  <2>2. CASE ~HasIdle
    BY <1>4, <1>a, <2>2 DEF StartScheduler
  <2> QED BY <2>1, <2>2
<1>5. ASSUME AfterHello PROVE FTyped'
  <2>1. CASE DelayThen("hello", HelloPeriods) /\ UNCHANGED then
    <3>1. HelloPeriods \in 0 .. 2 /\ "hello" \in Task
      BY DEF HelloPeriods, Task
    <3> QED BY <1>5, <2>1, <3>1, DelayTyped DEF AfterHello
  <2>2. CASE /\ line' = [line EXCEPT !["hello"] = <<Tok("hello", "PASS")>>]
             /\ pc' = [pc EXCEPT !["hello"] = "poll"]
             /\ then' = [then EXCEPT !["hello"] = "0"]
             /\ UNCHANGED <<ready, wake>>
    <3>1. "hello" \in Actor /\ "PASS" \in Words /\ "0" \in Codes
      BY DEF Actor, Task, Words, Codes
    <3>2. n' \in [Task -> 0 .. Wrap - 1]
      BY <1>5, CountTyped, Toks DEF FTyped, Count, AfterHello
    <3> QED BY <1>5, <2>2, <3>1, <3>2, TurnTyped DEF FTyped, AfterHello, uart, Struck
  <2> QED BY <1>5, <2>1, <2>2 DEF AfterHello
<1>6. ASSUME AfterBlink PROVE FTyped'
  <2>1. BlinkPeriods \in 0 .. 2 /\ "blink" \in Task
    BY DEF BlinkPeriods, Task
  <2> QED BY <1>6, <2>1, DelayTyped DEF AfterBlink
<1>7. ASSUME Drain PROVE FTyped'
  <2>1. fifo' \in 0 .. Depth
    BY <1>7, FreertosAssumption DEF FTyped, Drain
  <2> QED BY <1>7, <2>1 DEF FTyped, Drain, Struck
<1>8. ASSUME Tick PROVE FTyped'
  <2>1. wake' \in [Task -> 0 .. 2]
    <3>1. wake' = [t \in Task |-> IF wake[t] > 0 THEN wake[t] - 1 ELSE 0]
      BY <1>8 DEF Tick
    <3>2. \A t \in Task : wake[t] \in 0 .. 2
      BY DEF FTyped
    <3>3. \A t \in Task : (IF wake[t] > 0 THEN wake[t] - 1 ELSE 0) \in 0 .. 2
      BY <3>2
    <3> QED BY <3>1, <3>3
  <2>2. since' \in [Task -> 0 .. 2] /\ ready' \subseteq Task /\ even' \in BOOLEAN
    BY <1>8 DEF Tick, FTyped
  <2> QED BY <1>8, <2>1, <2>2 DEF FTyped, Tick, Struck
<1>9. ASSUME NEW a \in Task \cup {"main"}, AssertFails(a) PROVE FTyped'
  BY <1>9, <1>a DEF AssertFails
<1>10. ASSUME NEW k \in Kinds, Trap(k) PROVE FTyped'
  <2> DEFINE c == IF k = "exception" THEN "3" ELSE "4"
  <2>1. "trap" \in Actor /\ k \in Words /\ c \in Codes
    BY <1>10 DEF Actor, Words, Codes, Trap, Kinds
  <2>2. fault' \in {"none"} \cup Kinds
    BY <1>10 DEF Trap
  <2>4. on' /\ on' = on
    BY <1>10 DEF Trap
  <2>3. then' = [then EXCEPT !["trap"] = c]
    BY <1>10 DEF Trap
  <2> HIDE DEF c
  <2>5. /\ line' \in [Actor -> Seq(Token)] /\ pc' \in [Actor -> {"poll", "write", "after", "spin"}]
        /\ then' \in [Actor -> Codes]
        /\ \A b \in Actor : pc'[b] = "write" => line'[b] # <<>>
    BY <1>10, <2>1, <2>3, TurnTyped DEF Trap
  <2>6. UNCHANGED <<build, heap, on, ready, wake, n, uart, even, exit>>
    BY <1>10 DEF Trap
  <2> QED BY <2>2, <2>4, <2>5, <2>6 DEF FTyped, uart
<1>11. ASSUME UNCHANGED vars PROVE FTyped'
  BY <1>11 DEF FTyped, vars, Struck
<1> QED BY <1>1, <1>2, <1>3, <1>4, <1>5, <1>6, <1>7, <1>8, <1>9, <1>10, <1>11 DEF Next, Code, Step
-----------------------------------------------------------------------------
(* What the exit code means.                                               *)

(* Each actor ends only with the codes it owns, which name the fault that  *)
(* struck or the count that was reached, and one only with a failed        *)
(* assertion; that one keeps the processor until it has exited, if lines   *)
(* are printed in no time; and who exited spins.                           *)
Blame ==
  /\ on => HasIdle /\ then["main"] = "loop"
  /\ ready \subseteq Created /\ \A t \in Task \ Created : wake[t] = 0
  /\ then["main"] \in {"loop", "2"} /\ then["trap"] \in {"loop", "3", "4"}
  /\ then["blink"] \in {"loop", "2"} /\ then["hello"] \in {"loop", "0", "2"}
  /\ ~on => ready = {} /\ (fault # "none" => then["main"] = "2")
  /\ \A a \in Actor : /\ then[a] = "2" => fault = "assert"
                      /\ then[a] = "3" => fault = "exception"
                      /\ then[a] = "4" => fault = "interrupt"
  /\ \A a, b \in Actor : then[a] = "2" /\ then[b] = "2" => a = b
  /\ ~Struck => then["trap"] = "loop" /\ pc["trap"] = "poll" /\ line["trap"] = <<>>
  /\ then["hello"] = "0" =>
       /\ on /\ n["hello"] = Target /\ ~build.fpga /\ "hello" \in ready
       /\ fault = "assert" => ~build.prompt
  /\ fault = "assert" /\ build.prompt /\ exit = <<>> => \E a \in Actor : RunsNow(a) /\ then[a] = "2"
  /\ \A a \in Actor : pc[a] = "spin" => exit = <<then[a]>> /\ then[a] # "loop"
  /\ exit # <<>> => \E a \in Actor : pc[a] = "spin"
  /\ exit = <<"0">> => ~Struck

(* A simulation changes no more after its exit.                            *)
LEMMA Stopped ==
  ASSUME Halted, [Next]_vars PROVE UNCHANGED vars
<1>1. \A a \in Actor : ~Running(a)
  BY DEF Running
<1>2. "main" \in Actor /\ "hello" \in Actor /\ "blink" \in Actor /\ Task \cup {"main"} \subseteq Actor
  BY Toks
<1>3. ~build.fpga
  BY DEF Halted
<1>4. \A a \in Actor : ~Step(a)
  BY <1>1 DEF Step, Poll, Write, Exit
<1>5. ~StartScheduler /\ ~AfterHello /\ ~AfterBlink
  BY <1>1, <1>2 DEF StartScheduler, AfterHello, AfterBlink
<1>6. ~Drain /\ ~Tick /\ \A k \in Kinds : ~Trap(k)
  BY <1>3 DEF Drain, Tick, Trap
<1>7. \A a \in Task \cup {"main"} : ~AssertFails(a)
  BY <1>1, <1>2 DEF AssertFails
<1> QED BY <1>4, <1>5, <1>6, <1>7 DEF Next, Code

LEMMA Constancy ==
  ASSUME [Next]_vars PROVE build' = build /\ heap' = heap
BY DEF Next, Code, Step, Poll, Write, Exit, StartScheduler, AfterHello, AfterBlink, Drain, Tick,
       AssertFails, Trap, vars

(* What there is room for depends on the heap alone.                       *)
LEMMA RoomStays ==
  ASSUME heap' = heap
  PROVE  /\ HasHello' = HasHello /\ HasBlink' = HasBlink /\ HasIdle' = HasIdle
         /\ Created' = Created
BY DEF HasHello, HasBlink, HasIdle, Created

LEMMA BlameStart ==
  ASSUME Init PROVE Blame
<1>1. /\ on = FALSE /\ ready = {} /\ pc = [a \in Actor |-> "poll"] /\ then = [a \in Actor |-> "loop"]
      /\ exit = <<>> /\ fault = "none" /\ wake = [t \in Task |-> 0]
  BY DEF Init
<1>2. line["trap"] = <<>>
  BY DEF Init, Actor, Task
<1>3. \A a \in Actor : pc[a] = "poll" /\ then[a] = "loop"
  BY <1>1
<1>4. "main" \in Actor /\ "trap" \in Actor /\ "hello" \in Actor /\ "blink" \in Actor
  BY Toks
<1>5. \A t \in Task : wake[t] = 0
  BY <1>1
<1> QED BY <1>1, <1>2, <1>3, <1>4, <1>5 DEF Blame

LEMMA TrapIsStruck ==
  ASSUME FTyped, RunsNow("trap") PROVE Struck
BY DEF FTyped, RunsNow, Task

(* Without a fault only a simulation exits.                                *)
LEMMA NoSpin ==
  ASSUME FTyped, Blame, ~Halted, fault = "none", NEW a \in Actor PROVE pc[a] # "spin"
<1> SUFFICES ASSUME pc[a] = "spin" PROVE FALSE
  OBVIOUS
<1>1. then[a] \in {"0", "2", "3", "4"} /\ exit # <<>>
  <2>1. then[a] \in Codes /\ then[a] # "loop" /\ exit = <<then[a]>>
    BY DEF FTyped, Blame
  <2> QED BY <2>1 DEF Codes
<1>2. then[a] = "0"
  BY <1>1 DEF Blame
<1>3. a = "hello"
  BY <1>2 DEF Blame, Actor, Task
<1> QED BY <1>1, <1>2, <1>3 DEF Blame, Halted

(* The assertion of one actor.                                             *)
LEMMA BlameAssert ==
  ASSUME FTyped, Blame, ~Halted, NEW a \in {"main", "hello", "blink"}, RunsNow(a), fault = "none",
         then[a] = "loop", Asserts(a), UNCHANGED <<build, heap, on, ready, wake, n, exit>>
  PROVE  Blame'
<1>0. /\ Actor = {"main", "trap", "hello", "blink"} /\ "trap" # a /\ a \in Actor
      /\ DOMAIN pc = Actor /\ DOMAIN then = Actor /\ DOMAIN line = Actor
  BY DEF Actor, Task, FTyped
<1>1. /\ fault' = "assert" /\ line' = [line EXCEPT ![a] = <<Tok(a, "ASSERT")>>]
      /\ pc' = [pc EXCEPT ![a] = "poll"] /\ then' = [then EXCEPT ![a] = "2"]
  BY DEF Asserts
<1>2. then'[a] = "2" /\ \A b \in Actor \ {a} : then'[b] = then[b]
  BY <1>0, <1>1
<1>3. ~Struck /\ ~Struck' /\ (~on => a = "main") /\ (on => a \in ready)
  BY <1>1 DEF Struck, RunsNow
<1>4. \A b \in Actor : then[b] \notin {"2", "3", "4"} /\ pc[b] # "spin"
  BY NoSpin DEF Blame
<1>5. RunsNow(a)'
  BY <1>1, <1>3 DEF RunsNow
<1>6. pc'["trap"] = pc["trap"] /\ line'["trap"] = line["trap"] /\ \A b \in Actor : pc'[b] # "spin"
  BY <1>0, <1>1, <1>4
<1>7. then["hello"] # "0"
  <2>1. ASSUME then["hello"] = "0" PROVE FALSE
    <3>1. on /\ "hello" \in ready
      BY <2>1 DEF Blame
    <3>2. a \in ready /\ (a = "blink" => "hello" \notin ready) /\ ready \subseteq Task
      BY <1>3, <3>1 DEF RunsNow, FTyped
    <3>3. a = "hello"
      BY <3>1, <3>2 DEF Task
    <3> QED BY <2>1, <3>3
  <2> QED BY <2>1
<1>8. exit' = <<>>
  BY <1>4 DEF Blame
<1>9. on => a # "main"
  BY <1>3 DEF FTyped, Task
<1>10. Created' = Created /\ HasIdle' = HasIdle
  BY RoomStays
<1>11. then'["hello"] # "0"
  BY <1>0, <1>2, <1>7
<1>12. /\ then'["main"] \in {"loop", "2"} /\ then'["trap"] \in {"loop", "3", "4"}
       /\ then'["blink"] \in {"loop", "2"} /\ then'["hello"] \in {"loop", "0", "2"}
       /\ then'["trap"] = "loop"
       /\ \A b \in Actor : then'[b] \in {"2", "3", "4"} => b = a
  <2>1. /\ then["main"] \in {"loop", "2"} /\ then["trap"] \in {"loop", "3", "4"}
        /\ then["blink"] \in {"loop", "2"} /\ then["hello"] \in {"loop", "0", "2"}
    BY DEF Blame
  <2>2. then["trap"] = "loop"
    BY <1>3 DEF Blame
  <2> QED BY <1>0, <1>2, <1>4, <2>1, <2>2
<1>13. on' => HasIdle' /\ then'["main"] = "loop"
  <2>1. on => HasIdle /\ then["main"] = "loop"
    BY DEF Blame
  <2> QED BY <1>0, <1>2, <1>9, <1>10, <2>1
<1>14. /\ ready' \subseteq Created' /\ \A t \in Task \ Created' : wake'[t] = 0
       /\ ~on' => ready' = {}
  BY <1>10 DEF Blame
<1>15. pc'["trap"] = "poll" /\ line'["trap"] = <<>>
  BY <1>3, <1>6 DEF Blame
<1>16. ~on' => then'["main"] = "2"
  BY <1>2, <1>3
<1>17. \A b \in Actor : then'[b] = "2" => b = a
  BY <1>12
<1>18. then'[a] = "2" /\ RunsNow(a)' /\ a \in Actor
  BY <1>0, <1>2, <1>5
<1>19. \A b \in Actor : then'[b] \notin {"3", "4"}
  BY <1>2, <1>12
<1> QED BY <1>1, <1>3, <1>6, <1>8, <1>11, <1>12, <1>13, <1>14, <1>15, <1>16, <1>17, <1>18, <1>19
        DEF Blame

(* The actor that runs moves on, without an assertion.                     *)
LEMMA BlameWhenRunning ==
  ASSUME FTyped, Blame, ~Halted, Next, FTyped' PROVE Blame'
<1>0. /\ "main" \in Actor /\ "trap" \in Actor /\ "hello" \in Actor /\ "blink" \in Actor
      /\ Actor = {"main", "trap", "hello", "blink"} /\ Task \cup {"main"} = {"main", "hello", "blink"}
      /\ DOMAIN pc = Actor /\ DOMAIN then = Actor /\ DOMAIN line = Actor
  BY DEF Actor, Task, FTyped
<1>1. HasIdle' = HasIdle /\ Created' = Created
  BY Constancy, RoomStays
<1>2. ASSUME NEW a \in Actor, Poll(a) PROVE Blame'
  <2>1. RunsNow(a) /\ pc[a] = "poll" /\ pc' = [pc EXCEPT ![a] = "write"]
        /\ UNCHANGED <<build, heap, on, ready, wake, line, then, n, exit, fault>>
    BY <1>2, RunningIs DEF Poll
  <2>2. pc'["trap"] = pc["trap"] \/ Struck
    BY <1>0, <2>1, TrapIsStruck
  <2>3. \A b \in Actor : pc'[b] = "spin" <=> pc[b] = "spin"
    BY <1>0, <2>1
  <2> QED BY <1>1, <2>1, <2>2, <2>3 DEF Blame, RunsNow, Struck
<1>3. ASSUME NEW a \in Actor, Write(a) PROVE Blame'
  <2>1. /\ RunsNow(a) /\ pc[a] = "write"
        /\ line' = [line EXCEPT ![a] = Tail(@)]
        /\ pc' = [pc EXCEPT ![a] = IF Tail(line[a]) = <<>> THEN "after" ELSE "poll"]
        /\ UNCHANGED <<build, heap, on, ready, wake, then, n, exit, fault>>
    BY <1>3, RunningIs DEF Write
  <2>2. Struck \/ (pc'["trap"] = pc["trap"] /\ line'["trap"] = line["trap"])
    <3>1. a = "trap" => Struck
      BY <2>1, TrapIsStruck
    <3>2. a # "trap" => pc'["trap"] = pc["trap"] /\ line'["trap"] = line["trap"]
      BY <1>0, <2>1
    <3> QED BY <3>1, <3>2
  <2>3. \A b \in Actor : pc'[b] = "spin" <=> pc[b] = "spin"
    BY <1>0, <2>1
  <2> QED BY <1>1, <2>1, <2>2, <2>3 DEF Blame, RunsNow, Struck
<1>4. ASSUME NEW a \in Actor, Exit(a) PROVE Blame'
  <2>1. /\ RunsNow(a) /\ then[a] # "loop" /\ pc[a] = "after"
        /\ pc' = [pc EXCEPT ![a] = "spin"] /\ exit' = Append(exit, then[a])
        /\ UNCHANGED <<build, heap, on, ready, wake, line, then, n, fault>>
    BY <1>4, RunningIs DEF Exit
  <2>2. Struck \/ pc'["trap"] = pc["trap"]
    BY <1>0, <2>1, TrapIsStruck
  <2>3. a # "trap" => then[a] \in {"0", "2"} /\ ~Struck
    BY <1>0, <2>1 DEF Blame, RunsNow
  <2>4. exit = <<>>
    <3>1. ASSUME exit # <<>> PROVE FALSE
      <4>1. build.fpga
        BY <3>1 DEF Halted
      <4>2. PICK b \in Actor : pc[b] = "spin"
        BY <3>1 DEF Blame
      <4>3. then[b] # "loop" /\ a # b
        BY <2>1, <4>2 DEF Blame
      <4>4. then["hello"] # "0"
        BY <4>1 DEF Blame
      <4>5. CASE a = "trap"
        <5>1. Struck /\ b # "trap"
          BY <2>1, <4>3, <4>5, TrapIsStruck
        <5>2. then[b] = "2"
          BY <1>0, <4>3, <4>4, <5>1 DEF Blame
        <5> QED BY <5>1, <5>2 DEF Blame, Struck
      <4>6. CASE a # "trap"
        <5>1. then[a] = "2" /\ ~Struck
          BY <1>0, <2>1, <2>3, <4>4, <4>6 DEF Blame
        <5>2. then[b] = "2"
          BY <1>0, <4>3, <4>4, <5>1 DEF Blame
        <5> QED BY <4>3, <5>1, <5>2 DEF Blame
      <4> QED BY <4>5, <4>6
    <3> QED BY <3>1
  <2>5. exit' = <<then[a]>> /\ exit' # <<>>
    BY <2>1, <2>4
  <2>6. \A b \in Actor : pc'[b] = "spin" => b = a
    BY <1>0, <2>1, <2>4 DEF Blame
  <2>7. pc'[a] = "spin" /\ exit' = <<then'[a]>> /\ then'[a] # "loop"
    BY <1>0, <2>1, <2>5
  <2>8. exit' = <<"0">> => ~Struck'
    <3>1. exit' = <<"0">> => then[a] = "0"
      BY <2>5
    <3>2. then["trap"] # "0"
      BY DEF Blame
    <3> QED BY <2>1, <2>3, <3>1, <3>2 DEF Struck
  <2>9. Struck' = Struck /\ UNCHANGED <<on, ready, wake, then, n, fault, build, line>>
    BY <2>1 DEF Struck
  <2> QED BY <1>1, <2>2, <2>5, <2>6, <2>7, <2>8, <2>9 DEF Blame
<1>5. ASSUME StartScheduler PROVE Blame'
  <2>1. RunsNow("main") /\ then["main"] = "loop" /\ UNCHANGED <<build, heap, wake, n, exit>>
    BY <1>0, <1>5, RunningIs DEF StartScheduler
  <2>2. ~on /\ ~Struck /\ fault = "none"
    <3>1. ~on
      BY <2>1 DEF RunsNow, FTyped, Task, Struck
    <3> QED BY <2>1, <3>1 DEF Blame, Struck
  <2>3. CASE HasIdle
    <3>1. on' = TRUE /\ ready' = Created /\ UNCHANGED <<pc, line, then, fault>>
      BY <1>5, <2>3 DEF StartScheduler
    <3> QED BY <1>1, <2>1, <2>2, <2>3, <3>1 DEF Blame, Struck
  <2>4. CASE ~HasIdle
    BY <1>5, <2>1, <2>2, <2>4, BlameAssert DEF StartScheduler
  <2> QED BY <2>3, <2>4
<1>6. ASSUME AfterHello PROVE Blame'
  <2>1. /\ RunsNow("hello") /\ then["hello"] = "loop" /\ pc["hello"] = "after"
        /\ n' = [n EXCEPT !["hello"] = Count(@)]
        /\ UNCHANGED <<build, heap, on, exit, fault>>
    BY <1>0, <1>6, RunningIs DEF AfterHello
  <2>2. on /\ ~Struck /\ "hello" \in ready
    BY <2>1 DEF RunsNow, FTyped
  <2>3. ~(fault = "assert" /\ build.prompt /\ exit = <<>>)
    <3>1. ASSUME fault = "assert", build.prompt, exit = <<>> PROVE FALSE
      <4>1. PICK a \in Actor : RunsNow(a) /\ then[a] = "2"
        BY <3>1 DEF Blame
      <4>2. a = "hello"
        BY <1>0, <2>1, <4>1, OneRuns
      <4> QED BY <2>1, <4>1, <4>2
    <3> QED BY <3>1
  <2>4. CASE DelayThen("hello", HelloPeriods) /\ UNCHANGED then
    <3>1. /\ pc' = [pc EXCEPT !["hello"] = "poll"]
          /\ line' = [line EXCEPT !["hello"] = Line("hello", n'["hello"])]
          /\ wake' = [wake EXCEPT !["hello"] = 1] /\ ready' = ready \ {"hello"}
      BY <2>4 DEF DelayThen, HelloPeriods
    <3>2. pc'["trap"] = pc["trap"] /\ line'["trap"] = line["trap"]
          /\ \A b \in Actor : pc'[b] = "spin" <=> pc[b] = "spin"
      BY <1>0, <2>1, <3>1
    <3>3. \A t \in Task \ Created' : wake'[t] = 0
      <4>1. "hello" \in Created
        BY <2>2 DEF Blame
      <4> QED BY <1>1, <3>1, <4>1 DEF Blame, FTyped
    <3> QED BY <1>1, <2>1, <2>2, <2>3, <2>4, <3>1, <3>2, <3>3 DEF Blame, Struck
  <2>5. CASE /\ MayEnd /\ CountReached(n'["hello"])
             /\ line' = [line EXCEPT !["hello"] = <<Tok("hello", "PASS")>>]
             /\ pc' = [pc EXCEPT !["hello"] = "poll"]
             /\ then' = [then EXCEPT !["hello"] = "0"]
             /\ UNCHANGED <<ready, wake>>
    <3>1. n'["hello"] = Target /\ ~build.fpga /\ exit = <<>>
      BY <2>5 DEF CountReached, MayEnd, Halted
    <3>2. \A b \in Actor : pc[b] # "spin"
      BY <3>1 DEF Blame
    <3>3. pc'["trap"] = pc["trap"] /\ line'["trap"] = line["trap"] /\ \A b \in Actor : pc'[b] # "spin"
      BY <1>0, <2>5, <3>2
    <3>4. then'["hello"] = "0" /\ \A b \in Actor \ {"hello"} : then'[b] = then[b]
      BY <1>0, <2>5
    <3> QED BY <1>0, <1>1, <2>1, <2>2, <2>3, <2>5, <3>1, <3>3, <3>4 DEF Blame, Struck
  <2> QED BY <1>6, <2>4, <2>5 DEF AfterHello
<1>7. ASSUME AfterBlink PROVE Blame'
  <2>1. /\ RunsNow("blink") /\ then["blink"] = "loop" /\ pc["blink"] = "after"
        /\ n' = [n EXCEPT !["blink"] = Count(@)]
        /\ pc' = [pc EXCEPT !["blink"] = "poll"]
        /\ line' = [line EXCEPT !["blink"] = Line("blink", n'["blink"])]
        /\ ready' = ready \ {"blink"} /\ wake' = [wake EXCEPT !["blink"] = 2]
        /\ UNCHANGED <<build, heap, on, then, exit, fault>>
    BY <1>0, <1>7, RunningIs DEF AfterBlink, DelayThen, BlinkPeriods
  <2>2. on /\ ~Struck /\ "hello" \notin ready /\ "blink" \in ready
    BY <2>1 DEF RunsNow, FTyped
  <2>3. ~(fault = "assert" /\ build.prompt /\ exit = <<>>)
    <3>1. ASSUME fault = "assert", build.prompt, exit = <<>> PROVE FALSE
      <4>1. PICK a \in Actor : RunsNow(a) /\ then[a] = "2"
        BY <3>1 DEF Blame
      <4>2. a = "blink"
        BY <1>0, <2>1, <4>1, OneRuns
      <4> QED BY <2>1, <4>1, <4>2
    <3> QED BY <3>1
  <2>4. pc'["trap"] = pc["trap"] /\ line'["trap"] = line["trap"]
        /\ \A b \in Actor : pc'[b] = "spin" <=> pc[b] = "spin"
    BY <1>0, <2>1
  <2>5. then["hello"] # "0"
    BY <2>2 DEF Blame
  <2>6. \A t \in Task \ Created' : wake'[t] = 0
    <3>1. "blink" \in Created
      BY <2>2 DEF Blame
    <3> QED BY <1>1, <2>1, <3>1 DEF Blame, FTyped
  <2> QED BY <1>1, <2>1, <2>2, <2>3, <2>4, <2>5, <2>6 DEF Blame, Struck
<1>8. ASSUME Drain PROVE Blame'
  BY <1>1, <1>8 DEF Blame, Drain, RunsNow, Struck
<1>9. ASSUME Tick PROVE Blame'
  <2>1. /\ MayTick /\ ready' = ready \cup { t \in Task : wake[t] = 1 }
        /\ wake' = [t \in Task |-> IF wake[t] > 0 THEN wake[t] - 1 ELSE 0]
        /\ UNCHANGED <<build, heap, on, pc, line, then, n, exit, fault>>
    BY <1>9 DEF Tick
  <2>2. on /\ ~Struck
    BY <2>1 DEF MayTick, Struck
  <2>3. ~(fault = "assert" /\ build.prompt /\ exit = <<>>)
    <3>1. ASSUME fault = "assert", build.prompt, exit = <<>> PROVE FALSE
      <4>1. PICK a \in Actor : RunsNow(a) /\ then[a] = "2"
        BY <3>1 DEF Blame
      <4>2. a \in ready /\ a \in {"hello", "blink"}
        BY <2>2, <4>1 DEF RunsNow, FTyped, Task
      <4>3. pc[a] = "spin"
        BY <2>1, <3>1, <4>2 DEF MayTick, Busy
      <4> QED BY <3>1, <4>3 DEF Blame
    <3> QED BY <3>1
  <2>4. ready \subseteq ready' /\ ready' \subseteq Created' /\ \A t \in Task \ Created' : wake'[t] = 0
    <3>1. \A t \in Task \ Created : wake[t] = 0
      BY DEF Blame
    <3>2. \A t \in Task \ Created' : wake'[t] = 0
      BY <1>1, <2>1, <3>1
    <3>3. \A t \in Task : wake[t] = 1 => t \in Created
      BY <3>1
    <3> QED BY <1>1, <2>1, <3>2, <3>3 DEF Blame
  <2> QED BY <1>1, <2>1, <2>2, <2>3, <2>4 DEF Blame, Struck
<1>10. ASSUME NEW a \in Task \cup {"main"}, AssertFails(a) PROVE Blame'
  <2>1. a \in {"main", "hello", "blink"} /\ a \in Actor
    BY <1>0
  <2>2. RunsNow(a)
    BY <1>10, <2>1, RunningIs DEF AssertFails
  <2> QED BY <1>10, <2>1, <2>2, BlameAssert DEF AssertFails
<1>11. ASSUME NEW k \in Kinds, Trap(k) PROVE Blame'
  <2>1. /\ k \in {"exception", "interrupt"} /\ fault = "none" /\ on /\ fault' = k
        /\ then' = [then EXCEPT !["trap"] = IF k = "exception" THEN "3" ELSE "4"]
        /\ UNCHANGED <<build, heap, on, ready, wake, pc, n, exit>>
    BY <1>11 DEF Trap, Kinds
  <2>2. Struck'
    BY <2>1 DEF Struck
  <2>3. then'["trap"] = (IF k = "exception" THEN "3" ELSE "4")
        /\ \A b \in Actor \ {"trap"} : then'[b] = then[b]
    BY <1>0, <2>1
  <2>4. \A a \in Actor : then[a] \notin {"2", "3", "4"}
    BY <2>1 DEF Blame
  <2>5. \A a \in Actor : pc[a] # "spin"
    BY <2>1, NoSpin
  <2>6. exit = <<>>
    BY <2>5 DEF Blame
  <2> QED BY <1>0, <1>1, <2>1, <2>2, <2>3, <2>4, <2>5, <2>6 DEF Blame
<1> QED BY <1>2, <1>3, <1>4, <1>5, <1>6, <1>7, <1>8, <1>9, <1>10, <1>11 DEF Next, Code, Step

LEMMA BlameStep ==
  ASSUME FTyped, Blame, [Next]_vars PROVE Blame'
<1>1. CASE UNCHANGED vars
  <2>1. UNCHANGED <<build, heap, on, ready, wake, pc, line, then, n, exit, fault>>
    BY <1>1 DEF vars
  <2>2. HasIdle' = HasIdle /\ Created' = Created
    BY <2>1, RoomStays
  <2> QED BY <2>1, <2>2 DEF Blame, RunsNow, Struck
<1>2. CASE ~Halted /\ Next
  BY <1>2, FTypedStep, BlameWhenRunning
<1> QED BY <1>1, <1>2, Stopped

(* Of the code that was stored, only the count is left to tell.            *)
LEMMA BlameMeans ==
  ASSUME FTyped, Blame
  PROVE  /\ Len(exit) <= 1
         /\ exit # <<>> =>
              /\ exit[1] \in {"0", "2", "3", "4"}
              /\ exit[1] = "0" => /\ HasHello /\ n["hello"] = Target
                                  /\ then["hello"] = "0" /\ ~build.fpga
                                  /\ fault # "none" => fault = "assert" /\ ~build.prompt
              /\ exit[1] = "2" => fault = "assert"
              /\ exit[1] = "3" => fault = "exception"
              /\ exit[1] = "4" => fault = "interrupt"
              /\ ~HasIdle => exit[1] = "2"
<1>1. CASE exit = <<>>
  BY <1>1
<1>2. CASE exit # <<>>
  <2>1. PICK a \in Actor : pc[a] = "spin" /\ exit = <<then[a]>> /\ then[a] # "loop"
    BY <1>2 DEF Blame
  <2>2. Len(exit) = 1 /\ exit[1] = then[a]
    BY <2>1
  <2>3. a \in {"main", "trap", "hello", "blink"}
    BY DEF Actor, Task
  <2>4. exit[1] \in {"0", "2", "3", "4"}
    BY <2>1, <2>2 DEF FTyped, Codes
  <2>5. ASSUME exit[1] = "0"
        PROVE  /\ HasHello /\ n["hello"] = Target /\ then["hello"] = "0" /\ ~build.fpga
               /\ fault # "none" => fault = "assert" /\ ~build.prompt
    <3>1. a = "hello" /\ then["hello"] = "0" /\ exit = <<"0">>
      BY <2>1, <2>2, <2>3, <2>5 DEF Blame
    <3>2. ~Struck /\ fault \in {"none"} \cup Kinds /\ "hello" \in Created
      BY <3>1 DEF FTyped, Blame
    <3> QED BY <3>1, <3>2 DEF Blame, Struck, Kinds, Created
  <2>6. /\ exit[1] = "2" => fault = "assert"
        /\ exit[1] = "3" => fault = "exception"
        /\ exit[1] = "4" => fault = "interrupt"
    BY <2>2 DEF Blame
  <2>7. ASSUME ~HasIdle PROVE exit[1] = "2"
    <3>1. ~on
      BY <2>7 DEF Blame
    <3>2. ~Struck /\ exit[1] # "0"
      BY <2>2, <2>3, <3>1 DEF Blame, FTyped
    <3> QED BY <2>4, <2>6, <3>2 DEF Struck
  <2> QED BY <2>2, <2>4, <2>5, <2>6, <2>7
<1> QED BY <1>1, <1>2
-----------------------------------------------------------------------------
(* Room in the FIFO.                                                       *)

(* Who is about to write has seen room, and nobody writes in between,      *)
(* unless a task preempts it: a task that waits is not printing, and where *)
(* lines are printed in no time blink prints only while hello waits.       *)
SeesRoom ==
  /\ \A a \in lost : ~Alone(a)
  /\ \A t \in Task : t \notin ready => pc[t] = "poll"
  /\ build.prompt /\ "hello" \in ready => pc["blink"] \in {"poll", "spin"}
  /\ build.fpga => \A a \in Actor : RunsNow(a) /\ pc[a] = "write" /\ Alone(a) => fifo < Depth

LEMMA SeesRoomStart ==
  ASSUME Init PROVE SeesRoom
BY Toks DEF Init, SeesRoom

LEMMA WriteFits ==
  ASSUME FTyped, SeesRoom, NEW a \in Actor, Write(a)
  PROVE  RunsNow(a) /\ (Alone(a) => ~TxFull)
<1>1. RunsNow(a) /\ pc[a] = "write"
  BY RunningIs DEF Write
<1>2. fifo \in Nat /\ Depth \in Nat
  BY FreertosAssumption DEF FTyped
<1> QED BY <1>1, <1>2 DEF SeesRoom, TxFull

LEMMA SeesRoomWhenRunning ==
  ASSUME FTyped, Blame, SeesRoom, ~Halted, Next, FTyped', Blame' PROVE SeesRoom'
<1>0. /\ "main" \in Actor /\ "trap" \in Actor /\ "hello" \in Actor /\ "blink" \in Actor
      /\ Actor = {"main", "trap", "hello", "blink"} /\ Task = {"hello", "blink"}
      /\ DOMAIN pc = Actor /\ ready \subseteq Task
  BY DEF Actor, Task, FTyped
<1>a. fifo \in Nat /\ Depth \in Nat /\ fifo <= Depth
  <2>1. fifo \in 0 .. Depth /\ Depth \in Nat
    BY FreertosAssumption DEF FTyped
  <2> QED BY <2>1
<1>b. build' = build /\ \A a \in Actor : Alone(a)' = Alone(a)
  BY Constancy DEF Alone
<1>1. ASSUME NEW a \in Actor, Poll(a) PROVE SeesRoom'
  <2>1. /\ RunsNow(a) /\ ~TxFull /\ pc' = [pc EXCEPT ![a] = "write"]
        /\ UNCHANGED <<build, on, ready, lost, fifo, fault>>
    BY <1>1, RunningIs DEF Poll, PollSeesRoom, uart
  <2>2. build.fpga => fifo < Depth
    <3>1. build.fpga => fifo # Depth
      BY <2>1 DEF TxFull
    <3> QED BY <1>a, <3>1
  <2>3. a \in Task => a \in ready /\ (a = "blink" => "hello" \notin ready)
    BY <1>0, <2>1 DEF RunsNow
  <2>4. \A t \in Task : t \notin ready' => pc'[t] = "poll"
    BY <1>0, <2>1, <2>3 DEF SeesRoom
  <2>5. build.prompt' /\ "hello" \in ready' => pc'["blink"] \in {"poll", "spin"}
    BY <1>0, <2>1, <2>3 DEF SeesRoom
  <2>6. \A b \in lost' : ~Alone(b)'
    BY <1>b, <2>1 DEF SeesRoom, FTyped
  <2> QED BY <2>1, <2>2, <2>4, <2>5, <2>6 DEF SeesRoom
<1>2. ASSUME NEW a \in Actor, Write(a) PROVE SeesRoom'
  <2>1. /\ RunsNow(a) /\ (Alone(a) => ~TxFull) /\ pc[a] = "write"
        /\ lost' = (IF TxFull THEN lost \cup {a} ELSE lost)
        /\ pc' = [pc EXCEPT ![a] = IF Tail(line[a]) = <<>> THEN "after" ELSE "poll"]
        /\ UNCHANGED <<build, on, ready, fault>>
    BY <1>2, WriteFits DEF Write
  <2>2. a \in Task => a \in ready /\ (a = "blink" => "hello" \notin ready)
    BY <1>0, <2>1 DEF RunsNow
  <2>3. \A t \in Task : t \notin ready' => pc'[t] = "poll"
    BY <1>0, <2>1, <2>2 DEF SeesRoom
  <2>4. build.prompt' /\ "hello" \in ready' => pc'["blink"] \in {"poll", "spin"}
    BY <1>0, <2>1, <2>2 DEF SeesRoom
  <2>5. ASSUME NEW b \in Actor, RunsNow(b)' PROVE pc'[b] # "write"
    <3>1. RunsNow(b)
      BY <2>1, <2>5 DEF RunsNow, Struck
    <3>2. b = a
      BY <2>1, <3>1, OneRuns
    <3> QED BY <1>0, <2>1, <3>2
  <2>6. \A b \in lost' : ~Alone(b)'
    <3>1. \A b \in lost' : b \in lost \/ (b = a /\ TxFull)
      BY <2>1
    <3>2. lost' \subseteq Actor
      BY DEF FTyped
    <3> QED BY <1>b, <2>1, <3>1, <3>2 DEF SeesRoom
  <2> QED BY <2>3, <2>4, <2>5, <2>6 DEF SeesRoom
<1>3. ASSUME NEW a \in Actor, Exit(a) PROVE SeesRoom'
  <2>1. /\ RunsNow(a) /\ pc' = [pc EXCEPT ![a] = "spin"]
        /\ UNCHANGED <<build, on, ready, lost, fifo, fault>>
    BY <1>3, RunningIs DEF Exit, uart
  <2>2. a \in Task => a \in ready /\ (a = "blink" => "hello" \notin ready)
    BY <1>0, <2>1 DEF RunsNow
  <2>3. \A t \in Task : t \notin ready' => pc'[t] = "poll"
    BY <1>0, <2>1, <2>2 DEF SeesRoom
  <2>4. build.prompt' /\ "hello" \in ready' => pc'["blink"] \in {"poll", "spin"}
    BY <1>0, <2>1, <2>2 DEF SeesRoom
  <2>5. \A b \in Actor : pc'[b] = "write" => pc[b] = "write"
    BY <1>0, <2>1
  <2>6. \A b \in Actor : RunsNow(b)' => RunsNow(b)
    BY <2>1 DEF RunsNow, Struck
  <2>7. \A b \in lost' : ~Alone(b)'
    BY <1>b, <2>1 DEF SeesRoom, FTyped
  <2> QED BY <1>b, <2>1, <2>3, <2>4, <2>5, <2>6, <2>7 DEF SeesRoom
<1>c. ASSUME NEW a \in Actor, Asserts(a), RunsNow(a), fault = "none",
             UNCHANGED <<build, on, ready, lost, fifo>>
      PROVE  SeesRoom'
  <2>1. fault' = "assert" /\ pc' = [pc EXCEPT ![a] = "poll"]
    BY <1>c DEF Asserts
  <2>2. \A b \in Actor : RunsNow(b)' => RunsNow(b)
    BY <1>c, <2>1 DEF RunsNow, Struck
  <2>3. \A b \in Actor : pc'[b] \in {"poll", pc[b]}
    BY <1>0, <2>1
  <2>4. \A b \in lost' : ~Alone(b)'
    BY <1>b, <1>c DEF SeesRoom, FTyped
  <2> QED BY <1>0, <1>b, <1>c, <2>1, <2>2, <2>3, <2>4 DEF SeesRoom
<1>4. ASSUME StartScheduler PROVE SeesRoom'
  <2>1. RunsNow("main") /\ UNCHANGED <<build, lost, fifo>>
    BY <1>0, <1>4, RunningIs DEF StartScheduler, uart
  <2>2. ~on /\ ~Struck /\ fault = "none" /\ ready = {}
    <3>1. ~on /\ then["main"] = "loop"
      BY <1>0, <1>4, <2>1 DEF RunsNow, Struck, FTyped, StartScheduler
    <3> QED BY <3>1 DEF Struck, Blame
  <2>3. pc["hello"] = "poll" /\ pc["blink"] = "poll"
    BY <1>0, <2>2 DEF SeesRoom
  <2>5. CASE HasIdle
    <3>1. on' /\ ~Struck' /\ pc' = pc
      BY <1>4, <2>2, <2>5 DEF StartScheduler, Struck
    <3>2. \A a \in Actor : RunsNow(a)' => a \in Task
      BY <3>1 DEF RunsNow, FTyped
    <3>3. \A b \in lost' : ~Alone(b)'
      BY <1>b, <2>1 DEF SeesRoom, FTyped
    <3> QED BY <1>0, <2>1, <2>3, <3>1, <3>2, <3>3 DEF SeesRoom
  <2>6. CASE ~HasIdle
    BY <1>0, <1>4, <1>c, <2>1, <2>2, <2>6 DEF StartScheduler
  <2> QED BY <2>5, <2>6
<1>5. ASSUME AfterHello PROVE SeesRoom'
  <2>1. /\ RunsNow("hello") /\ pc["hello"] = "after" /\ pc' = [pc EXCEPT !["hello"] = "poll"]
        /\ ready' \in {ready, ready \ {"hello"}}
        /\ UNCHANGED <<build, on, lost, fifo, fault>>
    BY <1>0, <1>5, RunningIs DEF AfterHello, DelayThen, uart
  <2>2. on /\ ~Struck /\ "hello" \in ready
    BY <1>0, <2>1 DEF RunsNow
  <2>3. pc'["hello"] = "poll" /\ pc'["blink"] = pc["blink"]
    BY <1>0, <2>1
  <2>4. ("blink" \notin ready' => "blink" \notin ready) /\ (build.prompt => pc["blink"] \in {"poll", "spin"})
    BY <2>1, <2>2 DEF SeesRoom
  <2>5. \A a \in Actor : RunsNow(a)' => a \in Task
    BY <1>0, <2>1, <2>2 DEF RunsNow, Struck
  <2>6. pc'["blink"] = "write" => ~Alone("blink")'
    BY <1>0, <1>b, <2>3, <2>4 DEF Alone
  <2>7. \A b \in lost' : ~Alone(b)'
    BY <1>b, <2>1 DEF SeesRoom, FTyped
  <2>8. \A a \in Actor : RunsNow(a)' /\ pc'[a] = "write" => ~Alone(a)'
    BY <1>0, <2>3, <2>5, <2>6
  <2>9. \A t \in Task : t \notin ready' => pc'[t] = "poll"
    BY <1>0, <2>1, <2>3, <2>4 DEF SeesRoom
  <2>10. build.prompt' => pc'["blink"] \in {"poll", "spin"}
    BY <2>1, <2>3, <2>4
  <2> QED BY <2>7, <2>8, <2>9, <2>10 DEF SeesRoom
<1>6. ASSUME AfterBlink PROVE SeesRoom'
  <2>1. /\ RunsNow("blink") /\ pc' = [pc EXCEPT !["blink"] = "poll"]
        /\ ready' = ready \ {"blink"}
        /\ UNCHANGED <<build, on, lost, fifo, fault>>
    BY <1>0, <1>6, RunningIs DEF AfterBlink, DelayThen, BlinkPeriods, uart
  <2>2. on /\ ~Struck /\ "hello" \notin ready
    BY <1>0, <2>1 DEF RunsNow
  <2>3. pc'["blink"] = "poll" /\ pc'["hello"] = pc["hello"] /\ ready' = {}
    BY <1>0, <2>1, <2>2
  <2>4. pc["hello"] = "poll"
    BY <1>0, <2>2 DEF SeesRoom
  <2>5. \A a \in Actor : ~RunsNow(a)'
    BY <2>1, <2>2, <2>3 DEF RunsNow, Struck
  <2>6. \A b \in lost' : ~Alone(b)'
    BY <1>b, <2>1 DEF SeesRoom, FTyped
  <2> QED BY <1>0, <2>1, <2>3, <2>4, <2>5, <2>6 DEF SeesRoom
<1>7. ASSUME Drain PROVE SeesRoom'
  <2>1. fifo' < Depth /\ UNCHANGED <<build, on, ready, pc, lost, fault>>
    <3>1. fifo' = fifo - 1 /\ UNCHANGED <<build, on, ready, pc, lost, fault>>
      BY <1>7 DEF Drain
    <3> QED BY <1>a, <3>1
  <2>2. \A b \in lost' : ~Alone(b)'
    BY <1>b, <2>1 DEF SeesRoom, FTyped
  <2> QED BY <2>1, <2>2 DEF SeesRoom
<1>8. ASSUME Tick PROVE SeesRoom'
  <2>1. /\ MayTick /\ ready \subseteq ready' /\ UNCHANGED <<build, on, pc, lost, fifo, fault>>
    BY <1>8 DEF Tick
  <2>2. on /\ ~Struck /\ ~Busy("hello") /\ (build.prompt => ~Busy("blink"))
    BY <2>1 DEF MayTick, Struck
  <2>3. pc["hello"] \in {"poll", "spin"} /\ (build.prompt => pc["blink"] \in {"poll", "spin"})
    BY <1>0, <2>2 DEF SeesRoom, Busy
  <2>4. \A a \in Actor : RunsNow(a)' => a \in Task
    BY <1>0, <2>1, <2>2 DEF RunsNow, Struck, FTyped
  <2>5. \A t \in Task : t \notin ready' => pc'[t] = "poll"
    BY <2>1 DEF SeesRoom
  <2>6. \A a \in Actor : RunsNow(a)' /\ Alone(a)' => pc'[a] # "write"
    <3>1. \A a \in Task : Alone(a) => pc'[a] \in {"poll", "spin"}
      BY <1>0, <2>1, <2>3 DEF Alone
    <3> QED BY <1>0, <1>b, <2>4, <3>1
  <2>7. \A b \in lost' : ~Alone(b)'
    BY <1>b, <2>1 DEF SeesRoom, FTyped
  <2> QED BY <2>1, <2>3, <2>5, <2>6, <2>7 DEF SeesRoom
<1>9. ASSUME NEW a \in Task \cup {"main"}, AssertFails(a) PROVE SeesRoom'
  <2>1. a \in Actor
    BY <1>0
  <2>2. RunsNow(a)
    BY <1>9, <2>1, RunningIs DEF AssertFails
  <2> QED BY <1>9, <1>c, <2>1, <2>2 DEF AssertFails, uart
<1>10. ASSUME NEW k \in Kinds, Trap(k) PROVE SeesRoom'
  <2>1. /\ k \in {"exception", "interrupt"} /\ fault = "none" /\ fault' = k
        /\ UNCHANGED <<build, ready, pc, lost, fifo>>
    BY <1>10 DEF Trap, Kinds, uart
  <2>2. pc["trap"] = "poll" /\ Struck'
    BY <2>1 DEF Blame, Struck
  <2>3. \A a \in Actor : RunsNow(a)' => a = "trap"
    BY <2>2 DEF RunsNow
  <2>4. \A b \in lost' : ~Alone(b)'
    BY <1>b, <2>1 DEF SeesRoom, FTyped
  <2> QED BY <2>1, <2>2, <2>3, <2>4 DEF SeesRoom
<1> QED BY <1>1, <1>2, <1>3, <1>4, <1>5, <1>6, <1>7, <1>8, <1>9, <1>10 DEF Next, Code, Step

LEMMA SeesRoomStep ==
  ASSUME FTyped, Blame, SeesRoom, [Next]_vars PROVE SeesRoom'
<1>1. CASE UNCHANGED vars
  <2>1. UNCHANGED <<build, on, ready, pc, lost, fifo, fault>>
    BY <1>1 DEF vars, uart
  <2> QED BY <2>1 DEF SeesRoom, RunsNow, Struck, Alone
<1>2. CASE ~Halted /\ Next
  BY <1>2, FTypedStep, BlameStep, SeesRoomWhenRunning
<1> QED BY <1>1, <1>2, Stopped
-----------------------------------------------------------------------------
(* Lines reach the UART whole and in order.                                *)

(* What an actor prints is its own.                                        *)
OwnWords == \A a \in Actor : \A i \in 1 .. Len(line[a]) : line[a][i].by = a

LEMMA LineShaped ==
  ASSUME NEW t \in Task, NEW v \in 0 .. Wrap - 1
  PROVE  LineShape(t, v, Line(t, v)) /\ Fits(Line(t, v), t, v) /\ v \in 0 .. Wrap
<1>1. v \in 0 .. Wrap
  BY FreertosAssumption
<1> QED BY <1>1, LineIs

LEMMA OwnWordsStart ==
  ASSUME Init PROVE OwnWords
<1> SUFFICES ASSUME NEW a \in Actor PROVE \A i \in 1 .. Len(line[a]) : line[a][i].by = a
  BY DEF OwnWords
<1>1. line[a] = IF a = "main" THEN <<Tok("main", "banner")>>
                ELSE IF a \in Task THEN Line(a, 0) ELSE <<>>
  BY DEF Init
<1>2. CASE a = "main"
  BY <1>1, <1>2 DEF Tok
<1>3. CASE a # "main" /\ a \in Task
  <2>1. \A v \in 0 .. Wrap - 1 : v = 0 => \A i \in 1 .. Len(Line(a, v)) : Line(a, v)[i].by = a
    BY <1>3, LineShaped DEF LineShape
  <2>2. 0 \in 0 .. Wrap - 1
    BY FreertosAssumption
  <2>3. \A i \in 1 .. Len(Line(a, 0)) : Line(a, 0)[i].by = a
    BY <2>1, <2>2, Zenon
  <2> QED BY <1>1, <1>3, <2>3
<1>4. CASE a # "main" /\ a \notin Task
  BY <1>1, <1>4
<1> QED BY <1>2, <1>3, <1>4

LEMMA OwnLine ==
  ASSUME FTyped, OwnWords, NEW a \in Actor, NEW s, line' = [line EXCEPT ![a] = s],
         \A i \in 1 .. Len(s) : s[i].by = a
  PROVE  OwnWords'
BY DEF OwnWords, FTyped

LEMMA OwnWordsStep ==
  ASSUME FTyped, OwnWords, [Next]_vars, FTyped' PROVE OwnWords'
<1>1. ASSUME NEW a \in Actor, Write(a) PROVE OwnWords'
  <2>1. line' = [line EXCEPT ![a] = Tail(line[a])] /\ line[a] \in Seq(Token) /\ line[a] # <<>>
    BY <1>1, WriteTyped DEF Write
  <2>2. \A i \in 1 .. Len(Tail(line[a])) : Tail(line[a])[i].by = a
    <3> DEFINE s == line[a]
    <3>1. \A i \in 1 .. Len(s) : s[i].by = a
      BY DEF OwnWords
    <3>2. s \in Seq(Token) /\ s # <<>>
      BY <2>1
    <3> HIDE DEF s
    <3>3. \A i \in 1 .. Len(Tail(s)) : Tail(s)[i] = s[i + 1] /\ i + 1 \in 1 .. Len(s)
      BY <3>2
    <3> QED BY <3>1, <3>3 DEF s
  <2> QED BY <2>1, <2>2, OwnLine
<1>2. ASSUME NEW a \in Actor, NEW w, line' = [line EXCEPT ![a] = <<Tok(a, w)>>] PROVE OwnWords'
  <2> DEFINE s == <<Tok(a, w)>>
  <2>1. Len(s) = 1 /\ s[1].by = a
    BY DEF Tok
  <2> HIDE DEF s
  <2>2. \A i \in 1 .. Len(s) : s[i].by = a
    BY <2>1
  <2>3. line' = [line EXCEPT ![a] = s]
    BY <1>2 DEF s
  <2> QED BY <2>2, <2>3, OwnLine
<1>3. ASSUME NEW t \in Task, NEW d, DelayThen(t, d) PROVE OwnWords'
  <2>1. n'[t] \in 0 .. Wrap - 1 /\ t \in Actor
    BY Toks DEF FTyped
  <2>2. \A i \in 1 .. Len(Line(t, n'[t])) : Line(t, n'[t])[i].by = t
    BY <2>1, LineShaped DEF LineShape
  <2> QED BY <1>3, <2>1, <2>2, OwnLine DEF DelayThen
<1>4. ASSUME line' = line PROVE OwnWords'
  BY <1>4 DEF OwnWords
<1>5. "main" \in Actor /\ "hello" \in Actor /\ "trap" \in Actor /\ "hello" \in Task /\ "blink" \in Task
      /\ Task \subseteq Actor
  BY Toks
<1>6. ASSUME StartScheduler PROVE OwnWords'
  BY <1>2, <1>4, <1>5, <1>6 DEF StartScheduler, Asserts
<1>7. ASSUME AfterHello PROVE OwnWords'
  BY <1>2, <1>3, <1>5, <1>7 DEF AfterHello
<1>8. ASSUME AfterBlink PROVE OwnWords'
  BY <1>3, <1>5, <1>8 DEF AfterBlink
<1>9. ASSUME NEW a \in Task \cup {"main"}, AssertFails(a) PROVE OwnWords'
  BY <1>2, <1>5, <1>9 DEF AssertFails, Asserts
<1>10. ASSUME NEW k \in Kinds, Trap(k) PROVE OwnWords'
  BY <1>2, <1>5, <1>10 DEF Trap
<1>11. ASSUME NEW a \in Actor, Poll(a) \/ Exit(a) PROVE line' = line
  BY <1>11 DEF Poll, Exit
<1>12. Drain \/ Tick \/ UNCHANGED vars => line' = line
  BY DEF Drain, Tick, vars
<1> QED BY <1>1, <1>4, <1>6, <1>7, <1>8, <1>9, <1>10, <1>11, <1>12 DEF Next, Code, Step

(* k tokens of t's line have reached the UART, the others are still to be  *)
(* printed; before the first, the line before it stands there.  A task is  *)
(* in a line only while it has the processor.                              *)
Printed(t, k) ==
  /\ line[t] = Rest(Line(t, n[t]), k)
  /\ pc[t] \in {"poll", "write", "after"}
  /\ pc[t] = "after" <=> k = Len(Line(t, n[t]))
  /\ k > 0 => cur[t] = Cut(Line(t, n[t]), k) /\ told[t] = n[t]
  /\ k = 0 => \/ cur[t] = <<>> /\ told[t] = 0 /\ n[t] = 0
              \/ cur[t] = Line(t, told[t]) /\ n[t] = (told[t] + 1) % Wrap
  /\ k > 0 \/ pc[t] = "write" => t \in ready /\ (t = "blink" => "hello" \notin ready)

Midway(t) ==
  then[t] = "loop" /\ \E k \in 0 .. Len(Line(t, n[t])) : Printed(t, k)

(* hello has counted to its end.                                           *)
Ended(t) ==
  /\ then[t] # "loop" /\ t = "hello" /\ t \in ready
  /\ cur[t] = Line(t, told[t])
  /\ \A i \in 1 .. Len(line[t]) : line[t][i].what # "open"

Printing ==
  fault = "none" => \A t \in Task : Alone(t) => Midway(t) \/ Ended(t)

LEMMA PrintingStart ==
  ASSUME Init PROVE Printing
<1> SUFFICES ASSUME NEW t \in Task PROVE Midway(t)
  BY DEF Printing
<1>1. /\ t \in Actor /\ t # "main"
      /\ line[t] = Line(t, n[t]) /\ n[t] = 0 /\ told[t] = 0 /\ cur[t] = <<>>
      /\ pc[t] = "poll" /\ then[t] = "loop"
  BY Toks DEF Init
<1>2. n[t] \in 0 .. Wrap - 1
  BY <1>1, FreertosAssumption
<1> DEFINE L == Line(t, n[t])
<1>3. LineShape(t, n[t], L)
  BY <1>2, LineShaped
<1>4. L \in Seq(Token) /\ Len(L) >= 3 /\ Len(L) \in Nat
  BY <1>3 DEF LineShape
<1>5. Rest(L, 0) = L
  BY <1>4, CutAndRestEnds
<1>6. Printed(t, 0)
  BY <1>1, <1>4, <1>5 DEF Printed
<1>7. 0 \in 0 .. Len(L)
  BY <1>4
<1> QED BY <1>1, <1>6, <1>7 DEF Midway

(* The line a task is in.                                                  *)
LEMMA TheLine ==
  ASSUME FTyped, NEW t \in Task
  PROVE  /\ LineShape(t, n[t], Line(t, n[t])) /\ Line(t, n[t]) \in Seq(Token)
         /\ Len(Line(t, n[t])) >= 3 /\ Len(Line(t, n[t])) \in Nat
         /\ Fits(Line(t, n[t]), t, n[t]) /\ n[t] \in 0 .. Wrap
         /\ n[t] \in 0 .. Wrap - 1 /\ told[t] \in 0 .. Wrap - 1
<1>1. n[t] \in 0 .. Wrap - 1 /\ told[t] \in 0 .. Wrap - 1
  BY DEF FTyped
<1>2. LineShape(t, n[t], Line(t, n[t])) /\ Fits(Line(t, n[t]), t, n[t]) /\ n[t] \in 0 .. Wrap
  BY <1>1, LineShaped
<1> QED BY <1>1, <1>2 DEF LineShape

LEMMA LineComplete ==
  ASSUME NEW t \in Task, NEW v \in 0 .. Wrap - 1
  PROVE  Complete(Line(t, v), t) /\ Line(t, v) # <<>>
<1> DEFINE s == Line(t, v)
<1>1. LineShape(t, v, s)
  BY LineShaped
<1> HIDE DEF s
<1>2. s \in Seq(Token) /\ Len(s) >= 3 /\ s[Len(s)] = Tok(t, "close")
  BY <1>1 DEF LineShape
<1>3. s # <<>>
  BY <1>2
<1> QED BY <1>2, <1>3 DEF Complete, Last, s

(* The next token of a line is written.                                    *)
LEMMA WriteGoesOn ==
  ASSUME FTyped, SeesRoom, FTyped', fault = "none", NEW t \in Task, Alone(t), Write(t),
         NEW k \in 0 .. Len(Line(t, n[t])), Printed(t, k)
  PROVE  /\ k < Len(Line(t, n[t])) /\ k + 1 \in 0 .. Len(Line(t, n[t]))
         /\ Head(line[t]).what = "close" <=> k + 1 = Len(Line(t, n[t]))
         /\ n' = n /\ Printed(t, k + 1)'
<1> DEFINE L == Line(t, n[t])
           tok == Head(line[t])
<1>1. LineShape(t, n[t], L) /\ L \in Seq(Token) /\ Len(L) >= 3 /\ Len(L) \in Nat /\ t \in Actor
  BY TheLine, Toks
<1>2. /\ RunsNow(t) /\ ~TxFull /\ pc[t] = "write" /\ UNCHANGED <<ready, n>>
      /\ pc' = [pc EXCEPT ![t] = IF Tail(line[t]) = <<>> THEN "after" ELSE "poll"]
      /\ line' = [line EXCEPT ![t] = Tail(line[t])]
  BY <1>1, WriteFits DEF Write
<1>3. cur'[t] = Seen(cur[t], t, tok)
  BY <1>2 DEF Write
<1>4. told'[t] = IF tok = Tok(t, "open") /\ Complete(cur[t], t) THEN (told[t] + 1) % Wrap ELSE told[t]
  BY <1>2 DEF Write
<1>a. ~Struck
  BY DEF Struck
<1>5. line[t] = Rest(L, k)
  BY DEF Printed
<1>6. k # Len(L)
  BY <1>2 DEF Printed
<1> HIDE DEF L
<1>7. k \in 0 .. Len(L) /\ k < Len(L) /\ k \in Nat /\ k + 1 \in 0 .. Len(L) /\ k + 1 \in 1 .. Len(L)
  <2>1. k \in 0 .. Len(L)
    BY DEF L
  <2> QED BY <1>1, <1>6, <2>1
<1>8. /\ tok = L[k + 1] /\ Tail(line[t]) = Rest(L, k + 1)
      /\ Cut(L, k + 1) = IF k = 0 THEN <<L[k + 1]>> ELSE Append(Cut(L, k), L[k + 1])
  BY <1>1, <1>5, <1>7, CutAndRestMove
<1> HIDE DEF tok
<1>9. tok.what = (IF k + 1 = 1 THEN "open" ELSE IF k + 1 = Len(L) THEN "close" ELSE "digit")
      /\ (k = 0 => tok = Tok(t, "open"))
  BY <1>1, <1>7, <1>8 DEF LineShape
<1>10. tok.what = "close" <=> k + 1 = Len(L)
  BY <1>1, <1>7, <1>9
<1>11. t \in ready /\ (t = "blink" => "hello" \notin ready)
  BY <1>2, <1>a, Toks DEF RunsNow
<1>12. line'[t] = Rest(L, k + 1) /\ pc'[t] = IF Rest(L, k + 1) = <<>> THEN "after" ELSE "poll"
  BY <1>1, <1>2, <1>8 DEF FTyped
<1>13. Rest(L, k + 1) = <<>> <=> k + 1 = Len(L)
  <2>1. Rest(L, k + 1) \in Seq(Token) /\ Len(Rest(L, k + 1)) = Len(L) - (k + 1)
    BY <1>1, <1>7, RestIs
  <2> QED BY <1>1, <1>7, <2>1
<1>14. cur'[t] = Cut(L, k + 1) /\ told'[t] = n[t]
  <2>1. CASE k = 0
    <3>1. tok = Tok(t, "open") /\ Cut(L, k + 1) = <<tok>>
      BY <1>8, <1>9, <2>1
    <3>2. CASE cur[t] = <<>> /\ told[t] = 0 /\ n[t] = 0
      <4>1. ~Complete(cur[t], t)
        BY <3>2, NothingFits
      <4> QED BY <1>3, <1>4, <3>1, <3>2, <4>1 DEF Seen
    <3>3. CASE cur[t] = Line(t, told[t]) /\ n[t] = (told[t] + 1) % Wrap
      <4>1. Complete(cur[t], t)
        BY <3>3, TheLine, LineComplete
      <4> QED BY <1>3, <1>4, <3>1, <3>3, <4>1 DEF Seen
    <3> QED BY <2>1, <3>2, <3>3 DEF Printed
  <2>2. CASE k # 0
    <3>1. k > 0 /\ k \in 0 .. Len(L) - 1
      BY <1>1, <1>7, <2>2
    <3>2. cur[t] = Cut(L, k) /\ told[t] = n[t]
      BY <3>1 DEF Printed, L
    <3>3. ~Complete(Cut(L, k), t)
      <4>1. n[t] \in 0 .. Wrap
        BY TheLine
      <4> QED BY <3>1, <4>1, PartFits DEF L
    <3>4. Cut(L, k) # <<>>
      <4>1. Len(Cut(L, k)) = k
        BY <1>1, <1>7, CutIs
      <4>2. Len(<<>>) = 0
        OBVIOUS
      <4> QED BY <2>2, <4>1, <4>2
    <3>5. Seen(cur[t], t, tok) = Append(Cut(L, k), L[k + 1])
      BY <1>8, <3>2, <3>3, <3>4 DEF Seen
    <3> QED BY <1>3, <1>4, <1>8, <2>2, <3>2, <3>3, <3>5
  <2> QED BY <2>1, <2>2
<1>15. k + 1 > 0 /\ k + 1 # 0
  BY <1>7
<1>16. Line(t, n'[t]) = L /\ n'[t] = n[t] /\ ready' = ready
  BY <1>2 DEF L
<1>17. Printed(t, k + 1)'
  BY <1>11, <1>12, <1>13, <1>14, <1>15, <1>16 DEF Printed
<1> QED BY <1>2, <1>7, <1>10, <1>17 DEF L, tok

(* What another actor writes goes past a task's line.                      *)
LEMMA OtherWrites ==
  ASSUME FTyped, OwnWords, SeesRoom, fault = "none", NEW t \in Task, NEW a \in Actor, a # t,
         Write(a),
         NEW k \in 0 .. Len(Line(t, n[t])), Printed(t, k), ready # {} => on
  PROVE  Printed(t, k)' /\ n' = n
<1> DEFINE tok == Head(line[a])
<1>1. /\ RunsNow(a) /\ UNCHANGED <<ready, n>>
      /\ pc' = [pc EXCEPT ![a] = IF Tail(line[a]) = <<>> THEN "after" ELSE "poll"]
      /\ line' = [line EXCEPT ![a] = Tail(line[a])]
  BY WriteFits DEF Write
<1>2. ~Struck
  BY DEF Struck
<1>3. tok.by # t
  <2>1. line[a] \in Seq(Token) /\ line[a] # <<>>
    BY WriteTyped
  <2>2. tok = line[a][1] /\ 1 \in 1 .. Len(line[a])
    BY <2>1
  <2> QED BY <2>2 DEF OwnWords
<1>4. tok # Tok(t, "open")
  BY <1>3 DEF Tok
<1>5. cur'[t] \in {cur[t], Seen(cur[t], t, tok)} /\ told'[t] = told[t]
  BY <1>4 DEF Write
<1>6. line'[t] = line[t] /\ pc'[t] = pc[t] /\ n'[t] = n[t]
  BY <1>1, Toks DEF FTyped
<1>7. k = 0
  <2>1. ASSUME k > 0 PROVE FALSE
    <3>1. t \in ready /\ (t = "blink" => "hello" \notin ready)
      BY <2>1 DEF Printed
    <3>2. on
      BY <3>1
    <3>3. RunsNow(t)
      BY <1>2, <3>1, <3>2 DEF RunsNow
    <3> QED BY <1>1, <3>3, OneRuns, Toks
  <2>2. k \in Nat
    BY TheLine
  <2> QED BY <2>1, <2>2
<1>8. cur[t] = <<>> \/ Complete(cur[t], t)
  BY <1>7, TheLine, LineComplete DEF Printed
<1>9. cur'[t] = cur[t]
  BY <1>4, <1>5, <1>8 DEF Seen
<1>10. ready' = ready /\ Line(t, n'[t]) = Line(t, n[t]) /\ told'[t] = told[t]
  BY <1>1, <1>5, <1>6
<1> QED BY <1>1, <1>6, <1>9, <1>10 DEF Printed

(* A task whose line is out counts on and waits.                           *)
LEMMA NextLine ==
  ASSUME FTyped, FTyped', NEW t \in Task, NEW k \in 0 .. Len(Line(t, n[t])), Printed(t, k),
         pc[t] = "after", n' = [n EXCEPT ![t] = Count(@)], UNCHANGED <<cur, told>>
  PROVE  /\ cur'[t] = Line(t, told'[t]) /\ n'[t] = (told'[t] + 1) % Wrap
         /\ pc' = [pc EXCEPT ![t] = "poll"] /\ line' = [line EXCEPT ![t] = Line(t, n'[t])]
              => Printed(t, 0)'
<1> DEFINE L == Line(t, n[t])
<1>1. L \in Seq(Token) /\ Len(L) >= 3 /\ t \in Actor
  BY TheLine, Toks
<1>2. k = Len(L)
  BY DEF Printed
<1>3. cur[t] = Cut(L, k) /\ told[t] = n[t]
  <2>1. k > 0
    BY <1>1, <1>2
  <2> QED BY <2>1 DEF Printed
<1>4. cur[t] = L
  BY <1>1, <1>2, <1>3, CutAndRestEnds
<1>5. cur'[t] = Line(t, told'[t]) /\ n'[t] = (told'[t] + 1) % Wrap
  BY <1>3, <1>4 DEF FTyped, Count
<1>6. ASSUME pc' = [pc EXCEPT ![t] = "poll"], line' = [line EXCEPT ![t] = Line(t, n'[t])]
      PROVE  Printed(t, 0)'
  <2> DEFINE M == Line(t, n'[t])
  <2>1. n'[t] \in 0 .. Wrap - 1
    BY DEF FTyped
  <2>2. M \in Seq(Token) /\ Len(M) >= 3 /\ Len(M) \in Nat
    BY <2>1, LineShaped DEF LineShape
  <2>3. Rest(M, 0) = M
    BY <2>2, CutAndRestEnds
  <2>4. line'[t] = M /\ pc'[t] = "poll"
    BY <1>1, <1>6 DEF FTyped
  <2>5. 0 # Len(M)
    BY <2>2
  <2> QED BY <1>5, <2>3, <2>4, <2>5 DEF Printed
<1> QED BY <1>5, <1>6
LEMMA PrintingWhenRunning ==
  ASSUME FTyped, Blame, SeesRoom, OwnWords, Printing, ~Halted, Next, FTyped' PROVE Printing'
<1> SUFFICES ASSUME fault' = "none", NEW t \in Task, Alone(t)'
             PROVE  (Midway(t) \/ Ended(t))'
  BY DEF Printing
<1>0. /\ t \in {"hello", "blink"} /\ t \in Actor /\ "hello" \in Task /\ "blink" \in Task
      /\ "hello" \in Actor /\ "blink" \in Actor /\ "main" \in Actor /\ t # "main" /\ t # "trap"
      /\ DOMAIN pc = Actor /\ DOMAIN then = Actor /\ DOMAIN line = Actor /\ DOMAIN n = Task
  BY Toks DEF FTyped
<1>1. fault = "none"
  BY DEF Next, Code, Step, Poll, Write, Exit, StartScheduler, AfterHello, AfterBlink, Drain, Tick,
         AssertFails, Asserts, Trap, Kinds
<1>2. ~Struck /\ ~Struck' /\ build' = build /\ Alone(t)
  BY <1>1, Constancy DEF Struck, Alone
<1>3. ready # {} => on
  BY DEF Blame
<1>4. Midway(t) \/ Ended(t)
  BY <1>1, <1>2 DEF Printing
<1>5. RunsNow(t) <=> t \in ready /\ (t = "blink" => "hello" \notin ready)
  BY <1>0, <1>2, <1>3 DEF RunsNow
<1>6. ASSUME Midway(t), ready' = ready \/ ready = {},
             UNCHANGED <<then, n, cur, told>>, line'[t] = line[t], pc'[t] = pc[t]
      PROVE  Midway(t)'
  <2>1. PICK k \in 0 .. Len(Line(t, n[t])) : Printed(t, k)
    BY <1>6 DEF Midway
  <2>2. Printed(t, k)'
    BY <1>6, <2>1 DEF Printed
  <2> QED BY <1>6, <2>1, <2>2 DEF Midway
<1>7. ASSUME Ended(t), UNCHANGED <<ready, then, cur, told>>, line'[t] = line[t]
      PROVE  Ended(t)'
  BY <1>7 DEF Ended
<1>8. ASSUME NEW a \in Actor, Poll(a) PROVE (Midway(t) \/ Ended(t))'
  <2>1. RunsNow(a) /\ pc[a] = "poll" /\ pc' = [pc EXCEPT ![a] = "write"]
        /\ UNCHANGED <<ready, line, then, n, cur, told>>
    BY <1>8, RunningIs DEF Poll, uart
  <2>2. CASE Midway(t) /\ a = t
    <3>1. PICK k \in 0 .. Len(Line(t, n[t])) : Printed(t, k)
      BY <2>2 DEF Midway
    <3>2. pc'[t] = "write" /\ pc[t] = "poll"
      BY <1>0, <2>1, <2>2
    <3>3. Printed(t, k)'
      BY <1>5, <2>1, <2>2, <3>1, <3>2 DEF Printed
    <3> QED BY <2>1, <2>2, <3>1, <3>3 DEF Midway
  <2>3. CASE Midway(t) /\ a # t
    BY <1>0, <1>6, <2>1, <2>3
  <2>4. CASE Ended(t)
    BY <1>7, <2>1, <2>4
  <2> QED BY <1>4, <2>2, <2>3, <2>4
<1>9. ASSUME NEW a \in Actor, Write(a) PROVE (Midway(t) \/ Ended(t))'
  <2>1. then' = then /\ ready' = ready
    BY <1>9 DEF Write
  <2>2. CASE Midway(t)
    <3>1. PICK k \in 0 .. Len(Line(t, n[t])) : Printed(t, k)
      BY <2>2 DEF Midway
    <3>2. CASE a = t
      <4>1. k + 1 \in 0 .. Len(Line(t, n[t])) /\ n' = n /\ Printed(t, k + 1)'
        BY <1>1, <1>2, <1>9, <3>1, <3>2, WriteGoesOn
      <4> QED BY <2>1, <2>2, <4>1 DEF Midway
    <3>3. CASE a # t
      <4>1. Printed(t, k)' /\ n' = n
        BY <1>1, <1>3, <1>9, <3>1, <3>3, OtherWrites
      <4> QED BY <2>1, <2>2, <3>1, <4>1 DEF Midway
    <3> QED BY <3>2, <3>3
  <2>3. CASE Ended(t)
    <3>1. t = "hello" /\ t \in ready
      BY <2>3 DEF Ended
    <3>2. RunsNow(t) /\ RunsNow(a)
      BY <1>5, <1>9, <3>1, WriteFits
    <3>3. a = t
      BY <1>0, <3>2, OneRuns
    <3>4. Alone(t) /\ ~TxFull /\ line[t] \in Seq(Token) /\ line[t] # <<>>
      BY <1>2, <1>9, <3>3, WriteFits, WriteTyped
    <3> DEFINE s == line[t]
    <3>5. \A i \in 1 .. Len(s) : s[i].what # "open"
      BY <2>3 DEF Ended
    <3>6. s \in Seq(Token) /\ s # <<>>
      BY <3>4
    <3>7. line'[t] = Tail(s)
      BY <1>0, <1>9, <3>3 DEF Write
    <3>8. cur'[t] = Seen(cur[t], t, Head(s))
          /\ (Head(s) # Tok(t, "open") => told'[t] = told[t])
      BY <1>1, <1>9, <3>3, <3>4 DEF Write
    <3> HIDE DEF s
    <3>9. Head(s).what # "open" /\ \A i \in 1 .. Len(Tail(s)) : Tail(s)[i].what # "open"
      <4>1. Head(s) = s[1] /\ 1 \in 1 .. Len(s)
        BY <3>6
      <4>2. \A i \in 1 .. Len(Tail(s)) : Tail(s)[i] = s[i + 1] /\ i + 1 \in 1 .. Len(s)
        BY <3>6
      <4> QED BY <3>5, <4>1, <4>2
    <3>10. Head(s) # Tok(t, "open")
      BY <3>9 DEF Tok
    <3>11. Complete(cur[t], t)
      BY <2>3, TheLine, LineComplete DEF Ended
    <3>12. cur'[t] = cur[t] /\ told'[t] = told[t]
      BY <3>8, <3>10, <3>11 DEF Seen
    <3> QED BY <2>1, <2>3, <3>7, <3>9, <3>12 DEF Ended
  <2> QED BY <1>4, <2>2, <2>3
<1>10. ASSUME NEW a \in Actor, Exit(a) PROVE (Midway(t) \/ Ended(t))'
  <2>1. then[a] # "loop" /\ pc' = [pc EXCEPT ![a] = "spin"]
        /\ UNCHANGED <<ready, line, then, n, cur, told>>
    BY <1>10 DEF Exit, uart
  <2>2. CASE Midway(t)
    <3>1. a # t
      BY <2>1, <2>2 DEF Midway
    <3> QED BY <1>0, <1>6, <2>1, <2>2, <3>1
  <2>3. CASE Ended(t)
    BY <1>7, <2>1, <2>3
  <2> QED BY <1>4, <2>2, <2>3
<1>11. ASSUME StartScheduler PROVE (Midway(t) \/ Ended(t))'
  <2>1. RunsNow("main") /\ UNCHANGED <<n, cur, told>>
    BY <1>0, <1>11, RunningIs DEF StartScheduler, uart
  <2>2. ready = {}
    <3>1. ~on
      BY <1>2, <2>1, Toks DEF RunsNow, FTyped
    <3> QED BY <3>1 DEF Blame
  <2>3. then'[t] = then[t] /\ line'[t] = line[t] /\ pc'[t] = pc[t]
    BY <1>0, <1>11 DEF StartScheduler, Asserts
  <2>4. Midway(t)
    BY <1>4, <2>2 DEF Ended
  <2>5. PICK k \in 0 .. Len(Line(t, n[t])) : Printed(t, k)
    BY <2>4 DEF Midway
  <2>6. Printed(t, k)'
    BY <2>1, <2>2, <2>3, <2>5 DEF Printed
  <2> QED BY <2>1, <2>3, <2>4, <2>5, <2>6 DEF Midway
<1>12. ASSUME AfterHello PROVE (Midway(t) \/ Ended(t))'
  <2>1. /\ RunsNow("hello") /\ pc["hello"] = "after" /\ then["hello"] = "loop"
        /\ n' = [n EXCEPT !["hello"] = Count(@)]
        /\ UNCHANGED <<on, cur, told>>
    BY <1>0, <1>12, RunningIs DEF AfterHello, uart
  <2>2. "hello" \in ready
    BY <1>0, <1>2, <2>1 DEF RunsNow
  <2>3. pc' = [pc EXCEPT !["hello"] = "poll"]
        /\ \/ /\ line' = [line EXCEPT !["hello"] = Line("hello", n'["hello"])] /\ then' = then
              /\ ready' = ready \ {"hello"}
           \/ /\ line' = [line EXCEPT !["hello"] = <<Tok("hello", "PASS")>>]
              /\ then' = [then EXCEPT !["hello"] = "0"] /\ ready' = ready
    BY <1>12 DEF AfterHello, DelayThen, HelloPeriods
  <2>4. CASE t = "hello"
    <3>1. Midway(t)
      BY <1>4, <2>1, <2>4 DEF Ended
    <3>2. PICK k \in 0 .. Len(Line(t, n[t])) : Printed(t, k)
      BY <3>1 DEF Midway
    <3>3. /\ cur'[t] = Line(t, told'[t])
          /\ pc' = [pc EXCEPT ![t] = "poll"] /\ line' = [line EXCEPT ![t] = Line(t, n'[t])]
              => Printed(t, 0)'
      BY <2>1, <2>4, <3>2, NextLine
    <3>4. CASE line' = [line EXCEPT !["hello"] = Line("hello", n'["hello"])] /\ then' = then
      <4>1. Printed(t, 0)'
        BY <2>3, <2>4, <3>3, <3>4
      <4>2. 0 \in 0 .. Len(Line(t, n[t]))'
        <5>1. n'[t] \in 0 .. Wrap - 1
          BY DEF FTyped
        <5>2. Len(Line(t, n'[t])) >= 3 /\ Line(t, n'[t]) \in Seq(Token)
          BY <5>1, LineShaped DEF LineShape
        <5> QED BY <5>2
      <4> QED BY <2>1, <2>4, <3>4, <4>1, <4>2 DEF Midway
    <3>5. CASE /\ line' = [line EXCEPT !["hello"] = <<Tok("hello", "PASS")>>]
               /\ then' = [then EXCEPT !["hello"] = "0"] /\ ready' = ready
      <4>1. line'[t] = <<Tok("hello", "PASS")>> /\ then'[t] = "0"
        BY <1>0, <2>4, <3>5
      <4>2. \A i \in 1 .. Len(line'[t]) : line'[t][i].what # "open"
        BY <4>1 DEF Tok
      <4> QED BY <2>2, <2>4, <3>3, <3>5, <4>1, <4>2 DEF Ended
    <3> QED BY <2>3, <3>4, <3>5
  <2>5. CASE t = "blink"
    <3>1. Midway(t)
      BY <1>4, <2>5 DEF Ended
    <3>2. PICK k \in 0 .. Len(Line(t, n[t])) : Printed(t, k)
      BY <3>1 DEF Midway
    <3>3. then'[t] = then[t] /\ line'[t] = line[t] /\ pc'[t] = pc[t] /\ n'[t] = n[t]
      BY <1>0, <2>1, <2>3, <2>5
    <3>4. ~(k > 0 \/ pc[t] = "write")
      BY <2>2, <2>5, <3>2 DEF Printed
    <3>5. Printed(t, k)'
      BY <2>1, <3>2, <3>3, <3>4 DEF Printed
    <3> QED BY <3>1, <3>2, <3>3, <3>5 DEF Midway
  <2> QED BY <1>0, <2>4, <2>5
<1>13. ASSUME AfterBlink PROVE (Midway(t) \/ Ended(t))'
  <2>1. /\ RunsNow("blink") /\ pc["blink"] = "after" /\ then["blink"] = "loop"
        /\ n' = [n EXCEPT !["blink"] = Count(@)]
        /\ pc' = [pc EXCEPT !["blink"] = "poll"]
        /\ line' = [line EXCEPT !["blink"] = Line("blink", n'["blink"])]
        /\ ready' = ready \ {"blink"}
        /\ UNCHANGED <<on, then, cur, told>>
    BY <1>0, <1>13, RunningIs DEF AfterBlink, DelayThen, BlinkPeriods, uart
  <2>2. "hello" \notin ready
    BY <1>0, <1>2, <2>1 DEF RunsNow
  <2>3. Midway(t)
    BY <1>4, <2>2 DEF Ended
  <2>4. PICK k \in 0 .. Len(Line(t, n[t])) : Printed(t, k)
    BY <2>3 DEF Midway
  <2>5. CASE t = "blink"
    <3>1. Printed(t, 0)'
      BY <2>1, <2>4, <2>5, NextLine
    <3>2. 0 \in 0 .. Len(Line(t, n[t]))'
      <4>1. n'[t] \in 0 .. Wrap - 1
        BY DEF FTyped
      <4>2. Len(Line(t, n'[t])) >= 3 /\ Line(t, n'[t]) \in Seq(Token)
        BY <4>1, LineShaped DEF LineShape
      <4> QED BY <4>2
    <3> QED BY <2>1, <2>5, <3>1, <3>2 DEF Midway
  <2>6. CASE t = "hello"
    <3>1. then'[t] = then[t] /\ line'[t] = line[t] /\ pc'[t] = pc[t] /\ n'[t] = n[t]
      BY <1>0, <2>1, <2>6
    <3>2. t \notin ready /\ ~(k > 0 \/ pc[t] = "write")
      BY <2>2, <2>4, <2>6 DEF Printed
    <3>3. Printed(t, k)'
      BY <2>1, <2>4, <3>1, <3>2 DEF Printed
    <3> QED BY <2>3, <2>4, <3>1, <3>3 DEF Midway
  <2> QED BY <1>0, <2>5, <2>6
<1>14. ASSUME Drain PROVE (Midway(t) \/ Ended(t))'
  BY <1>4, <1>6, <1>7, <1>14 DEF Drain
<1>15. ASSUME Tick PROVE (Midway(t) \/ Ended(t))'
  <2>1. /\ MayTick /\ UNCHANGED <<pc, line, then, n, cur, told>>
    BY <1>15 DEF Tick
  <2>2. t \notin ready
    <3>1. ~Busy(t)
      BY <1>0, <1>2, <2>1 DEF MayTick, Alone
    <3>2. pc[t] # "spin"
      BY <1>0, <1>1, NoSpin
    <3> QED BY <3>1, <3>2 DEF Busy
  <2>3. Midway(t)
    BY <1>4, <2>2 DEF Ended
  <2>4. PICK k \in 0 .. Len(Line(t, n[t])) : Printed(t, k)
    BY <2>3 DEF Midway
  <2>5. ~(k > 0 \/ pc[t] = "write")
    BY <1>0, <2>2, <2>4 DEF Printed
  <2>6. Printed(t, k)'
    BY <2>1, <2>4, <2>5 DEF Printed
  <2> QED BY <2>1, <2>3, <2>4, <2>6 DEF Midway
<1>16. ASSUME NEW b \in Task \cup {"main"}, AssertFails(b) PROVE FALSE
  BY <1>16 DEF AssertFails, Asserts
<1>17. ASSUME NEW k \in Kinds, Trap(k) PROVE FALSE
  BY <1>17 DEF Trap, Kinds
<1> QED BY <1>8, <1>9, <1>10, <1>11, <1>12, <1>13, <1>14, <1>15, <1>16, <1>17 DEF Next, Code, Step

LEMMA PrintingStep ==
  ASSUME FTyped, Blame, SeesRoom, OwnWords, Printing, [Next]_vars, FTyped' PROVE Printing'
<1>1. CASE ~Halted /\ Next
  BY <1>1, PrintingWhenRunning
<1>2. CASE UNCHANGED vars
  BY <1>2 DEF vars, uart, Printing, Midway, Ended, Printed, Alone
<1> QED BY <1>1, <1>2, Stopped

LEMMA MidwayFits ==
  ASSUME FTyped, NEW t \in Task, NEW k \in 0 .. Len(Line(t, n[t])), Printed(t, k)
  PROVE  Fits(cur[t], t, told[t])
<1> DEFINE L == Line(t, n[t])
<1>1. L \in Seq(Token) /\ Len(L) \in Nat /\ Fits(L, t, n[t]) /\ n[t] \in 0 .. Wrap
      /\ told[t] \in 0 .. Wrap - 1
  BY TheLine
<1>2. CASE k = 0
  <2>1. CASE cur[t] = <<>>
    BY <2>1, NothingFits
  <2>2. CASE cur[t] = Line(t, told[t])
    BY <1>1, <2>2, LineShaped
  <2> QED BY <1>2, <2>1, <2>2 DEF Printed
<1>3. CASE k > 0 /\ k < Len(L)
  <2>1. cur[t] = Cut(L, k)
    BY <1>3 DEF Printed
  <2>2. k \in 0 .. Len(Line(t, n[t])) - 1
    BY <1>1, <1>3
  <2> QED BY <1>1, <2>1, <2>2, PartFits
<1>4. CASE k > 0 /\ k = Len(L)
  <2>1. cur[t] = Cut(L, k) /\ told[t] = n[t]
    BY <1>4 DEF Printed
  <2>2. Cut(L, k) = L
    BY <1>1, <1>4, CutAndRestEnds
  <2> QED BY <1>1, <2>1, <2>2
<1>5. k \in Nat /\ k <= Len(L)
  BY <1>1
<1> QED BY <1>1, <1>2, <1>3, <1>4, <1>5

LEMMA PrintingMeans ==
  ASSUME FTyped, Blame, SeesRoom, Printing PROVE PrintsWhole
<1>1. TypeOK
  BY BlameMeans DEF TypeOK, FTyped, Codes, Blame
<1>2. \A a \in lost : ~Alone(a)
  BY DEF SeesRoom
<1>3. LinesWhole
  <2> SUFFICES ASSUME NEW t \in Task, fault = "none", Alone(t)
               PROVE  Fits(cur[t], t, told[t])
    BY DEF LinesWhole
  <2>1. CASE Midway(t)
    BY <2>1, MidwayFits DEF Midway
  <2>2. CASE Ended(t)
    BY <2>2, TheLine, LineShaped DEF Ended
  <2> QED BY <2>1, <2>2 DEF Printing
<1> QED BY <1>1, <1>2, <1>3 DEF PrintsWhole
-----------------------------------------------------------------------------
(* A line of hello in each period, one of blink in every second.           *)

(* A task with the processor has printed its line of this period iff it is *)
(* behind it; one that waits has printed it, unless blink waits through an *)
(* odd period.                                                             *)
Pace ==
  /\ ~on => even /\ \A t \in Task : wake[t] = 0 /\ since[t] = 0 /\ pc[t] = "poll"
  /\ fault = "none" /\ on /\ build.prompt =>
       /\ HasHello /\ "hello" \in ready =>
            /\ wake["hello"] = 0
            /\ then["hello"] = "loop" => since["hello"] = (IF pc["hello"] = "after" THEN 1 ELSE 0)
       /\ HasHello /\ "hello" \notin ready => wake["hello"] = 1 /\ since["hello"] = 1
       /\ ~HasHello => since["hello"] = 0
       /\ HasBlink /\ "blink" \in ready =>
            /\ wake["blink"] = 0 /\ even
            /\ since["blink"] = (IF pc["blink"] = "after" THEN 1 ELSE 0)
       /\ HasBlink /\ "blink" \notin ready => /\ wake["blink"] = (IF even THEN 2 ELSE 1)
                                              /\ since["blink"] = (IF even THEN 1 ELSE 0)
       /\ ~HasBlink => since["blink"] = 0

LEMMA PaceStart ==
  ASSUME Init PROVE Pace
BY Toks DEF Init, Pace

LEMMA PaceWhenRunning ==
  ASSUME FTyped, Blame, SeesRoom, Printing, Pace, ~Halted, Next, FTyped' PROVE Pace'
<1>0. /\ "hello" \in Task /\ "blink" \in Task /\ Task = {"hello", "blink"}
      /\ "hello" \in Actor /\ "blink" \in Actor /\ "main" \in Actor
      /\ DOMAIN pc = Actor /\ DOMAIN then = Actor /\ DOMAIN wake = Task /\ DOMAIN since = Task
      /\ ready \subseteq Task
  BY DEF Actor, Task, FTyped
<1>a. HasHello' = HasHello /\ HasBlink' = HasBlink
  BY Constancy, RoomStays
<1>b. ("hello" \in ready => HasHello) /\ ("blink" \in ready => HasBlink)
  BY DEF Blame, Created
<1>1. ASSUME NEW a \in Actor, Poll(a) PROVE Pace'
  <2>1. RunsNow(a) /\ pc[a] = "poll" /\ pc' = [pc EXCEPT ![a] = "write"]
        /\ UNCHANGED <<build, on, ready, wake, then, since, even, fault>>
    BY <1>1, RunningIs DEF Poll, uart
  <2>2. \A t \in Task : pc'[t] = "after" <=> pc[t] = "after"
    BY <1>0, <2>1
  <2>3. ~on => a \notin Task
    BY <1>0, <2>1 DEF RunsNow, FTyped
  <2>4. ~on => \A t \in Task : pc'[t] = pc[t]
    BY <1>0, <2>1, <2>3
  <2> QED BY <1>0, <1>a, <2>1, <2>2, <2>4 DEF Pace
<1>2. ASSUME NEW a \in Actor, Write(a) PROVE Pace'
  <2>1. /\ RunsNow(a) /\ pc[a] = "write"
        /\ pc' = [pc EXCEPT ![a] = IF Tail(line[a]) = <<>> THEN "after" ELSE "poll"]
        /\ since' = IF a \in Task /\ Head(line[a]).what = "close"
                    THEN [since EXCEPT ![a] = IF since[a] < 2 THEN since[a] + 1 ELSE since[a]] ELSE since
        /\ UNCHANGED <<build, on, ready, wake, then, even, fault>>
    BY <1>2, WriteFits DEF Write
  <2>2. \A t \in Task \ {a} : pc'[t] = pc[t] /\ since'[t] = since[t]
    BY <1>0, <2>1
  <2>3. CASE ~on
    <3>1. a \notin Task
      BY <1>0, <2>1, <2>3 DEF RunsNow, FTyped
    <3> QED BY <1>0, <1>a, <2>1, <2>2, <2>3, <3>1 DEF Pace
  <2>4. CASE on /\ ~(fault = "none" /\ build.prompt)
    BY <2>1, <2>4 DEF Pace
  <2>5. CASE on /\ fault = "none" /\ build.prompt
    <3>1. a \in ready /\ a \in Task /\ ~Struck
      BY <1>0, <2>1, <2>5 DEF RunsNow, Struck
    <3>2. ASSUME then[a] = "loop"
          PROVE  since'[a] = (IF pc'[a] = "after" THEN 1 ELSE 0)
      <4>0. Alone(a)
        BY <2>5 DEF Alone
      <4>1. Midway(a)
        BY <2>5, <3>1, <3>2, <4>0 DEF Printing, Ended
      <4>2. PICK k \in 0 .. Len(Line(a, n[a])) : Printed(a, k)
        BY <4>1 DEF Midway
      <4>3. /\ Head(line[a]).what = "close" <=> k + 1 = Len(Line(a, n[a]))
            /\ n' = n /\ Printed(a, k + 1)'
        BY <1>2, <2>5, <3>1, <4>0, <4>2, WriteGoesOn
      <4>4. pc'[a] = "after" <=> k + 1 = Len(Line(a, n'[a]))
        BY <4>3 DEF Printed
      <4>5. pc'[a] = "after" <=> Head(line[a]).what = "close"
        BY <4>3, <4>4
      <4>6. since[a] = 0
        BY <1>0, <1>b, <2>1, <2>5, <3>1, <3>2 DEF Pace
      <4> QED BY <1>0, <2>1, <3>1, <4>5, <4>6
    <3>3. then["blink"] = "loop"
      BY <1>0, <2>5 DEF Blame
    <3> QED BY <1>0, <1>a, <1>b, <2>1, <2>2, <2>5, <3>1, <3>2, <3>3 DEF Pace
  <2> QED BY <2>3, <2>4, <2>5 DEF FTyped
<1>3. ASSUME NEW a \in Actor, Exit(a) PROVE Pace'
  <2>1. RunsNow(a) /\ then[a] # "loop" /\ pc' = [pc EXCEPT ![a] = "spin"]
        /\ UNCHANGED <<build, on, ready, wake, then, since, even, fault>>
    BY <1>3, RunningIs DEF Exit, uart
  <2>2. fault = "none" => then["blink"] = "loop"
    BY <1>0 DEF Blame
  <2>3. \A t \in Task : then[t] = "loop" => pc'[t] = pc[t]
    BY <1>0, <2>1
  <2>4. ~on => a \notin Task
    BY <1>0, <2>1 DEF RunsNow, FTyped
  <2>5. ~on => \A t \in Task : pc'[t] = pc[t]
    BY <1>0, <2>1, <2>4
  <2> QED BY <1>0, <1>a, <2>1, <2>2, <2>3, <2>5 DEF Pace
<1>4. ASSUME StartScheduler PROVE Pace'
  <2>1. RunsNow("main") /\ UNCHANGED <<build, wake, since, even>>
    BY <1>0, <1>4, RunningIs DEF StartScheduler, uart
  <2>2. ~on
    BY <1>0, <2>1 DEF RunsNow, Struck, FTyped, Task
  <2>3. \A t \in Task : pc'[t] = "poll" /\ wake'[t] = 0 /\ since'[t] = 0
    BY <1>0, <1>4, <2>1, <2>2 DEF StartScheduler, Asserts, Pace
  <2>4. even'
    BY <2>1, <2>2 DEF Pace
  <2>5. CASE HasIdle
    <3>1. on' /\ ready' = Created
      BY <1>4, <2>5 DEF StartScheduler
    <3>2. (HasHello => "hello" \in ready') /\ (HasBlink => "blink" \in ready')
      BY <1>0, <3>1 DEF Created
    <3> QED BY <1>0, <1>a, <2>3, <2>4, <3>1, <3>2 DEF Pace
  <2>6. CASE ~HasIdle
    <3>1. on' = on
      BY <1>4, <2>6 DEF StartScheduler
    <3> QED BY <2>2, <2>3, <2>4, <3>1 DEF Pace
  <2> QED BY <2>5, <2>6
<1>5. ASSUME AfterHello PROVE Pace'
  <2>1. /\ RunsNow("hello") /\ pc["hello"] = "after" /\ then["hello"] = "loop"
        /\ pc' = [pc EXCEPT !["hello"] = "poll"]
        /\ UNCHANGED <<build, on, since, even, fault>>
        /\ \/ /\ ready' = ready \ {"hello"} /\ wake' = [wake EXCEPT !["hello"] = 1] /\ then' = then
           \/ /\ then' = [then EXCEPT !["hello"] = "0"] /\ UNCHANGED <<ready, wake>>
    BY <1>0, <1>5, RunningIs DEF AfterHello, DelayThen, HelloPeriods, uart
  <2>2. on /\ "hello" \in ready
    BY <1>0, <2>1 DEF RunsNow, FTyped
  <2>3. CASE ~(fault = "none" /\ build.prompt)
    BY <2>1, <2>2, <2>3 DEF Pace
  <2>4. CASE fault = "none" /\ build.prompt
    <3>1. wake["hello"] = 0 /\ since["hello"] = 1
      BY <1>b, <2>1, <2>2, <2>4 DEF Pace
    <3>2. pc'["blink"] = pc["blink"]
      BY <1>0, <2>1
    <3>3. CASE ready' = ready \ {"hello"} /\ wake' = [wake EXCEPT !["hello"] = 1] /\ then' = then
      <4>1. wake'["hello"] = 1 /\ wake'["blink"] = wake["blink"]
        BY <1>0, <3>3
      <4>2. "hello" \notin ready' /\ ("blink" \in ready' <=> "blink" \in ready)
        BY <3>3
      <4> QED BY <1>a, <1>b, <2>1, <2>2, <2>4, <3>1, <3>2, <4>1, <4>2 DEF Pace
    <3>4. CASE then' = [then EXCEPT !["hello"] = "0"] /\ UNCHANGED <<ready, wake>>
      <4>1. then'["hello"] # "loop"
        BY <1>0, <3>4
      <4> QED BY <1>a, <1>b, <2>1, <2>2, <2>4, <3>1, <3>2, <3>4, <4>1 DEF Pace
    <3> QED BY <2>1, <3>3, <3>4
  <2> QED BY <2>3, <2>4
<1>6. ASSUME AfterBlink PROVE Pace'
  <2>1. /\ RunsNow("blink") /\ pc["blink"] = "after"
        /\ pc' = [pc EXCEPT !["blink"] = "poll"]
        /\ ready' = ready \ {"blink"} /\ wake' = [wake EXCEPT !["blink"] = 2]
        /\ UNCHANGED <<build, on, then, since, even, fault>>
    BY <1>0, <1>6, RunningIs DEF AfterBlink, DelayThen, BlinkPeriods, uart
  <2>2. on /\ "blink" \in ready /\ "hello" \notin ready
    BY <1>0, <2>1 DEF RunsNow, FTyped
  <2>3. wake'["blink"] = 2 /\ wake'["hello"] = wake["hello"] /\ pc'["hello"] = pc["hello"]
    BY <1>0, <2>1
  <2>4. "blink" \notin ready' /\ "hello" \notin ready'
    BY <2>1, <2>2
  <2> QED BY <1>a, <1>b, <2>1, <2>2, <2>3, <2>4 DEF Pace
<1>7. ASSUME Drain PROVE Pace'
  BY <1>a, <1>7 DEF Drain, Pace
<1>8. ASSUME Tick PROVE Pace'
  <2>1. /\ MayTick /\ UNCHANGED <<build, on, pc, then, fault>>
        /\ wake' = [t \in Task |-> IF wake[t] > 0 THEN wake[t] - 1 ELSE 0]
        /\ ready' = ready \cup { t \in Task : wake[t] = 1 }
        /\ since' = [t \in Task |-> 0] /\ even' = ~even
    BY <1>8 DEF Tick
  <2>2. on
    BY <2>1 DEF MayTick
  <2>3. CASE ~(fault = "none" /\ build.prompt)
    BY <2>1, <2>2, <2>3 DEF Pace
  <2>4. CASE fault = "none" /\ build.prompt
    <3>0. ready = {}
      <4>1. "hello" \notin ready /\ "blink" \notin ready
        BY <1>0, <2>1, <2>4, NoSpin DEF MayTick, Busy
      <4> QED BY <1>0, <4>1
    <3>1. /\ HasHello => wake["hello"] = 1
          /\ HasBlink => wake["blink"] = (IF even THEN 2 ELSE 1)
      BY <2>2, <2>4, <3>0 DEF Pace
    <3>2. pc'["hello"] = "poll" /\ pc'["blink"] = "poll"
      BY <1>0, <2>1, <3>0 DEF SeesRoom
    <3>3. since'["hello"] = 0 /\ since'["blink"] = 0
      BY <1>0, <2>1
    <3>4. /\ HasHello => wake'["hello"] = 0
          /\ HasBlink => wake'["blink"] = (IF even THEN 1 ELSE 0)
      BY <1>0, <2>1, <3>1
    <3>5. /\ HasHello => "hello" \in ready'
          /\ HasBlink => ("blink" \in ready' <=> ~even)
      BY <1>0, <2>1, <3>0, <3>1
    <3> QED BY <1>a, <2>1, <2>2, <2>4, <3>2, <3>3, <3>4, <3>5 DEF Pace
  <2> QED BY <2>3, <2>4
<1>9. ASSUME NEW a \in Task \cup {"main"}, AssertFails(a) PROVE Pace'
  <2>1. /\ fault' = "assert" /\ pc' = [pc EXCEPT ![a] = "poll"]
        /\ UNCHANGED <<on, wake, since, even>>
    BY <1>9 DEF AssertFails, Asserts, uart
  <2>2. \A t \in Task : pc[t] = "poll" => pc'[t] = "poll"
    BY <1>0, <2>1
  <2> QED BY <2>1, <2>2 DEF Pace
<1>10. ASSUME NEW k \in Kinds, Trap(k) PROVE Pace'
  BY <1>10 DEF Trap, Kinds, Pace
<1> QED BY <1>1, <1>2, <1>3, <1>4, <1>5, <1>6, <1>7, <1>8, <1>9, <1>10 DEF Next, Code, Step

LEMMA PaceStep ==
  ASSUME FTyped, Blame, SeesRoom, Printing, Pace, [Next]_vars, FTyped' PROVE Pace'
<1>1. CASE ~Halted /\ Next
  BY <1>1, PaceWhenRunning
<1>2. CASE UNCHANGED vars
  <2>1. UNCHANGED <<build, heap, on, ready, wake, pc, then, since, even, fault>>
    BY <1>2 DEF vars, uart
  <2>2. HasHello' = HasHello /\ HasBlink' = HasBlink
    BY <2>1, RoomStays
  <2> QED BY <2>1, <2>2 DEF Pace
<1> QED BY <1>1, <1>2, Stopped

LEMMA PaceMeans ==
  ASSUME FTyped, Pace PROVE KeepsPace
<1>1. even \in BOOLEAN /\ "hello" \in Task /\ "blink" \in Task
  BY Toks DEF FTyped
<1> QED BY <1>1 DEF Pace, KeepsPace

-----------------------------------------------------------------------------
(* One line of blink for two of hello.                                     *)

(* In a simulation whose lines are prompt: hello has counted a line in     *)
(* each period, up to the one it prints now, and blink in each second.     *)
Tally ==
  build.prompt /\ ~build.fpga /\ fault = "none" =>
    /\ n["hello"] <= Target /\ (then["hello"] = "loop" => n["hello"] < Target)
    /\ HasHello /\ HasBlink =>
         /\ on /\ "hello" \in ready /\ even => "blink" \in ready
         /\ (~on \/ "hello" \in ready) /\ then["hello"] = "loop" =>
              n["hello"] = IF even THEN 2 * n["blink"] ELSE 2 * n["blink"] - 1
         /\ (~on \/ "hello" \in ready) /\ then["hello"] # "loop" =>
              n["hello"] = IF even THEN 2 * n["blink"] + 1 ELSE 2 * n["blink"]
         /\ on /\ "hello" \notin ready =>
              n["hello"] = IF ~even THEN 2 * n["blink"]
                           ELSE IF "blink" \in ready THEN 2 * n["blink"] + 1
                           ELSE 2 * n["blink"] - 1

LEMMA TallyStart ==
  ASSUME Init PROVE Tally
<1>1. n["hello"] = 0 /\ n["blink"] = 0 /\ on = FALSE /\ even = TRUE
  BY Toks DEF Init
<1>2. then["hello"] = "loop" /\ 0 < Target
  BY Toks, FreertosAssumption DEF Init
<1> QED BY <1>1, <1>2, FreertosAssumption DEF Tally

LEMMA TallyWhenRunning ==
  ASSUME FTyped, Blame, SeesRoom, Pace, Tally, ~Halted, Next, FTyped' PROVE Tally'
<1> SUFFICES ASSUME build'.prompt, ~build'.fpga, fault' = "none" PROVE Tally'
  BY DEF Tally
<1>0. /\ "hello" \in Task /\ "blink" \in Task /\ Task = {"hello", "blink"}
      /\ "hello" \in Actor /\ "blink" \in Actor /\ "main" \in Actor
      /\ DOMAIN n = Task /\ DOMAIN then = Actor /\ DOMAIN wake = Task /\ ready \subseteq Task
      /\ even \in BOOLEAN /\ on \in BOOLEAN
  BY DEF Actor, Task, FTyped
<1>1. fault = "none"
  BY DEF Next, Code, Step, Poll, Write, Exit, StartScheduler, AfterHello, AfterBlink, Drain, Tick,
         AssertFails, Asserts, Trap, Kinds
<1>2. ~Struck /\ build' = build /\ build.prompt /\ ~build.fpga
  BY <1>1, Constancy DEF Struck
<1>a. HasHello' = HasHello /\ HasBlink' = HasBlink
  BY Constancy, RoomStays
<1>b. ("hello" \in ready => HasHello) /\ ("blink" \in ready => HasBlink)
  BY DEF Blame, Created
<1> DEFINE h == n["hello"]
           b == n["blink"]
<1>3. /\ h \in Nat /\ b \in Nat /\ h <= Target /\ Target \in Nat /\ Wrap \in Nat /\ Target < Wrap
      /\ then["hello"] = "loop" => h < Target
      /\ h < Wrap /\ b < Wrap
  <2>1. h \in 0 .. Wrap - 1 /\ b \in 0 .. Wrap - 1 /\ Wrap \in Nat /\ Target \in 1 .. Wrap - 1
    BY <1>0, FreertosAssumption DEF FTyped
  <2>2. h <= Target /\ (then["hello"] = "loop" => h < Target)
    BY <1>1, <1>2 DEF Tally
  <2> QED BY <2>1, <2>2
<1>4. ASSUME NEW v \in Nat, v + 1 < Wrap PROVE Count(v) = v + 1
  <2>1. (v + 1) % Wrap = v + 1
    BY <1>3, <1>4
  <2> QED BY <2>1 DEF Count
<1>5. ASSUME UNCHANGED <<on, ready, then, n, even>> PROVE Tally'
  BY <1>1, <1>2, <1>5, <1>a DEF Tally
<1>6. ASSUME NEW a \in Actor, Step(a) PROVE Tally'
  BY <1>5, <1>6 DEF Step, Poll, Write, Exit, uart
<1>7. ASSUME StartScheduler PROVE Tally'
  <2>1. HasIdle /\ on' = TRUE /\ ready' = Created /\ UNCHANGED <<then, n, even>>
    BY <1>7 DEF StartScheduler, Asserts, uart
  <2>2. ~on /\ even
    <3>1. ~on
      BY <1>0, <1>2, <1>7, RunningIs DEF RunsNow, FTyped, Task, StartScheduler
    <3> QED BY <3>1 DEF Pace
  <2>3. (HasHello => "hello" \in ready') /\ (HasBlink => "blink" \in ready')
    BY <1>0, <2>1 DEF Created
  <2> QED BY <1>1, <1>2, <1>a, <2>1, <2>2, <2>3 DEF Tally
<1>8. ASSUME AfterHello PROVE Tally'
  <2>1. /\ RunsNow("hello") /\ then["hello"] = "loop"
        /\ n' = [n EXCEPT !["hello"] = Count(@)]
        /\ UNCHANGED <<on, even>>
    BY <1>0, <1>8, RunningIs DEF AfterHello, uart
  <2>2. on /\ "hello" \in ready
    BY <1>2, <2>1 DEF RunsNow, FTyped
  <2>3. n'["hello"] = h + 1 /\ n'["blink"] = b
    BY <1>0, <1>3, <1>4, <2>1
  <2>4. /\ h + 1 <= Target
        /\ HasBlink => (even => "blink" \in ready) /\ h = IF even THEN 2 * b ELSE 2 * b - 1
    <3>1. h + 1 <= Target
      BY <1>3, <2>1
    <3> QED BY <1>1, <1>2, <1>b, <2>1, <2>2, <3>1 DEF Tally
  <2>5. CASE h + 1 # Target
    <3>1. then' = then /\ ready' = ready \ {"hello"}
      BY <1>8, <2>3, <2>5 DEF AfterHello, CountReached, DelayThen, HelloPeriods
    <3>2. h + 1 < Target /\ then'["hello"] = "loop"
      BY <1>3, <2>1, <2>4, <2>5, <3>1
    <3>3. "hello" \notin ready' /\ ("blink" \in ready' <=> "blink" \in ready)
      BY <3>1
    <3>4. h + 1 <= Target
      BY <2>4
    <3>5. HasBlink => h + 1 = IF ~even THEN 2 * b ELSE 2 * b + 1
      BY <1>3, <2>4
    <3>6. HasBlink /\ even => "blink" \in ready'
      BY <2>4, <3>3
    <3> HIDE DEF h, b
    <3> QED BY <1>a, <2>1, <2>2, <2>3, <3>2, <3>3, <3>4, <3>5, <3>6 DEF Tally
  <2>6. CASE h + 1 = Target
    <3>1. then' = [then EXCEPT !["hello"] = "0"] /\ ready' = ready
      BY <1>2, <1>8, <2>3, <2>6 DEF AfterHello, CountReached, MayEnd
    <3>2. then'["hello"] # "loop"
      BY <1>0, <3>1
    <3>3. h + 1 <= Target
      BY <2>4
    <3>4. HasBlink => h + 1 = IF even THEN 2 * b + 1 ELSE 2 * b
      BY <1>3, <2>4
    <3> HIDE DEF h, b
    <3> QED BY <1>a, <2>1, <2>2, <2>3, <2>4, <3>1, <3>2, <3>3, <3>4 DEF Tally
  <2> QED BY <2>5, <2>6
<1>9. ASSUME AfterBlink PROVE Tally'
  <2>1. /\ RunsNow("blink") /\ n' = [n EXCEPT !["blink"] = Count(@)]
        /\ ready' = ready \ {"blink"} /\ UNCHANGED <<on, even, then>>
    BY <1>0, <1>9, RunningIs DEF AfterBlink, DelayThen, BlinkPeriods, uart
  <2>2. on /\ "blink" \in ready /\ "hello" \notin ready
    BY <1>2, <2>1 DEF RunsNow, FTyped
  <2>3. HasBlink /\ even
    BY <1>1, <1>2, <1>b, <2>2 DEF Pace
  <2>4. HasHello => h = 2 * b + 1
    BY <1>1, <1>2, <2>2, <2>3 DEF Tally
  <2>5. n'["hello"] = h
    BY <1>0, <2>1
  <2>6. HasHello => n'["blink"] = b + 1
    <3>1. HasHello => b + 1 < Wrap
      BY <1>3, <2>4
    <3>2. n'["blink"] = Count(b)
      BY <1>0, <2>1
    <3> QED BY <1>3, <1>4, <3>1, <3>2
  <2>7. HasHello => h = 2 * (b + 1) - 1
    BY <1>3, <2>4
  <2>8. "blink" \notin ready' /\ "hello" \notin ready' /\ then'["hello"] = then["hello"]
    BY <2>1, <2>2
  <2> HIDE DEF h, b
  <2> QED BY <1>3, <1>a, <2>1, <2>2, <2>3, <2>5, <2>6, <2>7, <2>8 DEF Tally
<1>10. ASSUME Tick PROVE Tally'
  <2>1. /\ MayTick /\ UNCHANGED <<on, then, n>>
        /\ ready' = ready \cup { t \in Task : wake[t] = 1 } /\ even' = ~even
    BY <1>10 DEF Tick
  <2>2. on /\ ready = {}
    <3>1. "hello" \notin ready /\ "blink" \notin ready
      BY <1>0, <1>1, <1>2, <2>1, NoSpin DEF MayTick, Busy
    <3> QED BY <1>0, <2>1, <3>1 DEF MayTick
  <2>3. /\ HasHello => wake["hello"] = 1
        /\ HasBlink => wake["blink"] = (IF even THEN 2 ELSE 1)
    BY <1>1, <1>2, <2>2 DEF Pace
  <2>4. /\ HasHello => "hello" \in ready'
        /\ HasBlink => ("blink" \in ready' <=> ~even)
    BY <1>0, <2>1, <2>2, <2>3
  <2>5. then["hello"] = "loop"
    <3>1. then["hello"] # "0"
      BY <2>2 DEF Blame
    <3> QED BY <1>0, <1>1, <3>1 DEF Blame
  <2>6. HasHello /\ HasBlink => h = IF even THEN 2 * b - 1 ELSE 2 * b
    BY <1>1, <1>2, <2>2 DEF Tally
  <2>7. even' <=> ~even
    BY <1>0, <2>1
  <2> QED BY <1>3, <1>a, <2>1, <2>2, <2>4, <2>5, <2>6, <2>7 DEF Tally
<1>11. CASE Drain
  BY <1>5, <1>11 DEF Drain
<1>12. ASSUME NEW a \in Task \cup {"main"}, AssertFails(a) PROVE FALSE
  BY <1>12 DEF AssertFails, Asserts
<1>13. ASSUME NEW k \in Kinds, Trap(k) PROVE FALSE
  BY <1>13 DEF Trap, Kinds
<1> QED BY <1>6, <1>7, <1>8, <1>9, <1>10, <1>11, <1>12, <1>13 DEF Next, Code

LEMMA TallyStep ==
  ASSUME FTyped, Blame, SeesRoom, Pace, Tally, [Next]_vars, FTyped' PROVE Tally'
<1>1. CASE ~Halted /\ Next
  BY <1>1, TallyWhenRunning
<1>2. CASE UNCHANGED vars
  <2>1. UNCHANGED <<build, heap, on, ready, then, n, even, fault>>
    BY <1>2 DEF vars
  <2>2. HasHello' = HasHello /\ HasBlink' = HasBlink
    BY <2>1, RoomStays
  <2> QED BY <2>1, <2>2 DEF Tally
<1> QED BY <1>1, <1>2, Stopped

LEMMA ExitMeansSo ==
  ASSUME FTyped, Blame, Tally PROVE ExitMeans
<1> SUFFICES ASSUME exit # <<>> PROVE ExitMeans
  BY DEF ExitMeans
<1>1. ASSUME exit[1] = "0", HasBlink, build.prompt PROVE n["blink"] = Target \div 2
  <2>1. /\ HasHello /\ n["hello"] = Target /\ then["hello"] = "0" /\ ~build.fpga
        /\ fault # "none" => ~build.prompt
    BY <1>1, BlameMeans
  <2>2. on /\ "hello" \in ready /\ fault = "none"
    BY <1>1, <2>1 DEF Blame
  <2>3. Target = IF even THEN 2 * n["blink"] + 1 ELSE 2 * n["blink"]
    BY <1>1, <2>1, <2>2 DEF Tally
  <2>4. n["blink"] \in Nat
    BY Toks, FreertosAssumption DEF FTyped
  <2> QED BY <2>3, <2>4
<1> QED BY <1>1, BlameMeans DEF ExitMeans

-----------------------------------------------------------------------------

(* The invariants hold together.                                           *)
RtosKept == FTyped /\ Blame /\ SeesRoom /\ OwnWords /\ Printing /\ Pace /\ Tally

LEMMA RtosKeeps ==
  Spec => []RtosKept
<1>1. Init => RtosKept
  BY FTypedStart, BlameStart, SeesRoomStart, OwnWordsStart, PrintingStart, PaceStart, TallyStart
     DEF RtosKept
<1>2. RtosKept /\ [Next]_vars => RtosKept'
  <2> SUFFICES ASSUME RtosKept, [Next]_vars PROVE RtosKept'
    OBVIOUS
  <2>1. FTyped /\ Blame /\ SeesRoom /\ OwnWords /\ Printing /\ Pace /\ Tally
    BY DEF RtosKept
  <2>2. FTyped'
    BY <2>1, FTypedStep
  <2>3. Blame' /\ SeesRoom' /\ OwnWords' /\ Printing' /\ Pace' /\ Tally'
    BY <2>1, <2>2, BlameStep, SeesRoomStep, OwnWordsStep, PrintingStep, PaceStep, TallyStep
  <2> QED BY <2>2, <2>3 DEF RtosKept
<1> QED BY <1>1, <1>2, PTL DEF Spec

(* main.c and its hooks: the first code stored to the exit register tells  *)
(* how the demo ended. 0 means that hello existed and printed the target   *)
(* number of lines with no trap before it, and that blink, if the heap had *)
(* room for it and lines are printed in no time, printed one for two of    *)
(* them; any other code names the assertion, the exception or the          *)
(* interrupt that ended it, and 2 ends it when the idle task has no room.  *)
(* For every heap, build, target and preemption of the tasks.              *)
THEOREM ExitTells ==
  Spec => []ExitMeans
<1>1. RtosKept => ExitMeans
  BY ExitMeansSo DEF RtosKept
<1> QED BY <1>1, RtosKeeps, PTL

(* main.c, uartlite.h and put_dec: a byte is written to a full FIFO only   *)
(* by blink, preempted by hello between its poll and its write, and only   *)
(* where a period passes while it prints; each line of hello reaches the   *)
(* UART in one piece, preempting blink or not, and so does each of blink   *)
(* that is not preempted, with the count that follows that of the line     *)
(* before in decimal. For every FIFO, base and width of the counters.      *)
THEOREM LinesComeWhole ==
  Spec => []PrintsWhole
<1>1. RtosKept => PrintsWhole
  BY PrintingMeans DEF RtosKept
<1> QED BY <1>1, RtosKeeps, PTL

(* main.c: where lines are printed faster than a period passes, hello      *)
(* completes one line in each period and blink one in every second, each   *)
(* if the heap had room for it.                                            *)
THEOREM TasksKeepPace ==
  Spec => []KeepsPace
<1>1. RtosKept => KeepsPace
  BY PaceMeans DEF RtosKept
<1> QED BY <1>1, RtosKeeps, PTL

-----------------------------------------------------------------------------
(* Least and greatest places of a sequence, and main's status.             *)

LEMMA MaxIsLast ==
  ASSUME NEW num \in Nat, NEW S \in SUBSET (1 .. num), S # {}
  PROVE  Max(S) \in S /\ \A x \in S : x <= Max(S)
<1> SUFFICES \E x \in S : \A y \in S : x >= y
  BY DEF Max
<1> SUFFICES ASSUME \A x \in S : \E y \in S : y > x PROVE FALSE
  OBVIOUS
<1> DEFINE T == { k \in 0 .. num : \E x \in S : x > k }
<1>0. PICK z \in S : TRUE
  OBVIOUS
<1>1. 0 \in T
  BY <1>0
<1>2. ASSUME NEW k \in 0 .. (num - 1), k \in T PROVE k + 1 \in T
  <2>1. PICK x \in S : x > k
    BY <1>2
  <2>2. PICK y \in S : y > x
    OBVIOUS
  <2> QED BY <2>1, <2>2
<1> HIDE DEF T
<1>3. \A k \in 0 .. num : k \in T
  BY <1>1, <1>2, CountingUp
<1> QED BY <1>3 DEF T

LEMMA MinIsFirst ==
  ASSUME NEW num \in Nat, NEW S \in SUBSET (1 .. num), S # {}
  PROVE  Min(S) \in S /\ \A x \in S : Min(S) <= x
<1> SUFFICES \E x \in S : \A y \in S : x =< y
  BY DEF Min
<1> SUFFICES ASSUME \A x \in S : \E y \in S : y < x PROVE FALSE
  OBVIOUS
<1> DEFINE T == { k \in 0 .. num : \A x \in S : x > k }
<1>1. 0 \in T
  OBVIOUS
<1>2. ASSUME NEW k \in 0 .. (num - 1), k \in T PROVE k + 1 \in T
  <2>1. ASSUME NEW x \in S PROVE x > k + 1
    <3>1. x > k
      BY <1>2
    <3>2. PICK y \in S : y < x
      OBVIOUS
    <3>3. y > k
      BY <1>2
    <3> QED BY <3>1, <3>2, <3>3
  <2> QED BY <2>1
<1> HIDE DEF T
<1>3. \A k \in 0 .. num : k \in T
  BY <1>1, <1>2, CountingUp
<1>4. PICK z \in S : TRUE
  OBVIOUS
<1> QED BY <1>3, <1>4 DEF T

LEMMA LeavesWithByte ==
  ASSUME NEW c \in Int, Leave(c)
  PROVE  stage' = "left" /\ rc' \in 0 .. 255
BY DEF Leave, Status

LEMMA SymbolIsNumber ==
  ASSUME NEW e \in ElfFile, NEW name
  PROVE  SymbolValue(e, name) \in Nat
<1> DEFINE s == ElfSymbols(e)
           at == { i \in DOMAIN s : s[i].name # "" /\ s[i].name = name }
<1>1. s \in Seq([name : STRING, value : Nat])
  <2>1. CASE e.symtabs = <<>> \/ ~Head(e.symtabs).linked
    BY <2>1 DEF ElfSymbols
  <2>2. CASE ~(e.symtabs = <<>> \/ ~Head(e.symtabs).linked)
    <3>1. e.symtabs \in Seq(SymbolTable) /\ e.symtabs # <<>>
      BY <2>2 DEF ElfFile
    <3>2. Head(e.symtabs) \in SymbolTable
      BY <3>1, HeadTailProperties
    <3> QED BY <2>2, <3>2 DEF ElfSymbols, SymbolTable
  <2> QED BY <2>1, <2>2
<1>2. CASE at = {}
  BY <1>2 DEF SymbolValue
<1>3. CASE at # {}
  <2>1. DOMAIN s = 1 .. Len(s) /\ Len(s) \in Nat
    BY <1>1
  <2>2. Max(at) \in DOMAIN s
    <3> HIDE DEF s
    <3>1. at \in SUBSET (1 .. Len(s))
      BY <2>1
    <3> HIDE DEF at
    <3>2. Max(at) \in at
      BY <1>3, <2>1, <3>1, MaxIsLast
    <3> QED BY <2>1, <3>1, <3>2
  <2>3. s[Max(at)].value \in Nat
    <3> HIDE DEF s, at
    <3>1. s[Max(at)] \in [name : STRING, value : Nat]
      BY <1>1, <2>1, <2>2, ElementOfSeq
    <3> QED BY <3>1
  <2>4. SymbolValue(e, name) = s[Max(at)].value
    BY <1>3 DEF SymbolValue
  <2> QED BY <2>3, <2>4
<1> QED BY <1>2, <1>3

-----------------------------------------------------------------------------
(* The stages of main.                                                     *)

USE DEF loaderVars, benchRest

Report ==
  [at : Nat, what : {"exit"}, val : ExitCodes]
  \cup [at : Nat, what : {"tohost"}, val : TohostWords]
  \cup [at : Nat, what : {"finish"}, val : {0}]

(* Before the clock loop nothing has been reported.                        *)
Quiescent ==
  reports = <<>> /\ ~done /\ log = {} /\ ~exit_reg.valid /\ exit_code = -1

(* The descriptor and the mapping at each stage.                           *)
Descriptor ==
  /\ stage \in {"start", "load"} => fd = "none" /\ ~mapped
  /\ stage \in {"fstat", "mmap"} => fd = "open" /\ ~mapped
  /\ stage \in {"parse", "unmap"} => fd = "open" /\ mapped
  /\ stage \in {"loaded", "reset", "run", "left"} => fd \in {"none", "closed"} /\ ~mapped

Staged ==
  /\ BenchTypeOK /\ reports \in Seq(Report)
  /\ exit_reg \in [valid : BOOLEAN, code : Nat] /\ exit_code \in Int
  /\ mem = [i \in 0 .. SramWords - 1 |-> mem[i]]
  /\ stage \notin {"run", "left"} => Quiescent /\ g_cycles = 0
  /\ Descriptor

LEMMA StoreKinds ==
  ASSUME NEW s \in Stores
  PROVE  \/ s = Nothing /\ s.what = "nothing"
         \/ s # Nothing /\ s.what = "exit" /\ s.val \in ExitCodes
         \/ s # Nothing /\ s.what = "tohost" /\ s.val \in TohostWords
BY DEF Stores, Nothing

LEMMA InitStaged == ASSUME BenchInit PROVE Staged
<1>1. args.timeout \in Nat /\ ResetToggles \in Nat
  BY SimAssumption DEF BenchInit
<1>2. BenchTypeOK
  <2>1. g_cycles \in 0 .. ResetToggles + args.timeout
    BY <1>1 DEF BenchInit
  <2>2. exit_reg.valid \in BOOLEAN /\ done \in BOOLEAN /\ rc = NoStatus
    BY DEF BenchInit
  <2> QED BY <2>1, <2>2 DEF BenchInit, BenchTypeOK
<1>3. mem = [i \in 0 .. SramWords - 1 |-> mem[i]]
  BY DEF BenchInit
<1> QED BY <1>2, <1>3 DEF BenchInit, Staged, Quiescent, Descriptor

LEMMA CycleReports ==
  ASSUME reports \in Seq(Report), g_cycles \in Nat,
         NEW store \in Stores, NEW finish \in BOOLEAN, Cycle(store, finish)
  PROVE  reports' \in Seq(Report)
<1> DEFINE r == [at |-> g_cycles, what |-> store.what, val |-> store.val]
           f == [at |-> g_cycles, what |-> "finish", val |-> 0]
           s1 == IF store = Nothing THEN reports ELSE Append(reports, r)
<1>1. f \in Report /\ (store # Nothing => r \in Report)
  BY StoreKinds DEF Report
<1>2. s1 \in Seq(Report)
  BY <1>1
<1>3. reports' = s1 \o (IF finish THEN << f >> ELSE <<>>)
  BY DEF Cycle
<1> HIDE DEF s1, f
<1> QED BY <1>1, <1>2, <1>3

LEMMA CycleStaged ==
  ASSUME Staged, NEW store \in Stores, NEW finish \in BOOLEAN, Cycle(store, finish)
  PROVE  Staged'
<1>1. reports' \in Seq(Report)
  <2>1. g_cycles \in Nat /\ reports \in Seq(Report)
    BY SimAssumption DEF Staged, BenchTypeOK
  <2> QED BY <2>1, CycleReports
<1>2. /\ stage = "run" /\ ~done /\ g_cycles < args.timeout /\ g_cycles' = g_cycles + 1
      /\ UNCHANGED <<elf, args, stage, fd, mapped, thrown, words, tohost_addr, rc>>
  BY DEF Cycle
<1>3. exit_reg' \in [valid : BOOLEAN, code : Nat]
  BY SimAssumption, StoreKinds DEF Cycle, Staged
<1>4. exit_code' \in Int /\ done' \in BOOLEAN
  <2> DEFINE val == sram_dpi_read(mem', tohost_addr)
             polled == PollsTohost(exit_reg'.valid) /\ val # Zero
  <2>1. /\ exit_code' = CASE polled -> IF val = One THEN 0 ELSE 1
                         [] exit_reg'.valid /\ ~polled -> exit_reg'.code
                         [] OTHER -> exit_code
        /\ done' = (exit_reg'.valid \/ polled \/ finish)
    BY DEF Cycle
  <2> HIDE DEF polled, val
  <2> QED BY <1>3, <2>1 DEF Staged
<1>5. mem' = [i \in 0 .. SramWords - 1 |-> mem'[i]]
  BY DEF Cycle, Staged
<1>6. args \in Args /\ args.timeout \in Nat
  BY SimAssumption DEF Staged, BenchTypeOK
<1>7. BenchTypeOK' /\ Descriptor'
  <2>1. BenchTypeOK /\ Descriptor /\ ResetToggles \in Nat
    BY SimAssumption DEF Staged
  <2>2. g_cycles' \in 0 .. ResetToggles + args'.timeout
    BY <1>2, <1>6, <2>1 DEF BenchTypeOK
  <2>3. exit_reg'.valid \in BOOLEAN
    BY <1>3
  <2> QED BY <1>2, <1>4, <2>1, <2>2, <2>3 DEF BenchTypeOK, Descriptor
<1> QED BY <1>1, <1>2, <1>3, <1>4, <1>5, <1>7 DEF Staged

LEMMA StepStaged == ASSUME Staged, [BenchNext]_benchVars PROVE Staged'
<1> USE DEF Staged
<1>0. args \in Args /\ args.timeout \in Nat /\ elf \in ElfFile /\ ResetToggles \in Nat
  BY SimAssumption DEF BenchTypeOK
<1>1. CASE StartUp
  <2>1. \/ stage' = "left" /\ rc' \in 0 .. 255
        \/ stage' = "load" /\ rc' = rc
    BY <1>1, LeavesWithByte DEF StartUp
  <2>2. BenchTypeOK' /\ Descriptor'
    BY <1>1, <2>1 DEF StartUp, BenchTypeOK, Descriptor
  <2> QED BY <1>1, <2>1, <2>2 DEF StartUp, Quiescent
<1>2. CASE OpenFile
  <2>0. stage = "load" /\ BenchTypeOK /\ Descriptor /\ UNCHANGED <<benchRest, thrown, words, tohost_addr>>
    BY <1>2 DEF OpenFile
  <2>1. \/ stage' = "left" /\ rc' \in 0 .. 255 /\ fd' = "none" /\ ~mapped /\ mapped' = mapped
        \/ stage' = "fstat" /\ rc' = rc /\ fd' = "open" /\ ~mapped /\ mapped' = mapped
    <3>1. CASE elf.defect = "open"
      BY <1>2, <2>0, <3>1, LeavesWithByte DEF OpenFile, Descriptor
    <3>2. CASE elf.defect # "open"
      BY <1>2, <2>0, <3>2 DEF OpenFile, Descriptor
    <3> QED BY <3>1, <3>2
  <2>2. BenchTypeOK' /\ Descriptor'
    BY <2>0, <2>1 DEF BenchTypeOK, Descriptor
  <2> QED BY <2>0, <2>1, <2>2 DEF Quiescent
<1>9. CASE StatFile
  <2>0. stage = "fstat" /\ BenchTypeOK /\ Descriptor /\ UNCHANGED <<benchRest, thrown, words, tohost_addr>>
    BY <1>9 DEF StatFile
  <2>1. \/ stage' = "left" /\ rc' \in 0 .. 255 /\ fd' = "closed" /\ ~mapped /\ mapped' = mapped
        \/ stage' = "mmap" /\ rc' = rc /\ fd' = "open" /\ ~mapped /\ mapped' = mapped
    <3>1. CASE elf.defect = "fstat"
      BY <1>9, <2>0, <3>1, LeavesWithByte DEF StatFile, Closed, Descriptor
    <3>2. CASE elf.defect # "fstat"
      BY <1>9, <2>0, <3>2 DEF StatFile, Descriptor
    <3> QED BY <3>1, <3>2
  <2>2. BenchTypeOK' /\ Descriptor'
    BY <2>0, <2>1 DEF BenchTypeOK, Descriptor
  <2> QED BY <2>0, <2>1, <2>2 DEF Quiescent
<1>10. CASE MapFile
  <2>0. stage = "mmap" /\ BenchTypeOK /\ Descriptor /\ UNCHANGED <<benchRest, thrown, words, tohost_addr>>
    BY <1>10 DEF MapFile
  <2>1. \/ stage' = "left" /\ rc' \in 0 .. 255 /\ fd' = "closed" /\ ~mapped /\ mapped' = mapped
        \/ stage' = "parse" /\ rc' = rc /\ fd' = "open" /\ mapped' /\ mapped' \in BOOLEAN
    <3>1. CASE elf.defect = "mmap"
      BY <1>10, <2>0, <3>1, LeavesWithByte DEF MapFile, Closed, Descriptor
    <3>2. CASE elf.defect # "mmap"
      BY <1>10, <2>0, <3>2 DEF MapFile, Descriptor
    <3> QED BY <3>1, <3>2
  <2>2. BenchTypeOK' /\ Descriptor'
    BY <2>0, <2>1 DEF BenchTypeOK, Descriptor
  <2> QED BY <2>0, <2>1, <2>2 DEF Quiescent
<1>3. CASE Parse
  <2>1. stage' = "unmap" /\ thrown' \in BOOLEAN /\ tohost_addr' \in Nat
    <3>1. CASE elf.defect \in HeaderDefects
      BY <1>3, <3>1 DEF Parse, BenchTypeOK
    <3>2. CASE elf.defect \notin HeaderDefects
      BY <1>0, <1>3, <3>2, SymbolIsNumber DEF Parse, BenchTypeOK
    <3> QED BY <3>1, <3>2
  <2>2. BenchTypeOK' /\ Descriptor'
    BY <1>3, <2>1 DEF Parse, BenchTypeOK, Descriptor
  <2> QED BY <1>3, <2>1, <2>2 DEF Parse, Quiescent
<1>11. CASE Unmap
  <2>1. /\ fd' = "closed" /\ ~mapped' /\ mapped' \in BOOLEAN
        /\ UNCHANGED <<benchRest, thrown, words, tohost_addr>>
        /\ \/ stage' = "left" /\ rc' \in 0 .. 255
           \/ stage' = "loaded" /\ rc' = rc
    <3>0. fd' = "closed" /\ mapped' = FALSE /\ UNCHANGED <<benchRest, thrown, words, tohost_addr>>
      BY <1>11 DEF Unmap, Closed, Descriptor
    <3>1. CASE thrown
      <4>1. stage' = "left" /\ rc' \in 0 .. 255
        BY <1>11, <3>1, LeavesWithByte DEF Unmap
      <4> QED BY <3>0, <4>1
    <3>2. CASE ~thrown
      BY <1>11, <3>0, <3>2 DEF Unmap
    <3> QED BY <3>1, <3>2
  <2>2. BenchTypeOK' /\ Descriptor'
    BY <2>1 DEF BenchTypeOK, Descriptor
  <2> QED BY <1>11, <2>1, <2>2 DEF Unmap, Quiescent
<1>4. CASE LoadSram
  BY <1>4 DEF LoadSram, Loaded, BenchTypeOK, Quiescent, Descriptor
<1>5. CASE Reset
  <2>1. /\ stage = "reset" /\ stage' = "run" /\ g_cycles' = g_cycles + ResetToggles /\ g_cycles = 0
        /\ BenchTypeOK /\ Descriptor
        /\ UNCHANGED <<elf, args, loaderVars, mem, exit_reg, exit_code, done, log, rc, reports>>
    BY <1>5 DEF Reset
  <2>2. g_cycles' \in 0 .. ResetToggles + args'.timeout
    BY <1>0, <2>1
  <2>3. BenchTypeOK' /\ Descriptor'
    BY <2>1, <2>2 DEF BenchTypeOK, Descriptor
  <2> QED BY <2>1, <2>3
<1>6. CASE CycleStep
  BY <1>6, CycleStaged DEF CycleStep
<1>7. CASE Return
  <2>1. exit_code' \in Int /\ rc' \in 0 .. 255 /\ stage' = "left"
    <3>1. exit_code' \in Int
      BY <1>7 DEF Return
    <3> QED BY <1>7, <3>1, LeavesWithByte DEF Return
  <2> QED BY <1>7, <2>1 DEF Return, BenchTypeOK, Descriptor
<1>8. CASE UNCHANGED benchVars
  <2>1. BenchTypeOK' /\ Descriptor'
    BY <1>8 DEF benchVars, BenchTypeOK, Descriptor
  <2> QED BY <1>8, <2>1 DEF benchVars, Quiescent
<1> QED BY <1>1, <1>2, <1>3, <1>4, <1>5, <1>6, <1>7, <1>8, <1>9, <1>10, <1>11 DEF BenchNext

(* elf_loader.cpp: whichever of the calls of Mapped::Mapped or checks of   *)
(* the header fails, for every file, the descriptor is closed exactly once *)
(* and the mapping undone by the time load_elf32 has returned or thrown,   *)
(* and the file is mapped while it is read.                                *)
THEOREM LoaderCloses == BenchSpec => []NothingLeftOpen
<1>1. Staged => NothingLeftOpen
  BY DEF Staged, NothingLeftOpen, BenchTypeOK, Descriptor
<1> QED BY <1>1, InitStaged, StepStaged, PTL DEF BenchSpec

-----------------------------------------------------------------------------
(* How a run ends.                                                         *)

LEMMA LeastIsMin ==
  ASSUME NEW S \in SUBSET Nat, NEW i \in S, \A x \in S : i <= x
  PROVE  Min(S) = i
<1>1. \E x \in S : \A y \in S : x =< y
  OBVIOUS
<1>2. Min(S) \in S /\ \A y \in S : Min(S) =< y
  BY <1>1 DEF Min
<1>3. Min(S) \in Nat /\ i \in Nat /\ i <= Min(S) /\ Min(S) <= i
  BY <1>2
<1> QED BY <1>3

Tells(r) == r.what # "tohost" \/ r.val # Zero

LEMMA TellingIs == Telling = { k \in DOMAIN reports : Tells(reports[k]) }
BY DEF Telling, Tells

(* What a cycle adds to the reports when none was telling before.          *)
LEMMA CycleTells ==
  ASSUME reports \in Seq(Report), Telling = {},
         NEW store \in Stores, NEW finish \in BOOLEAN, Cycle(store, finish)
  PROVE  /\ store.what = "exit" =>
              Telling' # {} /\ First'.what = "exit" /\ First'.val = store.val
         /\ store.what = "tohost" /\ store.val # Zero =>
              Telling' # {} /\ First'.what = "tohost" /\ First'.val = store.val
         /\ store.what # "exit" /\ ~(store.what = "tohost" /\ store.val # Zero) =>
              IF finish THEN Telling' # {} /\ First'.what = "finish" ELSE Telling' = {}
<1> DEFINE num == Len(reports)
           r == [at |-> g_cycles, what |-> store.what, val |-> store.val]
           f == [at |-> g_cycles, what |-> "finish", val |-> 0]
           rs == (IF store = Nothing THEN <<>> ELSE << r >>) \o (IF finish THEN << f >> ELSE <<>>)
<1>1. num \in Nat /\ DOMAIN reports = 1 .. num
  OBVIOUS
<1>2. /\ DOMAIN reports' = 1 .. (num + Len(rs)) /\ Len(rs) \in Nat
      /\ \A k \in 1 .. num : reports'[k] = reports[k]
      /\ \A k \in 1 .. Len(rs) : reports'[num + k] = rs[k]
  <2>1. reports' = (IF store = Nothing THEN reports ELSE Append(reports, r))
                   \o (IF finish THEN << f >> ELSE <<>>)
    BY DEF Cycle
  <2> HIDE DEF r, f
  <2>2. CASE store = Nothing /\ finish
    BY <2>1, <2>2
  <2>3. CASE store = Nothing /\ ~finish
    BY <2>1, <2>3
  <2>4. CASE store # Nothing /\ finish
    <3>1. Len(rs) = 2 /\ rs[1] = r /\ rs[2] = f
      BY <2>4
    <3>2. reports' = Append(reports, r) \o << f >>
      BY <2>1, <2>4
    <3>3. /\ DOMAIN reports' = 1 .. (num + 2) /\ reports'[num + 1] = r /\ reports'[num + 2] = f
          /\ \A k \in 1 .. num : reports'[k] = reports[k]
      BY <3>2
    <3> HIDE DEF rs
    <3> QED BY <3>1, <3>3
  <2>5. CASE store # Nothing /\ ~finish
    BY <2>1, <2>5
  <2> QED BY <2>2, <2>3, <2>4, <2>5
<1>3. Telling' = { k \in DOMAIN reports' : Tells(reports'[k]) }
  BY TellingIs DEF Telling, Tells
<1>4. \A k \in 1 .. num : ~Tells(reports[k])
  BY <1>1, TellingIs
<1>5. \A k \in Telling' : k \in Nat /\ k > num /\ k - num \in 1 .. Len(rs) /\ Tells(rs[k - num])
  <2> HIDE DEF rs
  <2> SUFFICES ASSUME NEW k \in Telling'
               PROVE  k \in Nat /\ k > num /\ k - num \in 1 .. Len(rs) /\ Tells(rs[k - num])
    OBVIOUS
  <2>1. k \in 1 .. (num + Len(rs)) /\ Tells(reports'[k])
    BY <1>2, <1>3
  <2>2. k \notin 1 .. num
    <3> SUFFICES ASSUME k \in 1 .. num PROVE FALSE
      OBVIOUS
    <3>1. reports'[k] = reports[k]
      BY <1>2
    <3> QED BY <1>4, <2>1, <3>1
  <2>3. k \in Nat /\ k > num /\ k - num \in 1 .. Len(rs)
    BY <1>1, <1>2, <2>1, <2>2
  <2>4. reports'[k] = rs[k - num]
    BY <1>1, <1>2, <2>3
  <2> QED BY <2>1, <2>3, <2>4
<1>6. ASSUME NEW j \in 1 .. Len(rs), Tells(rs[j]), \A i \in 1 .. Len(rs) : Tells(rs[i]) => j <= i
      PROVE  Telling' # {} /\ First' = rs[j]
  <2> HIDE DEF rs
  <2>1. num + j \in Telling'
    BY <1>1, <1>2, <1>3, <1>6
  <2>2. \A k \in Telling' : num + j <= k
    BY <1>1, <1>2, <1>5, <1>6
  <2>3. Telling' \in SUBSET Nat
    BY <1>5
  <2>4. Min(Telling') = num + j
    <3> HIDE DEF num
    <3> QED BY <2>1, <2>2, <2>3, LeastIsMin
  <2>5. First' = reports'[Min(Telling')]
    BY DEF First
  <2> QED BY <1>2, <2>1, <2>4, <2>5
<1>7. Tells(f) /\ (Tells(r) <=> store.what # "tohost" \/ store.val # Zero)
  BY DEF Tells
<1>8. CASE store.what = "exit" \/ (store.what = "tohost" /\ store.val # Zero)
  <2>1. store # Nothing
    BY <1>8 DEF Nothing
  <2>2. rs[1] = r /\ 1 \in 1 .. Len(rs)
    <3> HIDE DEF r, f
    <3> QED BY <2>1
  <2>3. Tells(rs[1])
    BY <1>7, <1>8, <2>2
  <2>4. Telling' # {} /\ First' = r
    <3> HIDE DEF rs
    <3> QED BY <1>2, <1>6, <2>2, <2>3
  <2> QED BY <1>8, <2>4
<1>9. CASE ~(store.what = "exit" \/ (store.what = "tohost" /\ store.val # Zero))
  <2>1. store # Nothing => ~Tells(r)
    BY <1>7, <1>9, StoreKinds
  <2>2. CASE finish
    <3>1. PICK j \in 1 .. Len(rs) : /\ rs[j] = f
                                    /\ \A i \in 1 .. Len(rs) : i < j => ~Tells(rs[i])
      <4> HIDE DEF r, f
      <4>1. CASE store = Nothing
        BY <2>2, <4>1
      <4>2. CASE store # Nothing
        <5>1. Len(rs) = 2 /\ rs[1] = r /\ rs[2] = f
          BY <2>2, <4>2
        <5> HIDE DEF rs
        <5> QED BY <2>1, <4>2, <5>1
      <4> QED BY <4>1, <4>2
    <3>2. \A i \in 1 .. Len(rs) : Tells(rs[i]) => j <= i
      <4> HIDE DEF rs
      <4> QED BY <1>2, <3>1
    <3>3. Telling' # {} /\ First' = f
      <4> HIDE DEF rs
      <4> QED BY <1>6, <1>7, <3>1, <3>2
    <3> QED BY <1>9, <2>2, <3>3
  <2>3. CASE ~finish
    <3>1. \A i \in 1 .. Len(rs) : ~Tells(rs[i])
      <4> HIDE DEF r, f
      <4>1. CASE store = Nothing
        BY <2>3, <4>1
      <4>2. CASE store # Nothing
        BY <2>1, <2>3, <4>2
      <4> QED BY <4>1, <4>2
    <3>2. Telling' = {}
      BY <1>5, <3>1
    <3> QED BY <1>9, <2>3, <3>2
  <2> QED BY <2>2, <2>3
<1> QED BY <1>8, <1>9

MmioExit(c) == [line |-> "MMIO_exit", code |-> c]

(* Until the loop stops the program has told nothing; what stopped it is   *)
(* the first telling report, unless it is a tohost that was never zero.    *)
Decided ==
  /\ ~done => Telling = {} /\ ~exit_reg.valid /\ \A c \in Nat : MmioExit(c) \notin log
  /\ done => /\ exit_reg.valid <=> (Telling # {} /\ First.what = "exit")
             /\ exit_reg.valid => exit_reg.code = First.val /\ exit_code = First.val
             /\ ~args.quiet => (MmioExit(0) \in log <=> exit_reg.valid /\ exit_reg.code = 0)
  /\ stage = "run" /\ ~done => exit_code = -1
  /\ Ran => rc = IF done THEN Status(exit_code) ELSE 124

LEMMA WordsDiffer == DeadBeef # Zero
<1>1. DeadBeef[1] = 239 /\ Zero[1] = 0
  BY DEF DeadBeef, Zero
<1> QED BY <1>1

LEMMA InSramIndex ==
  ASSUME NEW a \in Nat, InSram(a) PROVE Widx(a) \in 0 .. SramWords - 1
BY SimAssumption DEF InSram, Widx

(* What the poll of a cycle sees.                                          *)
LEMMA PollSees ==
  ASSUME Staged, NEW store \in Stores, NEW finish \in BOOLEAN, Cycle(store, finish)
  PROVE  /\ store.what = "tohost" /\ InSram(tohost_addr) =>
              sram_dpi_read(mem', tohost_addr) = store.val
         /\ store.what = "tohost" /\ store.val # Zero =>
              sram_dpi_read(mem', tohost_addr) # Zero
         /\ store.what # "tohost" /\ InSram(tohost_addr) =>
              sram_dpi_read(mem', tohost_addr) = mem[Widx(tohost_addr)]
<1>1. tohost_addr \in Nat
  BY DEF Staged, BenchTypeOK
<1>2. store.what = "tohost" /\ InSram(tohost_addr) => mem'[Widx(tohost_addr)] = store.val
  <2> SUFFICES ASSUME store.what = "tohost", InSram(tohost_addr)
               PROVE  mem'[Widx(tohost_addr)] = store.val
    OBVIOUS
  <2>1. mem' = [mem EXCEPT ![Widx(tohost_addr)] = store.val]
    BY DEF Cycle
  <2>2. Widx(tohost_addr) \in DOMAIN mem
    BY <1>1, InSramIndex DEF Staged
  <2> QED BY <2>1, <2>2
<1>3. store.what # "tohost" => mem' = mem
  BY DEF Cycle
<1> QED BY <1>2, <1>3, WordsDiffer DEF sram_dpi_read

LEMMA CycleEnds ==
  ASSUME Staged, ~done, ~exit_reg.valid, exit_code = -1,
         NEW store \in Stores, NEW finish \in BOOLEAN, Cycle(store, finish)
  PROVE  LET polled == store.what # "exit" /\ tohost_addr # 0
                       /\ sram_dpi_read(mem', tohost_addr) # Zero
         IN  /\ exit_reg' = IF store.what = "exit" THEN [valid |-> TRUE, code |-> store.val]
                            ELSE exit_reg
             /\ done' <=> store.what = "exit" \/ polled \/ finish
             /\ exit_code' = IF store.what = "exit" THEN store.val
                             ELSE IF polled
                                  THEN IF sram_dpi_read(mem', tohost_addr) = One THEN 0 ELSE 1
                                  ELSE -1
             /\ \A c \in Nat : MmioExit(c) \in log' <=>
                  MmioExit(c) \in log \/ (~args.quiet /\ store.what = "exit" /\ store.val = c)
<1> DEFINE val == sram_dpi_read(mem', tohost_addr)
           polls == PollsTohost(exit_reg'.valid) /\ val # Zero
           polled == store.what # "exit" /\ tohost_addr # 0 /\ val # Zero
<1>1. exit_reg' = IF store.what = "exit" THEN [valid |-> TRUE, code |-> store.val] ELSE exit_reg
  BY DEF Cycle
<1>2. /\ exit_reg'.valid <=> store.what = "exit"
      /\ store.what = "exit" => exit_reg'.code = store.val
  BY <1>1
<1>3. polls <=> polled
  BY <1>2 DEF PollsTohost
<1>4. /\ exit_code' = CASE polls -> IF val = One THEN 0 ELSE 1
                        [] exit_reg'.valid /\ ~polls -> exit_reg'.code
                        [] OTHER -> exit_code
      /\ done' = (exit_reg'.valid \/ polls \/ finish)
  BY DEF Cycle
<1>5. log' = IF args.quiet THEN log
             ELSE log \cup (IF exit_reg'.valid THEN { MmioExit(exit_reg'.code) } ELSE {})
                      \cup (IF polls THEN { [line |-> "tohost", code |-> exit_code'] } ELSE {})
                      \cup (IF finish THEN { [line |-> "gotFinish", code |-> 0] } ELSE {})
  BY DEF Cycle, MmioExit
<1>6. \A c \in Nat : MmioExit(c) \in log' <=>
        MmioExit(c) \in log \/ (~args.quiet /\ store.what = "exit" /\ store.val = c)
  <2> TAKE c \in Nat
  <2>1. \A x : MmioExit(c) = MmioExit(x) <=> c = x
    BY DEF MmioExit
  <2>2. \A x : MmioExit(c) # [line |-> "tohost", code |-> x]
               /\ MmioExit(c) # [line |-> "gotFinish", code |-> x]
    BY DEF MmioExit
  <2> HIDE DEF polls, val
  <2> QED BY <1>2, <1>5, <2>1, <2>2
<1>7. done' <=> store.what = "exit" \/ polled \/ finish
  BY <1>2, <1>3, <1>4
<1>8. exit_code' = IF store.what = "exit" THEN store.val
                   ELSE IF polled THEN IF val = One THEN 0 ELSE 1 ELSE -1
  <2> HIDE DEF val
  <2> QED BY <1>2, <1>3, <1>4 DEF PollsTohost
<1> QED BY <1>1, <1>6, <1>7, <1>8

LEMMA CycleDecides ==
  ASSUME Staged, Decided, NEW store \in Stores, NEW finish \in BOOLEAN, Cycle(store, finish)
  PROVE  Decided'
<1> DEFINE val == sram_dpi_read(mem', tohost_addr)
           polled == store.what # "exit" /\ tohost_addr # 0 /\ val # Zero
<1>1. /\ stage = "run" /\ ~done /\ reports \in Seq(Report)
      /\ UNCHANGED <<args, stage, tohost_addr, rc>>
      /\ store.what = "tohost" => tohost_addr # 0
  BY DEF Cycle, Staged
<1>2. Telling = {} /\ ~exit_reg.valid /\ exit_code = -1 /\ \A c \in Nat : MmioExit(c) \notin log
  BY <1>1 DEF Decided
<1>3. /\ exit_reg' = IF store.what = "exit" THEN [valid |-> TRUE, code |-> store.val] ELSE exit_reg
      /\ done' <=> store.what = "exit" \/ polled \/ finish
      /\ exit_code' = IF store.what = "exit" THEN store.val
                      ELSE IF polled THEN IF val = One THEN 0 ELSE 1 ELSE -1
      /\ \A c \in Nat : MmioExit(c) \in log' <=>
           MmioExit(c) \in log \/ (~args.quiet /\ store.what = "exit" /\ store.val = c)
  BY <1>1, <1>2, CycleEnds
<1>4. /\ store.what = "exit" =>
           Telling' # {} /\ First'.what = "exit" /\ First'.val = store.val
      /\ store.what = "tohost" /\ store.val # Zero =>
           Telling' # {} /\ First'.what = "tohost" /\ First'.val = store.val
      /\ store.what # "exit" /\ ~(store.what = "tohost" /\ store.val # Zero) =>
           IF finish THEN Telling' # {} /\ First'.what = "finish" ELSE Telling' = {}
  BY <1>1, <1>2, CycleTells
<1>5. store.what = "tohost" /\ store.val # Zero => polled
  BY <1>1, PollSees
<1> HIDE DEF val, polled
<1>6. CASE store.what = "exit"
  <2>1. done' /\ exit_reg'.valid /\ exit_reg'.code = store.val /\ exit_code' = store.val
    BY <1>3, <1>6
  <2>2. ~args.quiet => (MmioExit(0) \in log' <=> store.val = 0)
    BY <1>2, <1>3, <1>6
  <2> QED BY <1>1, <1>4, <1>6, <2>1, <2>2 DEF Decided, Ran
<1>7. CASE store.what # "exit"
  <2>1. ~exit_reg'.valid /\ \A c \in Nat : MmioExit(c) \notin log'
    BY <1>2, <1>3, <1>7
  <2>2. ~(Telling' # {} /\ First'.what = "exit")
    BY <1>4, <1>7
  <2>3. ~done' => Telling' = {} /\ exit_code' = -1
    BY <1>3, <1>4, <1>5, <1>7
  <2> QED BY <1>1, <2>1, <2>2, <2>3 DEF Decided, Ran
<1> QED BY <1>6, <1>7

LEMMA InitDecided == ASSUME BenchInit PROVE Decided
BY DEF BenchInit, Decided, Telling, Ran

LEMMA StepDecided == ASSUME Staged, Decided, [BenchNext]_benchVars PROVE Decided'
<1>1. CASE CycleStep
  BY <1>1, CycleDecides DEF CycleStep
<1>2. CASE Return
  <2>1. /\ stage = "run" /\ stage' = "left" /\ rc' = Status(exit_code')
        /\ UNCHANGED <<args, exit_reg, done, reports, g_cycles>>
    BY <1>2 DEF Return, Leave
  <2>2. Telling' = Telling /\ First' = First
    BY <2>1 DEF Telling, First
  <2>3. CASE done
    <3>1. UNCHANGED <<exit_code, log>>
      BY <1>2, <2>3 DEF Return, OutOfCycles
    <3> QED BY <2>1, <2>2, <2>3, <3>1 DEF Decided, Ran
  <2>4. CASE ~done
    <3>1. exit_code' = 124 /\ log' = log \cup { [line |-> "TIMEOUT", code |-> 124] }
      BY <1>2, <2>4 DEF Return, OutOfCycles, LoopOver
    <3>2. \A c \in Nat : MmioExit(c) # [line |-> "TIMEOUT", code |-> 124]
      BY DEF MmioExit
    <3>3. \A c \in Nat : MmioExit(c) \notin log'
      BY <2>4, <3>1, <3>2 DEF Decided
    <3>4. rc' = 124
      BY <2>1, <3>1 DEF Status
    <3> QED BY <2>1, <2>2, <2>4, <3>3, <3>4 DEF Decided
  <2> QED BY <2>3, <2>4
<1>3. CASE StartUp \/ OpenFile \/ StatFile \/ MapFile \/ Parse \/ Unmap \/ LoadSram \/ Reset
  <2>1. /\ stage \notin {"run", "left"} /\ UNCHANGED <<args, exit_reg, exit_code, done, log, reports>>
        /\ stage' = "left" => g_cycles' = g_cycles
    BY <1>3 DEF StartUp, OpenFile, StatFile, MapFile, Parse, Unmap, LoadSram, Reset
  <2>2. Telling' = Telling /\ First' = First
    BY <2>1 DEF Telling, First
  <2>3. ~done /\ exit_code = -1 /\ g_cycles = 0
    BY <2>1 DEF Staged, Quiescent
  <2>4. ~Ran'
    BY <2>1, <2>3 DEF Ran
  <2> QED BY <2>1, <2>2, <2>3, <2>4 DEF Decided
<1>4. CASE UNCHANGED benchVars
  BY <1>4 DEF benchVars, Decided, Telling, First, Ran
<1> QED BY <1>1, <1>2, <1>3, <1>4 DEF BenchNext

(* sim_main.cpp: the harness counts a C program as passed exactly when the *)
(* program's first telling report is an exit with code 0: a tohost word, a *)
(* $finish or running out of cycles never looks like one, for every        *)
(* program, cap and order of reports.                                      *)
THEOREM CPassesHonestly == BenchSpec => []CPassIsHonest
<1>1. Staged /\ Decided => CPassIsHonest
  <2> SUFFICES ASSUME Staged, Decided, Ran, ~args.quiet
               PROVE  HarnessPassed <=> Telling # {} /\ First.what = "exit" /\ First.val = 0
    BY DEF CPassIsHonest
  <2>1. HarnessPassed <=> rc = 0 /\ MmioExit(0) \in log
    BY DEF HarnessPassed, CPassed, MmioExit
  <2>2. CASE done
    <3>1. rc = Status(exit_code)
      BY <2>2 DEF Decided
    <3>2. MmioExit(0) \in log <=> exit_reg.valid /\ exit_reg.code = 0
      BY <2>2 DEF Decided
    <3>3. exit_reg.valid /\ exit_reg.code = 0 => rc = 0
      BY <2>2, <3>1 DEF Decided, Status
    <3> QED BY <2>1, <2>2, <3>2, <3>3 DEF Decided
  <2>3. CASE ~done
    BY <2>1, <2>3 DEF Decided
  <2> QED BY <2>2, <2>3
<1> QED BY <1>1, InitStaged, StepStaged, InitDecided, StepDecided, PTL DEF BenchSpec

-----------------------------------------------------------------------------
(* What FlattenSeq makes of a sequence of sequences.                       *)

FlatStep(f, S, i) == IF i = 1 THEN S[i] ELSE f[i - 1] \o S[i]

LEMMA FlatExists ==
  ASSUME NEW S, NEW num \in Nat
  PROVE  \E f : f = [i \in 1 .. num |-> FlatStep(f, S, i)]
<1> DEFINE Runs(m) == \E f : f = [i \in 1 .. m |-> FlatStep(f, S, i)]
           T == { m \in 0 .. num : Runs(m) }
<1>1. 0 \in T
  <2> DEFINE f0 == [i \in 1 .. 0 |-> S[i]]
  <2>1. f0 = [i \in 1 .. 0 |-> FlatStep(f0, S, i)]
    OBVIOUS
  <2> HIDE DEF f0
  <2>2. Runs(0)
    BY <2>1
  <2> HIDE DEF Runs
  <2> QED BY <2>2
<1>2. ASSUME NEW m \in 0 .. (num - 1), m \in T PROVE m + 1 \in T
  <2>1. PICK f : f = [i \in 1 .. m |-> FlatStep(f, S, i)]
    BY <1>2
  <2> DEFINE g == [i \in 1 .. (m + 1) |-> IF i = m + 1 THEN FlatStep(f, S, i) ELSE f[i]]
  <2>2. \A i \in 1 .. (m + 1) : g[i] = FlatStep(g, S, i)
    <3> TAKE i \in 1 .. (m + 1)
    <3>1. i # 1 => g[i - 1] = f[i - 1]
      OBVIOUS
    <3>2. FlatStep(f, S, i) = FlatStep(g, S, i)
      BY <3>1, Zenon DEF FlatStep
    <3>3. CASE i = m + 1
      BY <3>2, <3>3
    <3>4. CASE i # m + 1
      <4>1. i \in 1 .. m
        BY <3>4
      <4>2. f[i] = FlatStep(f, S, i)
        BY <2>1, <4>1
      <4> QED BY <3>2, <3>4, <4>2
    <3> QED BY <3>3, <3>4
  <2>3. g = [i \in 1 .. (m + 1) |-> FlatStep(g, S, i)]
    BY <2>2
  <2> HIDE DEF g
  <2>4. \E h : h = [i \in 1 .. (m + 1) |-> FlatStep(h, S, i)]
    BY <2>3
  <2>5. m + 1 \in 0 .. num
    OBVIOUS
  <2> QED BY <2>4, <2>5
<1> HIDE DEF T
<1>3. \A m \in 0 .. num : m \in T
  BY <1>1, <1>2, CountingUp
<1> QED BY <1>3 DEF T

(* The sequences of S lie in fs one after the other and nothing else does; *)
(* off[i] is where the i-th begins.                                        *)
LaidOut(E, S, fs) ==
  \E off \in [1 .. Len(S) + 1 -> Nat] :
      /\ \A i \in 1 .. Len(S), h \in 1 .. Len(S) + 1 : i < h => off[i] + Len(S[i]) <= off[h]
      /\ fs \in Seq(E)
      /\ \A i \in 1 .. Len(S) : \A j \in 1 .. Len(S[i]) :
            /\ off[i] + j \in DOMAIN fs
            /\ fs[off[i] + j] = S[i][j]
      /\ \A k \in DOMAIN fs :
            \E i \in 1 .. Len(S) : \E j \in 1 .. Len(S[i]) : k = off[i] + j

LEMMA Flattened ==
  ASSUME NEW E, NEW S \in Seq(Seq(E)), S # <<>>
  PROVE  LaidOut(E, S, FlattenSeq(S))
<1> DEFINE num == Len(S)
           f == CHOOSE g : g = [i \in 1 .. num |-> FlatStep(g, S, i)]
           off == [i \in 1 .. num + 1 |-> IF i = 1 THEN 0 ELSE Len(f[i - 1])]
<1>1. num \in Nat /\ num > 0 /\ \A i \in 1 .. num : S[i] \in Seq(E)
  BY ElementOfSeq
<1>2. f = [i \in 1 .. num |-> FlatStep(f, S, i)]
  BY <1>1, FlatExists
<1>3. FlattenSeq(S) = f[num]
  BY <1>1 DEF FlattenSeq, FlatStep
<1> HIDE DEF f, num
<1>4. /\ f[1] = S[1]
      /\ \A i \in 1 .. (num - 1) : f[i + 1] = f[i] \o S[i + 1]
  <2>1. f[1] = S[1]
    BY <1>1, <1>2 DEF FlatStep
  <2>2. ASSUME NEW i \in 1 .. (num - 1) PROVE f[i + 1] = f[i] \o S[i + 1]
    <3>1. i + 1 \in 1 .. num /\ i + 1 # 1 /\ (i + 1) - 1 = i
      BY <1>1
    <3>2. f[i + 1] = FlatStep(f, S, i + 1)
      BY <1>2, <3>1
    <3> QED BY <3>1, <3>2 DEF FlatStep
  <2> QED BY <2>1, <2>2
<1>5. \A m \in 1 .. num : f[m] \in Seq(E)
  <2> DEFINE T == { m \in 0 .. num : m = 0 \/ f[m] \in Seq(E) }
  <2>1. 0 \in T
    BY <1>1
  <2>2. ASSUME NEW m \in 0 .. (num - 1), m \in T PROVE m + 1 \in T
    <3>1. m + 1 \in 1 .. num /\ S[m + 1] \in Seq(E)
      BY <1>1
    <3>2. CASE m = 0
      BY <1>4, <3>1, <3>2
    <3>3. CASE m # 0
      <4>1. f[m] \in Seq(E) /\ m \in 1 .. (num - 1)
        BY <2>2, <3>3
      <4>2. f[m + 1] = f[m] \o S[m + 1]
        BY <1>4, <4>1
      <4>3. f[m + 1] \in Seq(E)
        BY <3>1, <4>1, <4>2
      <4> QED BY <3>1, <4>3
    <3> QED BY <3>2, <3>3
  <2> HIDE DEF T
  <2>3. \A m \in 0 .. num : m \in T
    BY <1>1, <2>1, <2>2, CountingUp
  <2> QED BY <2>3 DEF T
<1>6. /\ off \in [1 .. num + 1 -> Nat] /\ off[1] = 0
      /\ \A i \in 1 .. num : off[i + 1] = Len(f[i]) /\ off[i + 1] = off[i] + Len(S[i])
  <2>1. \A i \in 1 .. num : off[i + 1] = Len(f[i]) /\ Len(f[i]) \in Nat
    BY <1>1, <1>5
  <2>2. off \in [1 .. num + 1 -> Nat] /\ off[1] = 0
    <3> SUFFICES ASSUME NEW i \in 1 .. num + 1 PROVE i # 1 => Len(f[i - 1]) \in Nat
      BY <1>1
    <3> QED BY <1>1, <1>5
  <2>3. ASSUME NEW i \in 1 .. num PROVE off[i + 1] = off[i] + Len(S[i])
    <3> HIDE DEF off
    <3>1. CASE i = 1
      BY <1>1, <1>4, <2>1, <2>2, <3>1
    <3>2. CASE i # 1
      <4>1. i - 1 \in 1 .. (num - 1) /\ (i - 1) + 1 = i
        BY <1>1, <3>2
      <4>2. f[i] = f[i - 1] \o S[i]
        BY <1>4, <4>1
      <4>3. Len(f[i]) = Len(f[i - 1]) + Len(S[i])
        BY <1>1, <1>5, <4>1, <4>2
      <4>4. off[i] = Len(f[i - 1])
        <5>1. i - 1 \in 1 .. num
          BY <1>1, <4>1
        <5>2. off[(i - 1) + 1] = Len(f[i - 1])
          BY <2>1, <5>1
        <5> QED BY <4>1, <5>2
      <4> QED BY <2>1, <4>3, <4>4
    <3> QED BY <3>1, <3>2
  <2> QED BY <2>1, <2>2, <2>3
<1> HIDE DEF off
<1> DEFINE Ordered(m) == \A i \in 1 .. m, h \in 1 .. m + 1 : i < h => off[i] + Len(S[i]) <= off[h]
           Placed(m) == \A i \in 1 .. m : \A j \in 1 .. Len(S[i]) :
                          off[i] + j \in DOMAIN f[m] /\ f[m][off[i] + j] = S[i][j]
           Whole(m) == \A k \in DOMAIN f[m] : \E i \in 1 .. m : \E j \in 1 .. Len(S[i]) : k = off[i] + j
           T == { m \in 0 .. num : m = 0 \/ (Ordered(m) /\ Placed(m) /\ Whole(m)) }
<1>7. 0 \in T
  BY <1>1
<1>8. ASSUME NEW m \in 0 .. (num - 1), m \in T PROVE m + 1 \in T
  <2>1. /\ m + 1 \in 1 .. num /\ m + 2 = (m + 1) + 1
        /\ \A i \in 1 .. num : Len(S[i]) \in Nat /\ DOMAIN S[i] = 1 .. Len(S[i])
        /\ \A i \in 1 .. num : Len(f[i]) \in Nat /\ DOMAIN f[i] = 1 .. Len(f[i])
    BY <1>1, <1>5
  <2>2. off[m + 2] = off[m + 1] + Len(S[m + 1]) /\ off[m + 2] = Len(f[m + 1]) /\ off[m + 1] \in Nat
    BY <1>1, <1>6, <2>1
  <2>3. Ordered(m + 1)
    <3> SUFFICES ASSUME NEW i \in 1 .. m + 1, NEW h \in 1 .. m + 2, i < h
                 PROVE  off[i] + Len(S[i]) <= off[h]
      BY <2>1
    <3>1. CASE h <= m + 1
      <4>1. m # 0 /\ i \in 1 .. m /\ h \in 1 .. m + 1
        BY <3>1
      <4> QED BY <1>8, <4>1
    <3>2. CASE h = m + 2
      <4>1. CASE i = m + 1
        BY <2>2, <3>2, <4>1
      <4>2. CASE i # m + 1
        <5>1. m # 0 /\ i \in 1 .. m /\ m + 1 \in 1 .. m + 1 /\ i < m + 1
          BY <4>2
        <5>2. off[i] + Len(S[i]) <= off[m + 1]
          BY <1>8, <5>1
        <5>3. off[i] \in Nat /\ Len(S[i]) \in Nat /\ Len(S[m + 1]) \in Nat
          BY <1>1, <1>6, <2>1, <5>1
        <5>4. off[h] = off[m + 1] + Len(S[m + 1]) /\ off[m + 1] \in Nat
          BY <2>2, <3>2
        <5> QED BY <5>2, <5>3, <5>4
      <4> QED BY <4>1, <4>2
    <3> QED BY <3>1, <3>2
  <2>4. CASE m = 0
    <3>1. /\ off[1] = 0 /\ f[1] = S[1] /\ Len(S[1]) \in Nat /\ DOMAIN S[1] = 1 .. Len(S[1])
      BY <1>1, <1>4, <1>6
    <3>2. \A i \in 1 .. 1 : i = 1
      OBVIOUS
    <3>3. Placed(1) /\ Whole(1)
      BY <3>1, <3>2
    <3> HIDE DEF Ordered, Placed, Whole
    <3> QED BY <2>1, <2>3, <2>4, <3>3
  <2>5. CASE m # 0
    <3>1. m \in 1 .. (num - 1) /\ m \in 1 .. num
      BY <1>1, <2>5
    <3>2. Placed(m) /\ Whole(m)
      <4> HIDE DEF Placed, Whole, Ordered
      <4> QED BY <1>8, <2>5
    <3>3. f[m + 1] = f[m] \o S[m + 1] /\ off[m + 1] = Len(f[m])
      BY <1>4, <1>6, <3>1
    <3>4. /\ \A k \in 1 .. Len(f[m]) : k \in DOMAIN f[m + 1] /\ f[m + 1][k] = f[m][k]
          /\ \A j \in 1 .. Len(S[m + 1]) : /\ off[m + 1] + j \in DOMAIN f[m + 1]
                                           /\ f[m + 1][off[m + 1] + j] = S[m + 1][j]
      <4>1. f[m] \in Seq(E) /\ S[m + 1] \in Seq(E)
        BY <1>1, <1>5, <2>1, <3>1
      <4> DEFINE x == f[m]
                 y == S[m + 1]
      <4> HIDE DEF x, y
      <4>2. /\ \A k \in 1 .. Len(x) : k \in DOMAIN (x \o y) /\ (x \o y)[k] = x[k]
            /\ \A j \in 1 .. Len(y) : /\ Len(x) + j \in DOMAIN (x \o y)
                                     /\ (x \o y)[Len(x) + j] = y[j]
        <5>1. x \in Seq(E) /\ y \in Seq(E)
          BY <4>1 DEF x, y
        <5> QED BY <5>1
      <4> QED BY <3>3, <4>2 DEF x, y
    <3>5. Placed(m + 1)
      <4> SUFFICES ASSUME NEW i \in 1 .. m + 1, NEW j \in 1 .. Len(S[i])
                   PROVE  off[i] + j \in DOMAIN f[m + 1] /\ f[m + 1][off[i] + j] = S[i][j]
        OBVIOUS
      <4>1. CASE i = m + 1
        BY <3>4, <4>1
      <4>2. CASE i # m + 1
        <5>1. i \in 1 .. m
          BY <4>2
        <5>2. off[i] + j \in DOMAIN f[m] /\ f[m][off[i] + j] = S[i][j]
          BY <3>2, <5>1
        <5> QED BY <2>1, <3>1, <3>4, <5>2
      <4> QED BY <4>1, <4>2
    <3>6. Whole(m + 1)
      <4> SUFFICES ASSUME NEW k \in DOMAIN f[m + 1]
                   PROVE  \E i \in 1 .. m + 1 : \E j \in 1 .. Len(S[i]) : k = off[i] + j
        OBVIOUS
      <4>1. k \in 1 .. (off[m + 1] + Len(S[m + 1])) /\ k \in Nat
        BY <2>1, <2>2
      <4>2. CASE k <= off[m + 1]
        <5>1. k \in DOMAIN f[m]
          BY <2>1, <3>1, <3>3, <4>1, <4>2
        <5>2. PICK i \in 1 .. m : \E j \in 1 .. Len(S[i]) : k = off[i] + j
          BY <3>2, <5>1
        <5> QED BY <5>2
      <4>3. CASE ~(k <= off[m + 1])
        <5> DEFINE j == k - off[m + 1]
        <5>1. j \in 1 .. Len(S[m + 1]) /\ k = off[m + 1] + j
          <6>1. off[m + 1] \in Nat /\ Len(S[m + 1]) \in Nat
            BY <2>1, <2>2
          <6>2. k \in Nat /\ k <= off[m + 1] + Len(S[m + 1]) /\ k > off[m + 1]
            BY <4>1, <4>3, <6>1
          <6> QED BY <6>1, <6>2
        <5> QED BY <5>1
      <4> QED BY <4>2, <4>3
    <3> HIDE DEF Ordered, Placed, Whole
    <3> QED BY <2>1, <2>3, <3>5, <3>6
  <2> QED BY <2>4, <2>5
<1> HIDE DEF T
<1>9. \A m \in 0 .. num : m \in T
  BY <1>1, <1>7, <1>8, CountingUp
<1>10. Ordered(num) /\ Placed(num) /\ Whole(num)
  <2> HIDE DEF Ordered, Placed, Whole
  <2> QED BY <1>1, <1>9 DEF T
<1>11. FlattenSeq(S) \in Seq(E)
  BY <1>1, <1>3, <1>5
<1>12. /\ off \in [1 .. Len(S) + 1 -> Nat]
       /\ \A i \in 1 .. Len(S), h \in 1 .. Len(S) + 1 : i < h => off[i] + Len(S[i]) <= off[h]
       /\ \A i \in 1 .. Len(S) : \A j \in 1 .. Len(S[i]) :
             /\ off[i] + j \in DOMAIN FlattenSeq(S)
             /\ FlattenSeq(S)[off[i] + j] = S[i][j]
       /\ \A k \in DOMAIN FlattenSeq(S) :
             \E i \in 1 .. Len(S) : \E j \in 1 .. Len(S[i]) : k = off[i] + j
  BY <1>3, <1>6, <1>10 DEF num
<1> HIDE DEF Ordered, Placed, Whole
<1> QED BY <1>11, <1>12 DEF LaidOut

-----------------------------------------------------------------------------
(* The words of a segment.                                                 *)

Word == [byte_addr : Nat, data : [1 .. 4 -> Bytes]]

FileByte(ph, num) == IF num < Len(ph.data) THEN ph.data[num + 1] ELSE 0

LEMMA WordsForBounds ==
  ASSUME NEW num \in Int
  PROVE  /\ WordsFor(num) \in Nat
         /\ num <= 4 * WordsFor(num)
         /\ WordsFor(num) # 0 => num > 4 * (WordsFor(num) - 1)
         /\ num > 0 => WordsFor(num) > 0
BY DEF WordsFor

LEMMA HeaderTypes ==
  ASSUME NEW ph \in ProgramHeader
  PROVE  /\ LoadAddr(ph) \in Nat /\ ph.memsz \in Nat /\ ph.data \in Seq(Bytes)
         /\ Len(ph.data) \in Nat /\ ph.load \in BOOLEAN /\ Size(ph) \in Nat
         /\ \A num \in Nat : FileByte(ph, num) \in Bytes
<1>1. /\ LoadAddr(ph) \in Nat /\ ph.memsz \in Nat /\ ph.data \in Seq(Bytes)
      /\ Len(ph.data) \in Nat /\ ph.load \in BOOLEAN
  BY DEF ProgramHeader, LoadAddr
<1>2. ASSUME NEW num \in Nat PROVE FileByte(ph, num) \in Bytes
  <2>1. CASE num < Len(ph.data)
    <3>1. num + 1 \in 1 .. Len(ph.data)
      BY <1>1, <2>1
    <3> QED BY <1>1, <2>1, <3>1, ElementOfSeq DEF FileByte
  <2>2. CASE ~(num < Len(ph.data))
    BY <2>2 DEF FileByte, Bytes
  <2> QED BY <2>1, <2>2
<1> QED BY <1>1, <1>2 DEF Size

LEMMA FileWordsAre ==
  ASSUME NEW ph \in ProgramHeader
  PROVE  /\ FileWords(ph) \in Seq(Word) /\ Len(FileWords(ph)) = WordsFor(Len(ph.data))
         /\ \A k \in 1 .. Len(FileWords(ph)) :
              /\ FileWords(ph)[k].byte_addr = LoadAddr(ph) + 4 * (k - 1)
              /\ \A b \in 0 .. 3 : FileWords(ph)[k].data[b + 1] = FileByte(ph, 4 * (k - 1) + b)
<1> DEFINE N == WordsFor(Len(ph.data))
           bytes(k) == [b \in 1 .. 4 |-> IF 4 * (k - 1) + b <= Len(ph.data)
                                        THEN ph.data[4 * (k - 1) + b] ELSE 0]
           word(k) == [byte_addr |-> LoadAddr(ph) + 4 * (k - 1), data |-> bytes(k)]
<1>1. N \in Nat
  <2>1. Len(ph.data) \in Int
    BY HeaderTypes
  <2> QED BY <2>1, WordsForBounds
<1>2. FileWords(ph) = [k \in 1 .. N |-> word(k)]
  BY DEF FileWords
<1>3. ASSUME NEW k \in 1 .. N, NEW b \in 0 .. 3
      PROVE  bytes(k)[b + 1] = FileByte(ph, 4 * (k - 1) + b) /\ 4 * (k - 1) + b \in Nat
  <2>1. b + 1 \in 1 .. 4 /\ k \in Nat /\ k >= 1
    BY <1>1
  <2>2. bytes(k)[b + 1] = IF 4 * (k - 1) + (b + 1) <= Len(ph.data)
                          THEN ph.data[4 * (k - 1) + (b + 1)] ELSE 0
    BY <2>1
  <2>3. 4 * (k - 1) + (b + 1) = (4 * (k - 1) + b) + 1 /\ 4 * (k - 1) + b \in Nat
    BY <2>1
  <2>4. 4 * (k - 1) + (b + 1) <= Len(ph.data) <=> 4 * (k - 1) + b < Len(ph.data)
    BY <2>3, HeaderTypes
  <2> HIDE DEF bytes
  <2> QED BY <2>2, <2>3, <2>4 DEF FileByte
<1>4. \A k \in 1 .. N : bytes(k) \in [1 .. 4 -> Bytes]
  <2> SUFFICES ASSUME NEW k \in 1 .. N, NEW c \in 1 .. 4 PROVE bytes(k)[c] \in Bytes
    OBVIOUS
  <2>1. c - 1 \in 0 .. 3 /\ (c - 1) + 1 = c
    OBVIOUS
  <2> HIDE DEF bytes
  <2>2. bytes(k)[c] = FileByte(ph, 4 * (k - 1) + (c - 1)) /\ 4 * (k - 1) + (c - 1) \in Nat
    BY <1>3, <2>1
  <2> QED BY <2>2, HeaderTypes
<1> HIDE DEF bytes
<1>5. \A k \in 1 .. N : word(k) \in Word /\ word(k).byte_addr = LoadAddr(ph) + 4 * (k - 1)
                        /\ word(k).data = bytes(k)
  BY <1>1, <1>4, HeaderTypes DEF Word
<1> HIDE DEF word, N
<1>6. /\ FileWords(ph) \in Seq(Word) /\ Len(FileWords(ph)) = N
      /\ \A k \in 1 .. N : FileWords(ph)[k] = word(k)
  BY <1>1, <1>2, <1>5
<1> QED BY <1>3, <1>5, <1>6 DEF N

LEMMA BssWordsAre ==
  ASSUME NEW ph \in ProgramHeader
  PROVE  /\ BssWords(ph) \in Seq(Word) /\ Len(BssWords(ph)) = WordsFor(ph.memsz - Len(ph.data))
         /\ \A k \in 1 .. Len(BssWords(ph)) :
              /\ BssWords(ph)[k].byte_addr = LoadAddr(ph) + Len(ph.data) + 4 * (k - 1)
              /\ \A b \in 0 .. 3 : BssWords(ph)[k].data[b + 1] = 0
<1> DEFINE N == WordsFor(ph.memsz - Len(ph.data))
           word(k) == [byte_addr |-> LoadAddr(ph) + Len(ph.data) + 4 * (k - 1), data |-> Zero]
<1>1. N \in Nat
  <2>1. ph.memsz - Len(ph.data) \in Int
    BY HeaderTypes
  <2> QED BY <2>1, WordsForBounds
<1>2. BssWords(ph) = [k \in 1 .. N |-> word(k)]
  BY DEF BssWords
<1>3. Zero \in [1 .. 4 -> Bytes] /\ \A b \in 0 .. 3 : Zero[b + 1] = 0
  BY DEF Zero, Bytes
<1>4. \A k \in 1 .. N : /\ word(k) \in Word /\ word(k).data = Zero
                        /\ word(k).byte_addr = LoadAddr(ph) + Len(ph.data) + 4 * (k - 1)
  BY <1>1, <1>3, HeaderTypes DEF Word
<1> HIDE DEF word, N
<1>5. /\ BssWords(ph) \in Seq(Word) /\ Len(BssWords(ph)) = N
      /\ \A k \in 1 .. N : BssWords(ph)[k] = word(k)
  BY <1>1, <1>2, <1>4
<1> QED BY <1>3, <1>4, <1>5 DEF N

NF(ph) == WordsFor(Len(ph.data))
NB(ph) == WordsFor(ph.memsz - Len(ph.data))

(* The words of a segment: those of the file, filled up with zeros, and    *)
(* then words of zeros, each kind as many as it takes.                     *)
LEMMA SegmentIs ==
  ASSUME NEW ph \in ProgramHeader, ph.load
  PROVE  /\ SegmentWords(ph) \in Seq(Word) /\ NF(ph) \in Nat /\ NB(ph) \in Nat
         /\ Len(SegmentWords(ph)) = NF(ph) + NB(ph)
         /\ Len(ph.data) <= 4 * NF(ph) /\ (NF(ph) # 0 => Len(ph.data) > 4 * (NF(ph) - 1))
         /\ ph.memsz - Len(ph.data) <= 4 * NB(ph)
         /\ NB(ph) # 0 => ph.memsz - Len(ph.data) > 4 * (NB(ph) - 1) /\ ph.memsz > Len(ph.data)
         /\ \A k \in 1 .. NF(ph) :
              /\ SegmentWords(ph)[k].byte_addr = LoadAddr(ph) + 4 * (k - 1)
              /\ \A b \in 0 .. 3 : SegmentWords(ph)[k].data[b + 1] = FileByte(ph, 4 * (k - 1) + b)
         /\ \A k \in 1 .. NB(ph) :
              /\ SegmentWords(ph)[NF(ph) + k].byte_addr = LoadAddr(ph) + Len(ph.data) + 4 * (k - 1)
              /\ \A b \in 0 .. 3 : SegmentWords(ph)[NF(ph) + k].data[b + 1] = 0
<1> DEFINE L == Len(ph.data)
           F == Len(FileWords(ph))
           B == Len(BssWords(ph))
           ws == SegmentWords(ph)
<1>1. /\ LoadAddr(ph) \in Nat /\ ph.memsz \in Nat /\ L \in Nat
      /\ FileWords(ph) \in Seq(Word) /\ BssWords(ph) \in Seq(Word) /\ F \in Nat /\ B \in Nat
  BY HeaderTypes, FileWordsAre, BssWordsAre
<1>3. F = NF(ph) /\ B = NB(ph)
  BY FileWordsAre, BssWordsAre DEF NF, NB
<1>2. /\ L <= 4 * F /\ (F # 0 => L > 4 * (F - 1))
      /\ ph.memsz - L <= 4 * B /\ (B # 0 => ph.memsz - L > 4 * (B - 1))
      /\ B # 0 => ph.memsz > L
  <2>1. F = WordsFor(L) /\ B = WordsFor(ph.memsz - L)
    BY FileWordsAre, BssWordsAre
  <2>2. L \in Int /\ ph.memsz - L \in Int
    BY <1>1
  <2>3. L <= 4 * WordsFor(L) /\ (WordsFor(L) # 0 => L > 4 * (WordsFor(L) - 1))
    BY <2>2, WordsForBounds
  <2>4. /\ ph.memsz - L <= 4 * WordsFor(ph.memsz - L)
        /\ WordsFor(ph.memsz - L) # 0 => ph.memsz - L > 4 * (WordsFor(ph.memsz - L) - 1)
    BY <2>2, WordsForBounds
  <2>5. WordsFor(ph.memsz - L) # 0 => ph.memsz - L > 0
    BY <2>2 DEF WordsFor
  <2>6. ph.memsz - L > 0 => ph.memsz > L
    BY <1>1
  <2> HIDE DEF L, F, B
  <2> QED BY <2>1, <2>3, <2>4, <2>5, <2>6
<1>4. /\ ws = FileWords(ph) \o BssWords(ph) /\ ws \in Seq(Word) /\ Len(ws) = F + B
      /\ \A k \in 1 .. F : ws[k] = FileWords(ph)[k]
      /\ \A k \in 1 .. B : ws[F + k] = BssWords(ph)[k]
  BY <1>1 DEF SegmentWords
<1>5. \A k \in 1 .. F :
        /\ ws[k].byte_addr = LoadAddr(ph) + 4 * (k - 1)
        /\ \A b \in 0 .. 3 : ws[k].data[b + 1] = FileByte(ph, 4 * (k - 1) + b)
  <2> HIDE DEF ws
  <2> QED BY <1>4, FileWordsAre
<1>6. \A k \in 1 .. B :
        /\ ws[F + k].byte_addr = LoadAddr(ph) + L + 4 * (k - 1)
        /\ \A b \in 0 .. 3 : ws[F + k].data[b + 1] = 0
  <2> SUFFICES ASSUME NEW k \in 1 .. B
               PROVE  /\ ws[F + k].byte_addr = LoadAddr(ph) + L + 4 * (k - 1)
                      /\ \A b \in 0 .. 3 : ws[F + k].data[b + 1] = 0
    OBVIOUS
  <2>1. ws[F + k] = BssWords(ph)[k]
    BY <1>4
  <2>2. /\ BssWords(ph)[k].byte_addr = LoadAddr(ph) + L + 4 * (k - 1)
        /\ \A b \in 0 .. 3 : BssWords(ph)[k].data[b + 1] = 0
    BY BssWordsAre
  <2> HIDE DEF ws
  <2> QED BY <2>1, <2>2
<1> HIDE DEF ws, F, B
<1> QED BY <1>1, <1>2, <1>3, <1>4, <1>5, <1>6 DEF ws, L

-----------------------------------------------------------------------------
(* The image in the SRAM.                                                  *)

LEMMA WordStartIs ==
  ASSUME NEW x \in Int, NEW w \in Int, NEW c \in 0 .. 3, x = SramBase + 4 * w + c
  PROVE  WordStart(x) = SramBase + 4 * w
<1>1. SramBase \in Nat
  BY SimAssumption
<1>2. x - SramBase = 4 * w + c
  BY <1>1
<1>3. (4 * w + c) % 4 = c
  OBVIOUS
<1> QED BY <1>1, <1>2, <1>3 DEF WordStart

LEMMA SplitByFour ==
  ASSUME NEW x \in Int
  PROVE  \E w \in Int, c \in 0 .. 3 : x = 4 * w + c
<1> DEFINE w == x \div 4
           c == x % 4
<1>1. w \in Int /\ c \in 0 .. 3 /\ x = 4 * w + c
  OBVIOUS
<1> HIDE DEF w, c
<1> QED BY <1>1

LEMMA InPlace ==
  ASSUME NEW y \in Int, NEW i \in Nat
  PROVE  y \div 4 = i <=> 4 * i <= y /\ y <= 4 * i + 3
OBVIOUS

(* A segment in words and offsets into them: it begins at byte c of word z *)
(* of the SRAM, its file has 4l + r bytes, and its last byte is byte d of  *)
(* the word m after its first.                                             *)
Measures(ph, z, c, l, r, m, d) ==
  /\ LoadAddr(ph) = SramBase + 4 * z + c
  /\ Len(ph.data) = 4 * l + r
  /\ Size(ph) = 4 * m + d + 1

LEMMA InWords ==
  ASSUME NEW ph \in ProgramHeader
  PROVE  \E z \in Int, c \in 0 .. 3, l \in Int, r \in 0 .. 3, m \in Int, d \in 0 .. 3 :
           Measures(ph, z, c, l, r, m, d)
<1>1. SramBase \in Nat /\ LoadAddr(ph) \in Nat /\ Len(ph.data) \in Nat /\ Size(ph) \in Nat
  BY SimAssumption, HeaderTypes
<1>2. PICK x \in Int : x = LoadAddr(ph) - SramBase
  BY <1>1
<1>3. PICK y \in Int : y = Size(ph) - 1
  BY <1>1
<1>4. PICK z \in Int, c \in 0 .. 3 : x = 4 * z + c
  BY SplitByFour
<1>5. PICK l \in Int, r \in 0 .. 3 : Len(ph.data) = 4 * l + r
  <2>1. Len(ph.data) \in Int
    BY <1>1
  <2> QED BY <2>1, SplitByFour
<1>6. PICK m \in Int, d \in 0 .. 3 : y = 4 * m + d
  BY SplitByFour
<1>7. LoadAddr(ph) = SramBase + 4 * z + c
  BY <1>1, <1>2, <1>4
<1>8. Size(ph) = 4 * m + d + 1
  BY <1>1, <1>3, <1>6
<1>9. Measures(ph, z, c, l, r, m, d)
  BY <1>5, <1>7, <1>8 DEF Measures
<1> QED BY <1>9

(* What a segment spoils, in the same terms.                               *)
SpoiltRange(ph, c, l, r, m) ==
  /\ c # 0 => Spoils(ph) = LoadAddr(ph) - 3 .. LoadAddr(ph) + Size(ph) + 3
  /\ c = 0 /\ r # 0 /\ ph.memsz > Len(ph.data) =>
       Spoils(ph) = (LoadAddr(ph) + 4 * l .. LoadAddr(ph) + 4 * l + r - 1)
                    \cup (LoadAddr(ph) + 4 * m .. LoadAddr(ph) + 4 * m + 3)
  /\ c = 0 /\ ~(r # 0 /\ ph.memsz > Len(ph.data)) =>
       Spoils(ph) = LoadAddr(ph) + Size(ph) .. LoadAddr(ph) + 4 * m + 3

LEMMA SpoilsIs ==
  ASSUME NEW ph \in ProgramHeader, NEW z \in Int, NEW c \in 0 .. 3, NEW l \in Int, NEW r \in 0 .. 3,
         NEW m \in Int, NEW d \in 0 .. 3, Measures(ph, z, c, l, r, m, d)
  PROVE  SpoiltRange(ph, c, l, r, m)
<1> DEFINE A == LoadAddr(ph)
           L == Len(ph.data)
           S == Size(ph)
<1>1. /\ SramBase \in Nat /\ A \in Nat /\ L \in Nat /\ S \in Nat
      /\ A = SramBase + 4 * z + c /\ L = 4 * l + r /\ S = 4 * m + d + 1
  BY SimAssumption, HeaderTypes DEF Measures
<1> HIDE DEF A, L, S
<1>3. WordStart(A) = SramBase + 4 * z
  BY <1>1, WordStartIs
<1>4. WordStart(A) # A <=> c # 0
  BY <1>1, <1>3
<1>5. ASSUME c = 0
      PROVE  /\ WordStart(A + L) = A + 4 * l /\ WordStart(A + S - 1) = A + 4 * m
             /\ WordStart(A + S + 3) - 1 = A + 4 * m + 3 /\ A + L - 1 = A + 4 * l + r - 1
  <2>1. WordStart(A + L) = SramBase + 4 * (z + l)
    <3>1. PICK w \in Int : w = z + l
      OBVIOUS
    <3>2. A + L \in Int /\ A + L = SramBase + 4 * w + r
      BY <1>1, <1>5, <3>1
    <3> QED BY <3>1, <3>2, WordStartIs
  <2>2. WordStart(A + S - 1) = SramBase + 4 * (z + m)
    <3>1. PICK x \in Int : x = A + S - 1 /\ x = SramBase + 4 * (z + m) + d /\ z + m \in Int
      BY <1>1, <1>5
    <3> QED BY <3>1, WordStartIs
  <2>3. WordStart(A + S + 3) = SramBase + 4 * (z + m + 1)
    <3>1. PICK x \in Int : x = A + S + 3 /\ x = SramBase + 4 * (z + m + 1) + d /\ z + m + 1 \in Int
      BY <1>1, <1>5
    <3> QED BY <3>1, WordStartIs
  <2> QED BY <1>1, <1>5, <2>1, <2>2, <2>3
<1>6. c = 0 => (Midword(ph) <=> r # 0 /\ ph.memsz > L)
  <2>1. ZerosAt(ph) = A + L
    BY DEF ZerosAt, A, L
  <2>2. c = 0 => (WordStart(ZerosAt(ph)) # ZerosAt(ph) <=> r # 0)
    BY <1>1, <1>5, <2>1
  <2> QED BY <2>2 DEF Midword, L
<1>7. ASSUME c # 0 PROVE Spoils(ph) = A - 3 .. A + S + 3
  <2>1. WordStart(A) # A
    BY <1>4, <1>7
  <2> QED BY <2>1 DEF Spoils, EndOf, A, S
<1>8. ASSUME c = 0, Midword(ph)
      PROVE  Spoils(ph) = (A + 4 * l .. A + 4 * l + r - 1) \cup (A + 4 * m .. A + 4 * m + 3)
  <2>1. WordStart(A) = A
    BY <1>4, <1>8
  <2>2. Spoils(ph) = FileTail(ph) \cup LastWord(ph)
    BY <1>8, <2>1 DEF Spoils, A
  <2>3. FileTail(ph) = A + 4 * l .. A + 4 * l + r - 1
    <3>1. ZerosAt(ph) = A + L
      BY DEF ZerosAt, A, L
    <3>2. WordStart(ZerosAt(ph)) = A + 4 * l /\ ZerosAt(ph) - 1 = A + 4 * l + r - 1
      BY <1>1, <1>5, <1>8, <3>1
    <3> QED BY <3>2 DEF FileTail
  <2>4. LastWord(ph) = A + 4 * m .. A + 4 * m + 3
    <3>1. EndOf(ph) = A + S
      BY DEF EndOf, A, S
    <3>2. WordStart(EndOf(ph) - 1) = A + 4 * m
      BY <1>1, <1>5, <1>8, <3>1
    <3> QED BY <3>2 DEF LastWord
  <2> QED BY <2>2, <2>3, <2>4
<1>9. ASSUME c = 0, ~Midword(ph)
      PROVE  Spoils(ph) = A + S .. A + 4 * m + 3
  <2>1. WordStart(A) = A
    BY <1>4, <1>9
  <2>2. Spoils(ph) = A + S .. WordStart(A + S + 3) - 1
    BY <1>9, <2>1 DEF Spoils, EndOf, A, S
  <2> QED BY <1>5, <1>9, <2>2
<1> QED BY <1>6, <1>7, <1>8, <1>9 DEF A, L, S, SpoiltRange

(* A byte of a segment that is not spoilt has a word of the segment, ...   *)
LEMMA WordOfByte ==
  ASSUME NEW ph \in ProgramHeader, ph.load, NEW i \in Nat, NEW b \in 0 .. 3,
         NEW a, a = SramBase + 4 * i + b, a - LoadAddr(ph) >= 0, a - LoadAddr(ph) < Size(ph),
         a \notin Spoils(ph)
  PROVE  \E k \in 1 .. Len(SegmentWords(ph)) :
           SegmentWords(ph)[k].byte_addr \in SramBase + 4 * i .. SramBase + 4 * i + 3
<1> DEFINE A == LoadAddr(ph)
           L == Len(ph.data)
           M == ph.memsz
           S == Size(ph)
           F == NF(ph)
           B == NB(ph)
<1>1. /\ SramBase \in Nat /\ A \in Nat /\ L \in Nat /\ M \in Nat /\ S \in Nat
      /\ S = IF M > L THEN M ELSE L
  BY SimAssumption, HeaderTypes DEF Size
<1>2. PICK z \in Int, c \in 0 .. 3, l \in Int, r \in 0 .. 3, m \in Int, d \in 0 .. 3 :
        Measures(ph, z, c, l, r, m, d)
  BY InWords
<1>3. L = 4 * l + r
  BY <1>2 DEF Measures
<1>5. A = SramBase + 4 * z + c /\ S = 4 * m + d + 1
  BY <1>2 DEF Measures
<1>4. S - 1 = 4 * m + d
  <2> HIDE DEF A, L, S
  <2> QED BY <1>1, <1>3, <1>5
<1>6. /\ c # 0 => Spoils(ph) = A - 3 .. A + S + 3
      /\ c = 0 /\ r # 0 /\ M > L => Spoils(ph) = (A + 4 * l .. A + 4 * l + r - 1)
                                                \cup (A + 4 * m .. A + 4 * m + 3)
  <2>1. SpoiltRange(ph, c, l, r, m)
    BY <1>2, SpoilsIs
  <2> QED BY <2>1, Zenon DEF SpoiltRange
<1>7. /\ F \in Nat /\ B \in Nat /\ Len(SegmentWords(ph)) = F + B
      /\ L <= 4 * F /\ M - L <= 4 * B
      /\ \A k \in 1 .. F : SegmentWords(ph)[k].byte_addr = A + 4 * (k - 1)
      /\ \A k \in 1 .. B : SegmentWords(ph)[F + k].byte_addr = A + L + 4 * (k - 1)
  BY SegmentIs
<1> HIDE DEF A, L, M, S, F, B
<1>8. a \in Int /\ a - A >= 0 /\ a - A < S
  BY <1>1 DEF A, S
<1>9. c = 0
  BY <1>1, <1>6, <1>8
<1>10. a - A = 4 * (i - z) + b /\ i - z \in Int
  BY <1>1, <1>5, <1>9
<1>11. CASE a - A < L
  <2>1. i - z + 1 \in 1 .. F
    BY <1>1, <1>7, <1>8, <1>10, <1>11
  <2>2. SegmentWords(ph)[i - z + 1].byte_addr = A + 4 * (i - z)
    BY <1>7, <2>1
  <2>3. A + 4 * (i - z) = SramBase + 4 * i
    BY <1>1, <1>5, <1>9
  <2>4. i - z + 1 \in 1 .. F + B
    BY <1>7, <2>1
  <2>5. SramBase + 4 * i \in SramBase + 4 * i .. SramBase + 4 * i + 3
    BY <1>1
  <2> QED BY <1>7, <2>2, <2>3, <2>4, <2>5
<1>12. CASE ~(a - A < L)
  <2>1. M > L /\ S = M
    BY <1>1, <1>8, <1>12
  <2> DEFINE j == i - z - l + 1
  <2>2. j \in Int /\ 4 * (j - 1) = 4 * (i - z) - 4 * l
    BY <1>10
  <2>3. j >= 1
    BY <1>1, <1>3, <1>8, <1>10, <1>12
  <2>4. L + 4 * (j - 1) < M
    <3>1. L + 4 * (j - 1) = r + 4 * (i - z)
      BY <1>1, <1>3, <2>2
    <3>2. CASE r = 0
      BY <1>1, <1>8, <1>10, <2>1, <3>1, <3>2
    <3>3. CASE r # 0
      <4>1. a \notin A + 4 * m .. A + 4 * m + 3
        BY <1>6, <1>9, <2>1, <3>3
      <4>2. i - z < m
        BY <1>1, <1>4, <1>8, <1>10, <4>1
      <4> QED BY <1>1, <1>4, <1>10, <2>1, <3>1, <4>2
    <3> QED BY <3>2, <3>3
  <2>5. j \in 1 .. B
    BY <1>1, <1>7, <2>2, <2>3, <2>4
  <2>6. SegmentWords(ph)[F + j].byte_addr = A + L + 4 * (j - 1)
    BY <1>7, <2>5
  <2>7. A + L + 4 * (j - 1) = SramBase + 4 * i + r
    BY <1>1, <1>3, <1>5, <1>9, <2>2
  <2>8. F + j \in 1 .. F + B
    BY <1>7, <2>5
  <2> HIDE DEF j
  <2>9. SramBase + 4 * i + r \in SramBase + 4 * i .. SramBase + 4 * i + 3
    BY <1>1
  <2> QED BY <1>7, <2>6, <2>7, <2>8, <2>9
<1> QED BY <1>11, <1>12

(* ... and a word of the segment puts what it should into each byte of its *)
(* place that it does not spoil.                                           *)
LEMMA ByteOfWord ==
  ASSUME NEW ph \in ProgramHeader, ph.load, NEW i \in Nat, NEW b \in 0 .. 3,
         NEW k \in 1 .. Len(SegmentWords(ph)),
         InSram(SegmentWords(ph)[k].byte_addr), Widx(SegmentWords(ph)[k].byte_addr) = i,
         NEW a, a = SramBase + 4 * i + b, a \notin Spoils(ph)
  PROVE  /\ SegmentWords(ph)[k].data[b + 1] = FileByte(ph, a - LoadAddr(ph))
         /\ a - LoadAddr(ph) >= 0
         /\ a - LoadAddr(ph) < Size(ph)
<1> DEFINE A == LoadAddr(ph)
           L == Len(ph.data)
           M == ph.memsz
           S == Size(ph)
           F == NF(ph)
           B == NB(ph)
           w == SegmentWords(ph)[k]
<1>1. /\ SramBase \in Nat /\ A \in Nat /\ L \in Nat /\ M \in Nat /\ S \in Nat
      /\ S = IF M > L THEN M ELSE L
  BY SimAssumption, HeaderTypes DEF Size
<1>2. PICK z \in Int, c \in 0 .. 3, l \in Int, r \in 0 .. 3, m \in Int, d \in 0 .. 3 :
        Measures(ph, z, c, l, r, m, d)
  BY InWords
<1>3. L = 4 * l + r
  BY <1>2 DEF Measures
<1>5. A = SramBase + 4 * z + c /\ S = 4 * m + d + 1
  BY <1>2 DEF Measures
<1>4. S - 1 = 4 * m + d
  <2> HIDE DEF A, L, S
  <2> QED BY <1>1, <1>3, <1>5
<1>6. /\ c # 0 => Spoils(ph) = A - 3 .. A + S + 3
      /\ c = 0 /\ r # 0 /\ M > L =>
           Spoils(ph) = (A + 4 * l .. A + 4 * l + r - 1) \cup (A + 4 * m .. A + 4 * m + 3)
      /\ c = 0 /\ ~(r # 0 /\ M > L) => Spoils(ph) = A + S .. A + 4 * m + 3
  <2>1. SpoiltRange(ph, c, l, r, m)
    BY <1>2, SpoilsIs
  <2> QED BY <2>1, Zenon DEF SpoiltRange
<1>7. /\ F \in Nat /\ B \in Nat /\ Len(SegmentWords(ph)) = F + B
      /\ F # 0 => L > 4 * (F - 1)
      /\ B # 0 => M - L > 4 * (B - 1) /\ M > L
      /\ \A h \in 1 .. F : /\ SegmentWords(ph)[h].byte_addr = A + 4 * (h - 1)
                           /\ SegmentWords(ph)[h].data[b + 1] = FileByte(ph, 4 * (h - 1) + b)
      /\ \A h \in 1 .. B : /\ SegmentWords(ph)[F + h].byte_addr = A + L + 4 * (h - 1)
                           /\ SegmentWords(ph)[F + h].data[b + 1] = 0
  BY SegmentIs
<1>8. (w.byte_addr - SramBase) \div 4 = i
  BY DEF Widx
<1>9. /\ w.byte_addr \in Int /\ w.byte_addr >= A /\ w.byte_addr < A + S
      /\ \/ /\ k \in 1 .. F /\ w.byte_addr = A + 4 * (k - 1) /\ 4 * (k - 1) < L
            /\ w.data[b + 1] = FileByte(ph, 4 * (k - 1) + b)
         \/ \E h \in 1 .. B : /\ w.byte_addr = A + L + 4 * (h - 1) /\ L + 4 * (h - 1) < M /\ M > L
                              /\ w.data[b + 1] = 0
  <2>1. CASE k \in 1 .. F
    <3>1. w.byte_addr = A + 4 * (k - 1) /\ w.data[b + 1] = FileByte(ph, 4 * (k - 1) + b)
      BY <1>7, <2>1
    <3> HIDE DEF A, L, M, S, F, B, w
    <3> QED BY <1>1, <1>7, <2>1, <3>1
  <2>2. CASE k \notin 1 .. F
    <3> DEFINE h == k - F
    <3>1. h \in 1 .. B /\ k = F + h
      BY <1>7, <2>2
    <3>2. w.byte_addr = A + L + 4 * (h - 1) /\ w.data[b + 1] = 0
      BY <1>7, <3>1
    <3> HIDE DEF A, L, M, S, F, B, w, h
    <3> QED BY <1>1, <1>7, <3>1, <3>2
  <2> QED BY <2>1, <2>2
<1> HIDE DEF A, L, M, S, F, B, w
<1>10. SramBase + 4 * i <= w.byte_addr /\ w.byte_addr <= SramBase + 4 * i + 3
  <2> DEFINE y == w.byte_addr - SramBase
  <2>1. y \in Int /\ y \div 4 = i
    BY <1>8, <1>9, SimAssumption
  <2> HIDE DEF y
  <2>2. 4 * i <= y /\ y <= 4 * i + 3
    BY <2>1, InPlace
  <2> QED BY <1>1, <1>9, <2>2 DEF y
<1>11. a \in Int /\ a \notin Spoils(ph)
  BY <1>1
<1>12. c = 0
  <2> SUFFICES ASSUME c # 0 PROVE FALSE
    OBVIOUS
  <2>1. Spoils(ph) = A - 3 .. A + S + 3
    BY <1>6, Zenon
  <2>2. a >= A - 3 /\ a <= A + S + 3
    <3> DEFINE e == SramBase + 4 * i
               y == w.byte_addr
    <3>1. e \in Int /\ a = e + b
      BY <1>1
    <3>2. y \in Int /\ y >= A /\ y < A + S /\ e <= y /\ y <= e + 3
      BY <1>9, <1>10
    <3> HIDE DEF e, y
    <3> QED BY <1>1, <3>1, <3>2
  <2>3. a \in A - 3 .. A + S + 3
    BY <1>1, <1>11, <2>2
  <2> QED BY <1>11, <2>1, <2>3, Zenon
<1>13. a - A = 4 * (i - z) + b /\ i - z \in Int /\ A = SramBase + 4 * z
  BY <1>1, <1>5, <1>12
<1> SUFFICES /\ w.data[b + 1] = FileByte(ph, a - A)
             /\ a - A >= 0 /\ a - A < S
  BY DEF A, S, w
<1>14. CASE /\ k \in 1 .. F /\ w.byte_addr = A + 4 * (k - 1) /\ 4 * (k - 1) < L
            /\ w.data[b + 1] = FileByte(ph, 4 * (k - 1) + b)
  <2>1. k - 1 = i - z
    BY <1>1, <1>7, <1>10, <1>13, <1>14
  <2> DEFINE q == i - z
  <2>4. q \in Int /\ k - 1 = q /\ k \in Int /\ k >= 1 /\ a - A = 4 * q + b
    BY <1>7, <1>13, <1>14, <2>1
  <2>5. 4 * (k - 1) + b = 4 * q + b
    BY <2>4
  <2> HIDE DEF q
  <2>2. 4 * (k - 1) + b = a - A /\ a - A >= 0
    BY <2>4, <2>5
  <2>3. a - A < S
    <3> SUFFICES ASSUME ~(a - A < S) PROVE FALSE
      OBVIOUS
    <3>1. i - z <= m /\ a - A <= 4 * m + 3 /\ a - A >= 4 * m
      BY <1>1, <1>4, <1>13, <1>14, <2>1, <2>2
    <3>2. a <= A + 4 * m + 3 /\ a >= A + 4 * m /\ a >= A + S
      BY <1>1, <1>11, <3>1
    <3> QED BY <1>1, <1>6, <1>11, <1>12, <3>2
  <2> QED BY <1>14, <2>2, <2>3
<1>15. ASSUME NEW h \in 1 .. B, w.byte_addr = A + L + 4 * (h - 1), L + 4 * (h - 1) < M, M > L,
              w.data[b + 1] = 0
       PROVE  /\ w.data[b + 1] = FileByte(ph, a - A)
              /\ a - A >= 0 /\ a - A < S
  <2>1. i - z = l + h - 1 /\ h \in Int /\ h >= 1
    <3>1. h \in Int /\ h >= 1
      BY <1>7
    <3> DEFINE at == w.byte_addr
    <3>3. at = A + L + 4 * (h - 1)
      BY <1>15, Zenon
    <3> HIDE DEF at
    <3>4. at = SramBase + 4 * z + 4 * l + r + 4 * (h - 1)
      BY <1>1, <1>3, <1>13, <3>1, <3>3
    <3>2. w.byte_addr = SramBase + 4 * z + 4 * l + r + 4 * (h - 1)
      BY <3>4, Zenon DEF at
    <3> QED BY <1>1, <1>10, <3>1, <3>2
  <2>2. a - A = 4 * l + 4 * (h - 1) + b
    BY <1>13, <2>1
  <2>3. a - A < S
    <3> SUFFICES ASSUME ~(a - A < S) PROVE FALSE
      OBVIOUS
    <3>1. S = M /\ a - A <= 4 * m + 3 /\ a - A >= 4 * m
      BY <1>1, <1>3, <1>4, <1>15, <2>1, <2>2
    <3>2. a <= A + 4 * m + 3 /\ a >= A + 4 * m /\ a >= A + S
      BY <1>1, <1>11, <3>1
    <3> QED BY <1>1, <1>6, <1>11, <1>12, <3>2
  <2>4. a - A >= L
    <3>1. CASE r = 0
      BY <1>3, <2>1, <2>2, <3>1
    <3>2. CASE r # 0
      <4>1. a \notin A + 4 * l .. A + 4 * l + r - 1
        BY <1>6, <1>11, <1>12, <1>15, <3>2
      <4> QED BY <1>1, <1>3, <1>11, <2>1, <2>2, <4>1
    <3> QED BY <3>1, <3>2
  <2>5. FileByte(ph, a - A) = 0
    <3>1. ~(a - A < L)
      BY <1>1, <1>11, <2>4
    <3> QED BY <3>1 DEF FileByte, L
  <2>6. a - A >= 0
    BY <1>1, <1>11, <2>4
  <2>7. w.data[b + 1] = FileByte(ph, a - A)
    BY <1>15, <2>5, Zenon
  <2> QED BY <2>3, <2>6, <2>7
<1> QED BY <1>9, <1>14, <1>15

(* Where several words land on one place, the last one counts, and it is   *)
(* a word of the segment that counts.                                      *)
LEMMA ImageLoaded ==
  ASSUME NEW e \in ElfFile, NEW m, DOMAIN m = 0 .. SramWords - 1,
         NEW i \in 0 .. SramWords - 1, NEW b \in 0 .. 3,
         NEW a, a = SramBase + 4 * i + b, Covering(e, a) # {}, a \notin Spoilt(e)
  PROVE  /\ Loaded(m, ElfWords(e))[i] \in [1 .. 4 -> Bytes]
         /\ Loaded(m, ElfWords(e))[i][b + 1] = ImageByte(e, a)
<1> DEFINE P == e.phdrs
           p == Max(Covering(e, a))
           S == [h \in DOMAIN P |-> SegmentWords(P[h])]
           ws == ElfWords(e)
           at == { k \in DOMAIN ws : InSram(ws[k].byte_addr) /\ Widx(ws[k].byte_addr) = i }
<1>0. SramBase \in Nat /\ SramWords \in Nat /\ i \in Nat /\ a \in Nat
  BY SimAssumption
<1>1. P \in Seq(ProgramHeader) /\ DOMAIN P = 1 .. Len(P) /\ Len(P) \in Nat
      /\ \A h \in DOMAIN P : P[h] \in ProgramHeader
  BY ElementOfSeq DEF ElfFile
<1>2. /\ Covering(e, a) \in SUBSET (1 .. Len(P))
      /\ \A h \in DOMAIN P : h \in Covering(e, a) <=>
           P[h].load /\ a - LoadAddr(P[h]) >= 0 /\ a - LoadAddr(P[h]) < Size(P[h])
  <2>1. \A h \in DOMAIN P : LoadAddr(P[h]) \in Nat /\ P[h].memsz \in Nat /\ Len(P[h].data) \in Nat
    BY <1>1, HeaderTypes
  <2>2. ASSUME NEW h \in DOMAIN P
        PROVE  Size(P[h]) = IF P[h].memsz > Len(P[h].data) THEN P[h].memsz ELSE Len(P[h].data)
    BY DEF Size
  <2>3. ASSUME NEW h \in DOMAIN P
        PROVE  h \in Covering(e, a) <=>
                 /\ P[h].load /\ a - LoadAddr(P[h]) >= 0
                 /\ \/ a - LoadAddr(P[h]) < Len(P[h].data)
                    \/ a - LoadAddr(P[h]) < P[h].memsz
    <3> QED BY DEF Covering
  <2>4. Covering(e, a) \subseteq DOMAIN P
    BY DEF Covering
  <2>5. ASSUME NEW h \in DOMAIN P
        PROVE  a - LoadAddr(P[h]) < Size(P[h]) <=>
                 \/ a - LoadAddr(P[h]) < Len(P[h].data)
                 \/ a - LoadAddr(P[h]) < P[h].memsz
    <3> HIDE DEF P
    <3> QED BY <1>0, <2>1, <2>2
  <2> HIDE DEF P
  <2> QED BY <1>1, <2>3, <2>4, <2>5
<1>3. p \in DOMAIN P /\ p \in Covering(e, a) /\ \A h \in Covering(e, a) : h <= p
  BY <1>1, <1>2, MaxIsLast
<1>4. \A h \in DOMAIN P : P[h].load => a \notin Spoils(P[h])
  BY DEF Spoilt
<1>5. \A h \in DOMAIN P : S[h] = SegmentWords(P[h]) /\ S[h] \in Seq(Word)
  <2> SUFFICES ASSUME NEW h \in DOMAIN P PROVE SegmentWords(P[h]) \in Seq(Word)
    OBVIOUS
  <2>1. CASE P[h].load
    BY <1>1, <2>1, SegmentIs
  <2>2. CASE ~P[h].load
    BY <2>2 DEF SegmentWords
  <2> QED BY <2>1, <2>2
<1>6. S \in Seq(Seq(Word)) /\ Len(S) = Len(P) /\ S # <<>> /\ DOMAIN S = 1 .. Len(P)
  <2>1. S = [h \in 1 .. Len(P) |-> SegmentWords(P[h])]
    BY <1>1
  <2>2. \A h \in 1 .. Len(P) : SegmentWords(P[h]) \in Seq(Word)
    BY <1>1, <1>5
  <2>3. Len(P) # 0
    BY <1>1, <1>3
  <2> HIDE DEF S, P
  <2> QED BY <1>1, <2>1, <2>2, <2>3
<1>7. ws = FlattenSeq(S)
  BY DEF ElfWords
<1> HIDE DEF S, ws
<1>8. PICK off \in [1 .. Len(S) + 1 -> Nat] :
        /\ \A h \in 1 .. Len(S), g \in 1 .. Len(S) + 1 : h < g => off[h] + Len(S[h]) <= off[g]
        /\ ws \in Seq(Word)
        /\ \A h \in 1 .. Len(S) : \A j \in 1 .. Len(S[h]) :
             off[h] + j \in DOMAIN ws /\ ws[off[h] + j] = S[h][j]
        /\ \A k \in DOMAIN ws : \E h \in 1 .. Len(S) : \E j \in 1 .. Len(S[h]) : k = off[h] + j
  <2>1. \E off \in [1 .. Len(S) + 1 -> Nat] :
          /\ \A h \in 1 .. Len(S), g \in 1 .. Len(S) + 1 : h < g => off[h] + Len(S[h]) <= off[g]
          /\ FlattenSeq(S) \in Seq(Word)
          /\ \A h \in 1 .. Len(S) : \A j \in 1 .. Len(S[h]) :
               off[h] + j \in DOMAIN FlattenSeq(S) /\ FlattenSeq(S)[off[h] + j] = S[h][j]
          /\ \A k \in DOMAIN FlattenSeq(S) :
               \E h \in 1 .. Len(S) : \E j \in 1 .. Len(S[h]) : k = off[h] + j
    <3>1. S \in Seq(Seq(Word)) /\ S # <<>>
      BY <1>6
    <3>2. LaidOut(Word, S, FlattenSeq(S))
      BY <3>1, Flattened
    <3> QED BY <3>2 DEF LaidOut
  <2> QED BY <1>7, <2>1, Zenon
<1>9. \A h \in DOMAIN P : off[h] \in Nat /\ Len(S[h]) \in Nat
  BY <1>1, <1>5, <1>6, <1>8
<1>10. PICK k \in 1 .. Len(S[p]) : off[p] + k \in at
  <2>1. P[p] \in ProgramHeader /\ P[p].load /\ a \notin Spoils(P[p])
        /\ a - LoadAddr(P[p]) >= 0 /\ a - LoadAddr(P[p]) < Size(P[p]) /\ S[p] = SegmentWords(P[p])
    BY <1>1, <1>2, <1>3, <1>4, <1>5
  <2>2. PICK k \in 1 .. Len(S[p]) : S[p][k].byte_addr \in SramBase + 4 * i .. SramBase + 4 * i + 3
    <3> HIDE DEF P, p
    <3>1. \E k \in 1 .. Len(SegmentWords(P[p])) :
            SegmentWords(P[p])[k].byte_addr \in SramBase + 4 * i .. SramBase + 4 * i + 3
      <4>1. a = SramBase + 4 * i + b
        OBVIOUS
      <4> QED BY <1>0, <2>1, <4>1, WordOfByte
    <3> QED BY <2>1, <3>1
  <2>3. off[p] + k \in DOMAIN ws /\ ws[off[p] + k] = S[p][k]
    BY <1>3, <1>1, <1>6, <1>8
  <2>4. ASSUME NEW x \in SramBase + 4 * i .. SramBase + 4 * i + 3 PROVE InSram(x) /\ Widx(x) = i
    <3>1. x \in Int /\ x - SramBase >= 4 * i /\ x - SramBase <= 4 * i + 3
      BY <1>0
    <3>2. (x - SramBase) \div 4 = i
      <4> DEFINE y == x - SramBase
      <4>1. y \in Int /\ y >= 4 * i /\ y <= 4 * i + 3
        BY <1>0, <3>1
      <4> HIDE DEF y
      <4>2. y \div 4 = i
        BY <1>0, <4>1
      <4> QED BY <4>2 DEF y
    <3> QED BY <1>0, <3>1, <3>2 DEF InSram, Widx
  <2> QED BY <2>2, <2>3, <2>4
<1>11. DOMAIN ws = 1 .. Len(ws) /\ Len(ws) \in Nat
  BY <1>8
<1>12. Max(at) \in at /\ off[p] + k <= Max(at)
  <2>1. at \in SUBSET (1 .. Len(ws)) /\ at # {}
    BY <1>10, <1>11
  <2> HIDE DEF at
  <2> QED BY <1>10, <1>11, <2>1, MaxIsLast
<1>13. PICK q \in 1 .. Len(S) : \E j \in 1 .. Len(S[q]) : Max(at) = off[q] + j
  BY <1>8, <1>12
<1>14. PICK j \in 1 .. Len(S[q]) : Max(at) = off[q] + j
  BY <1>13
<1>15. /\ q \in DOMAIN P /\ P[q] \in ProgramHeader /\ S[q] = SegmentWords(P[q])
       /\ ws[Max(at)] = SegmentWords(P[q])[j]
       /\ InSram(SegmentWords(P[q])[j].byte_addr) /\ Widx(SegmentWords(P[q])[j].byte_addr) = i
  <2>1. q \in DOMAIN P /\ P[q] \in ProgramHeader /\ S[q] = SegmentWords(P[q])
    BY <1>1, <1>5, <1>6
  <2>2. ws[Max(at)] = S[q][j]
    BY <1>8, <1>14
  <2> QED BY <1>12, <2>1, <2>2
<1>16. P[q].load
  <2> SUFFICES ASSUME ~P[q].load PROVE FALSE
    BY <1>15 DEF ProgramHeader
  <2>1. S[q] = <<>>
    BY <1>15 DEF SegmentWords
  <2> QED BY <1>14, <2>1
<1>17. /\ ws[Max(at)].data[b + 1] = FileByte(P[q], a - LoadAddr(P[q]))
       /\ a - LoadAddr(P[q]) >= 0 /\ a - LoadAddr(P[q]) < Size(P[q])
  <2>1. j \in 1 .. Len(SegmentWords(P[q])) /\ a \notin Spoils(P[q])
    BY <1>4, <1>14, <1>15, <1>16
  <2> HIDE DEF P, at, p
  <2>2. /\ SegmentWords(P[q])[j].data[b + 1] = FileByte(P[q], a - LoadAddr(P[q]))
        /\ a - LoadAddr(P[q]) >= 0 /\ a - LoadAddr(P[q]) < Size(P[q])
    <3>1. a = SramBase + 4 * i + b
      OBVIOUS
    <3> DEFINE ph == P[q]
    <3>2. /\ ph \in ProgramHeader /\ ph.load /\ a \notin Spoils(ph) /\ i \in Nat /\ b \in 0 .. 3
          /\ j \in 1 .. Len(SegmentWords(ph))
          /\ InSram(SegmentWords(ph)[j].byte_addr) /\ Widx(SegmentWords(ph)[j].byte_addr) = i
      BY <1>0, <1>15, <1>16, <2>1
    <3> HIDE DEF ph
    <3>3. /\ SegmentWords(ph)[j].data[b + 1] = FileByte(ph, a - LoadAddr(ph))
          /\ a - LoadAddr(ph) >= 0 /\ a - LoadAddr(ph) < Size(ph)
      BY <3>1, <3>2, ByteOfWord
    <3> QED BY <3>3 DEF ph
  <2> QED BY <1>15, <2>2
<1>18. ~(q > p)
  <2> SUFFICES ASSUME q > p PROVE FALSE
    OBVIOUS
  <2>1. q \in Covering(e, a)
    BY <1>2, <1>15, <1>16, <1>17
  <2>2. q <= p /\ q \in Nat /\ p \in Nat
    BY <1>1, <1>3, <1>15, <2>1
  <2> QED BY <2>2
<1>19. ~(q < p)
  <2> SUFFICES ASSUME q < p PROVE FALSE
    OBVIOUS
  <2>1. p \in 1 .. Len(S) + 1 /\ q \in 1 .. Len(S)
    BY <1>1, <1>3, <1>6
  <2>2. off[q] + Len(S[q]) <= off[p]
    BY <1>8, <2>1
  <2>3. off[p] \in Nat /\ off[q] \in Nat /\ Len(S[q]) \in Nat /\ k >= 1 /\ k \in Nat /\ j \in Nat
        /\ j <= Len(S[q])
    BY <1>3, <1>9, <1>10, <1>14, <1>15
  <2> HIDE DEF at
  <2> QED BY <1>12, <1>14, <2>2, <2>3
<1>20. q = p
  BY <1>1, <1>3, <1>15, <1>18, <1>19
<1>21. Loaded(m, ws)[i] = ws[Max(at)].data
  BY <1>12 DEF Loaded
<1>22. ws[Max(at)].data \in [1 .. 4 -> Bytes]
  <2>1. ws[Max(at)] \in Word
    <3> HIDE DEF at
    <3>1. Max(at) \in DOMAIN ws
      BY <1>12 DEF at
    <3> QED BY <1>8, <3>1, ElementOfSeq
  <2> QED BY <2>1 DEF Word
<1>23. ImageByte(e, a) = FileByte(P[p], a - LoadAddr(P[p]))
  BY DEF ImageByte, FileByte
<1> HIDE DEF at, p, P
<1> QED BY <1>17, <1>20, <1>21, <1>22, <1>23 DEF ws

(* What main has loaded is still there until the program reports.          *)
Loading ==
  /\ stage \in {"start", "load", "fstat", "mmap", "parse", "unmap", "loaded"} =>
       mem = [i \in 0 .. SramWords - 1 |-> PowerUp]
  /\ stage \notin {"start", "load", "left"} => elf.defect # "open"
  /\ stage \in {"mmap", "parse", "unmap", "loaded", "reset", "run"} => elf.defect # "fstat"
  /\ stage \in {"parse", "unmap", "loaded", "reset", "run"} => elf.defect # "mmap"
  /\ stage \in {"start", "load", "fstat", "mmap", "parse"} => ~thrown
  /\ stage \in {"unmap", "loaded", "reset", "run"} /\ ~thrown =>
       elf.defect = "none" /\ words = ElfWords(elf)
  /\ stage \in {"loaded", "reset", "run"} => ~thrown
  /\ stage = "reset" \/ (stage = "run" /\ reports = <<>>) =>
       mem = Loaded([i \in 0 .. SramWords - 1 |-> PowerUp], words)

LEMMA StepLoading == ASSUME Staged, Loading, [BenchNext]_benchVars PROVE Loading'
<1> USE DEF Loading
<1>1. CASE StartUp
  <2>1. stage = "start" /\ stage' \in {"left", "load"} /\ UNCHANGED <<mem, elf, thrown>>
    BY <1>1 DEF StartUp, Leave
  <2> QED BY <2>1
<1>2. CASE OpenFile \/ StatFile \/ MapFile
  BY <1>2 DEF OpenFile, StatFile, MapFile, Leave
<1>3. CASE Parse
  <2>1. /\ stage = "parse" /\ stage' = "unmap" /\ UNCHANGED <<mem, elf>> /\ ~thrown
        /\ \/ thrown'
           \/ elf.defect \notin HeaderDefects /\ words' = ElfWords(elf) /\ ~thrown'
    BY <1>3 DEF Parse
  <2>2. elf.defect \in Defects \cup {"none"}
    BY SimAssumption DEF Staged, BenchTypeOK, ElfFile
  <2> QED BY <2>1, <2>2 DEF Defects, MapDefects
<1>9. CASE Unmap
  <2>1. /\ stage = "unmap" /\ UNCHANGED <<mem, elf, thrown, words>>
        /\ \/ stage' = "left"
           \/ stage' = "loaded" /\ ~thrown
    BY <1>9 DEF Unmap, Leave
  <2> QED BY <2>1
<1>4. CASE LoadSram
  BY <1>4 DEF LoadSram
<1>5. CASE Reset
  BY <1>5 DEF Reset
<1>6. CASE CycleStep
  <2>1. PICK store \in Stores, finish \in BOOLEAN : Cycle(store, finish)
    BY <1>6 DEF CycleStep
  <2>2. stage = "run" /\ UNCHANGED <<stage, elf, words, thrown>>
    BY <2>1 DEF Cycle
  <2>3. ASSUME reports' = <<>> PROVE reports = <<>> /\ mem' = mem
    <3> DEFINE r == [at |-> g_cycles, what |-> store.what, val |-> store.val]
               f == [at |-> g_cycles, what |-> "finish", val |-> 0]
    <3>1. reports' = (IF store = Nothing THEN reports ELSE Append(reports, r))
                     \o (IF finish THEN << f >> ELSE <<>>)
      BY <2>1 DEF Cycle
    <3> HIDE DEF r, f
    <3>2. reports \in Seq(Report)
      BY DEF Staged
    <3>3. store = Nothing /\ reports = <<>>
      <4>1. CASE store = Nothing /\ finish
        BY <2>3, <3>1, <3>2, <4>1
      <4>2. CASE store = Nothing /\ ~finish
        BY <2>3, <3>1, <3>2, <4>2
      <4>3. CASE store # Nothing /\ finish
        BY <2>3, <3>1, <3>2, <4>3
      <4>4. CASE store # Nothing /\ ~finish
        <5>1. Append(reports, r) \o <<>> = <<>>
          BY <2>3, <3>1, <4>4
        <5>2. \A x \in Seq(Report) : Append(x, r) \o <<>> # <<>>
          OBVIOUS
        <5> QED BY <3>2, <5>1, <5>2
      <4> QED BY <4>1, <4>2, <4>3, <4>4
    <3> QED BY <2>1, <3>3 DEF Cycle, Nothing
  <2> QED BY <2>2, <2>3
<1>7. CASE Return
  BY <1>7 DEF Return, Leave
<1>8. CASE UNCHANGED benchVars
  BY <1>8 DEF benchVars
<1> QED BY <1>1, <1>2, <1>3, <1>4, <1>5, <1>6, <1>7, <1>8, <1>9 DEF BenchNext

LEMMA LoadingLoads ==
  ASSUME Staged, Loading
  PROVE  LoadsTheImage
<1> SUFFICES ASSUME stage \in {"reset", "run"}, reports = <<>>,
                    NEW i \in 0 .. SramWords - 1, NEW b \in 0 .. 3,
                    NEW a, a = SramBase + 4 * i + b, Covering(elf, a) # {},
                    a \notin Spoilt(elf)
             PROVE  mem[i][b + 1] = ImageByte(elf, a)
  BY DEF LoadsTheImage
<1>1. elf \in ElfFile /\ words = ElfWords(elf)
  BY SimAssumption DEF Staged, BenchTypeOK, Loading
<1>2. mem = Loaded([c \in 0 .. SramWords - 1 |-> PowerUp], ElfWords(elf))
  BY <1>1 DEF Loading
<1> DEFINE m == [c \in 0 .. SramWords - 1 |-> PowerUp]
<1>3. mem = Loaded(m, ElfWords(elf)) /\ DOMAIN m = 0 .. SramWords - 1
  BY <1>2
<1> HIDE DEF m
<1>4. Loaded(m, ElfWords(elf))[i][b + 1] = ImageByte(elf, a)
  BY <1>1, <1>3, ImageLoaded
<1> QED BY <1>3, <1>4

(* elf_loader.cpp and sim_main.cpp: until the program stores, every byte   *)
(* of the SRAM that a segment covers is the one the program headers        *)
(* promise, the last segment winning where they overlap and zeros past the *)
(* end of its file bytes; for every file, whatever the alignment of its    *)
(* segments and of their zero parts, but for the few bytes Spoilt names.   *)
THEOREM LoaderLoads == BenchSpec => []LoadsTheImage
<1>1. BenchInit => Loading
  BY DEF BenchInit, Loading
<1>2. Staged /\ Loading => LoadsTheImage
  BY LoadingLoads
<1> QED BY <1>1, <1>2, InitStaged, StepStaged, StepLoading, PTL DEF BenchSpec

-----------------------------------------------------------------------------
(* The first report decides.                                               *)

(* The word a poll of tohost reads while the program has told nothing.     *)
Zeroed ==
  stage \in {"reset", "run"} /\ ~done /\ TohostIsWord /\ tohost_addr # 0 =>
    mem[Widx(tohost_addr)] = Zero

(* What the loop stopped for was told by the program.                      *)
DecidedByTohost ==
  done /\ TohostIsWord =>
    /\ Telling # {}
    /\ First.what = "tohost" => exit_code = IF First.val = One THEN 0 ELSE 1
    /\ First.what = "finish" => exit_code = -1

LEMMA LoadedZero ==
  ASSUME Staged, Loading,
         stage = "loaded", TohostIsWord, tohost_addr # 0
  PROVE  Loaded(mem, words)[Widx(tohost_addr)] = Zero
<1> DEFINE i == Widx(tohost_addr)
           w == Loaded(mem, words)[i]
<1>1. elf \in ElfFile /\ words = ElfWords(elf) /\ DOMAIN mem = 0 .. SramWords - 1
  BY SimAssumption DEF Staged, BenchTypeOK, Loading
<1>2. tohost_addr \in Nat /\ InSram(tohost_addr) /\ (tohost_addr - SramBase) % 4 = 0
  BY DEF Staged, BenchTypeOK, TohostIsWord
<1>3. i \in 0 .. SramWords - 1 /\ tohost_addr = SramBase + 4 * i
  <2>1. i \in 0 .. SramWords - 1
    BY <1>2, InSramIndex
  <2> QED BY <1>2, <2>1, SimAssumption DEF Widx, InSram
<1> HIDE DEF i
<1>4. ASSUME NEW b \in 0 .. 3 PROVE w \in [1 .. 4 -> Bytes] /\ w[b + 1] = 0
  <2> DEFINE a == SramBase + 4 * i + b
  <2>0. a = SramBase + 4 * i + b
    OBVIOUS
  <2>1. a \in tohost_addr .. tohost_addr + 3
    BY <1>2, <1>3
  <2> HIDE DEF a
  <2>2. Covering(elf, a) # {} /\ ImageByte(elf, a) = 0 /\ a \notin Spoilt(elf)
    BY <2>1 DEF TohostIsWord
  <2>3. i \in 0 .. SramWords - 1
    BY <1>3
  <2>4. /\ Loaded(mem, ElfWords(elf))[i] \in [1 .. 4 -> Bytes]
        /\ Loaded(mem, ElfWords(elf))[i][b + 1] = ImageByte(elf, a)
    BY <1>1, <2>0, <2>2, <2>3, ImageLoaded
  <2>5. w = Loaded(mem, ElfWords(elf))[i]
    BY <1>1
  <2> QED BY <2>2, <2>4, <2>5
<1> HIDE DEF w
<1>5. w[1] = 0 /\ w[2] = 0 /\ w[3] = 0 /\ w[4] = 0
  <2>1. w[0 + 1] = 0 /\ w[1 + 1] = 0 /\ w[2 + 1] = 0 /\ w[3 + 1] = 0
    BY <1>4
  <2> QED BY <2>1
<1>6. w \in [1 .. 4 -> Bytes]
  BY <1>4
<1>7. w = Zero
  BY <1>5, <1>6 DEF Zero
<1> QED BY <1>7 DEF w, i

LEMMA CycleDecidesByTohost ==
  ASSUME Staged, Decided, Zeroed,
         NEW store \in Stores, NEW finish \in BOOLEAN, Cycle(store, finish)
  PROVE  Zeroed' /\ DecidedByTohost'
<1> DEFINE val == sram_dpi_read(mem', tohost_addr)
           polled == store.what # "exit" /\ tohost_addr # 0 /\ val # Zero
<1>1. /\ stage = "run" /\ ~done /\ reports \in Seq(Report) /\ tohost_addr \in Nat
      /\ UNCHANGED <<args, stage, tohost_addr, elf>>
      /\ store.what = "tohost" => tohost_addr # 0
  BY DEF Cycle, Staged, BenchTypeOK
<1>2. Telling = {} /\ ~exit_reg.valid /\ exit_code = -1
  BY <1>1 DEF Decided
<1>3. /\ done' <=> store.what = "exit" \/ polled \/ finish
      /\ exit_code' = IF store.what = "exit" THEN store.val
                      ELSE IF polled THEN IF val = One THEN 0 ELSE 1 ELSE -1
  BY <1>1, <1>2, CycleEnds
<1>4. /\ store.what = "exit" =>
           Telling' # {} /\ First'.what = "exit" /\ First'.val = store.val
      /\ store.what = "tohost" /\ store.val # Zero =>
           Telling' # {} /\ First'.what = "tohost" /\ First'.val = store.val
      /\ store.what # "exit" /\ ~(store.what = "tohost" /\ store.val # Zero) =>
           IF finish THEN Telling' # {} /\ First'.what = "finish" ELSE Telling' = {}
  BY <1>1, <1>2, CycleTells
<1>5. TohostIsWord' <=> TohostIsWord
  BY <1>1 DEF TohostIsWord
<1> SUFFICES ASSUME TohostIsWord
             PROVE  Zeroed' /\ DecidedByTohost'
  BY <1>5 DEF Zeroed, DecidedByTohost
<1>6. tohost_addr # 0 =>
        /\ store.what = "tohost" => val = store.val
        /\ store.what # "tohost" => val = Zero
        /\ val = mem'[Widx(tohost_addr)]
  <2> SUFFICES ASSUME tohost_addr # 0
               PROVE  /\ store.what = "tohost" => val = store.val
                      /\ store.what # "tohost" => val = Zero
                      /\ val = mem'[Widx(tohost_addr)]
    OBVIOUS
  <2>1. InSram(tohost_addr)
    BY DEF TohostIsWord
  <2>2. mem[Widx(tohost_addr)] = Zero
    BY <1>1 DEF Zeroed
  <2> QED BY <2>1, <2>2, PollSees DEF sram_dpi_read
<1> HIDE DEF val
<1>7. ~done' => (tohost_addr # 0 => mem'[Widx(tohost_addr)] = Zero)
  BY <1>3, <1>6
<1>8. polled <=> store.what = "tohost" /\ store.val # Zero
  BY <1>1, <1>6
<1> HIDE DEF polled
<1>9. Zeroed'
  BY <1>1, <1>7 DEF Zeroed
<1>10. DecidedByTohost'
  BY <1>1, <1>3, <1>4, <1>6, <1>8 DEF DecidedByTohost
<1> QED BY <1>9, <1>10

LEMMA StepByTohost ==
  ASSUME Staged, Loading, Decided, Zeroed, DecidedByTohost, [BenchNext]_benchVars
  PROVE  Zeroed' /\ DecidedByTohost'
<1>1. CASE CycleStep
  BY <1>1, CycleDecidesByTohost DEF CycleStep
<1>2. CASE Return
  <2>1. /\ stage' = "left" /\ UNCHANGED <<elf, done, reports, tohost_addr>>
        /\ done => UNCHANGED exit_code
    BY <1>2 DEF Return, Leave, OutOfCycles
  <2>2. Telling' = Telling /\ First' = First /\ (TohostIsWord' <=> TohostIsWord)
    BY <2>1 DEF Telling, First, TohostIsWord
  <2> QED BY <2>1, <2>2 DEF Zeroed, DecidedByTohost
<1>3. CASE StartUp \/ OpenFile \/ StatFile \/ MapFile \/ Parse \/ Unmap
  <2>1. ~done /\ stage' \notin {"reset", "run"} /\ UNCHANGED done
    BY <1>3 DEF StartUp, OpenFile, StatFile, MapFile, Parse, Unmap, Leave, Staged, Quiescent
  <2> QED BY <2>1 DEF Zeroed, DecidedByTohost
<1>4. CASE LoadSram
  <2>1. stage = "loaded" /\ mem' = Loaded(mem, words) /\ UNCHANGED <<elf, done, tohost_addr>> /\ ~done
    BY <1>4 DEF LoadSram, Staged, Quiescent
  <2>2. TohostIsWord' <=> TohostIsWord
    BY <2>1 DEF TohostIsWord
  <2>3. TohostIsWord /\ tohost_addr # 0 => Loaded(mem, words)[Widx(tohost_addr)] = Zero
    BY <2>1, LoadedZero
  <2> QED BY <2>1, <2>2, <2>3 DEF Zeroed, DecidedByTohost, Widx
<1>5. CASE Reset
  <2>1. stage = "reset" /\ ~done /\ UNCHANGED <<elf, done, tohost_addr, mem>>
    BY <1>5 DEF Reset, Staged, Quiescent
  <2>2. TohostIsWord' <=> TohostIsWord
    BY <2>1 DEF TohostIsWord
  <2> QED BY <2>1, <2>2 DEF Zeroed, DecidedByTohost, Widx
<1>6. CASE UNCHANGED benchVars
  <2>1. UNCHANGED <<elf, stage, done, reports, exit_code, tohost_addr, mem>>
    BY <1>6 DEF benchVars
  <2>2. Telling' = Telling /\ First' = First /\ (TohostIsWord' <=> TohostIsWord)
    BY <2>1 DEF Telling, First, TohostIsWord
  <2> QED BY <2>1, <2>2 DEF Zeroed, DecidedByTohost, Widx
<1> QED BY <1>1, <1>2, <1>3, <1>4, <1>5, <1>6 DEF BenchNext

LEMMA FirstIsReport ==
  ASSUME Staged, Telling # {} PROVE First.what \in {"exit", "tohost", "finish"} /\ First \in Report
<1>1. reports \in Seq(Report) /\ DOMAIN reports = 1 .. Len(reports) /\ Len(reports) \in Nat
  BY DEF Staged
<1>2. Min(Telling) \in 1 .. Len(reports)
  <2>1. Telling \in SUBSET (1 .. Len(reports))
    BY <1>1 DEF Telling
  <2> QED BY <1>1, <2>1, MinIsFirst
<1>3. First \in Report
  BY <1>1, <1>2, ElementOfSeq DEF First
<1> QED BY <1>3 DEF Report

(* sim_main.cpp: the status of the process is the one that the first       *)
(* telling report of the program calls for, be it the exit register,       *)
(* tohost, $finish or none before the cap, also when two come in one       *)
(* cycle: for every file whose tohost, if it has one, is loaded as zero.   *)
THEOREM FirstDecides == BenchSpec => []FirstReportDecides
<1>1. BenchInit => Loading /\ Zeroed /\ DecidedByTohost
  BY DEF BenchInit, Loading, Zeroed, DecidedByTohost
<1>2. Staged /\ Decided /\ DecidedByTohost => FirstReportDecides
  <2> SUFFICES ASSUME Staged, Decided, DecidedByTohost, Ran, TohostIsWord
               PROVE  IF Telling = {} THEN rc = 124
                      ELSE CASE First.what = "exit" -> rc = First.val % 256
                             [] First.what = "tohost" -> rc = (IF First.val = One THEN 0 ELSE 1)
                             [] OTHER -> rc = 255
    BY DEF FirstReportDecides
  <2>1. CASE ~done
    BY <2>1 DEF Decided
  <2>2. CASE done
    <3>1. Telling # {} /\ rc = Status(exit_code) /\ First.what \in {"exit", "tohost", "finish"}
      BY <2>2, FirstIsReport DEF Decided, DecidedByTohost
    <3>2. CASE First.what = "exit"
      BY <2>2, <3>1, <3>2 DEF Decided, Status
    <3>3. CASE First.what = "tohost"
      <4>1. exit_code = IF First.val = One THEN 0 ELSE 1
        BY <2>2, <3>3 DEF DecidedByTohost
      <4>2. rc = IF First.val = One THEN 0 ELSE 1
        BY <3>1, <4>1 DEF Status
      <4> QED BY <3>1, <3>3, <4>2
    <3>4. CASE First.what = "finish"
      <4>1. rc = 255
        <5>1. exit_code = -1
          BY <2>2, <3>4 DEF DecidedByTohost
        <5>2. \A x \in Int : x + 1 = 0 => x % 256 = 255
          OBVIOUS
        <5>3. exit_code \in Int /\ exit_code + 1 = 0
          BY <5>1
        <5> QED BY <3>1, <5>2, <5>3 DEF Status
      <4> QED BY <3>1, <3>4, <4>1
    <3> QED BY <3>1, <3>2, <3>3, <3>4
  <2> QED BY <2>1, <2>2
<1> QED BY <1>1, <1>2, InitStaged, StepStaged, InitDecided, StepDecided, StepLoading, StepByTohost,
     PTL DEF BenchSpec
=============================================================================
