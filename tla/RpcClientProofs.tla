--------------------------- MODULE RpcClientProofs ---------------------------
(***************************************************************************)
(* handle_defaults for any table and any argument list, and what follows   *)
(* for the methods of the client.                                          *)
(*                                                                         *)
(* The loop is shown to be right from Scanned alone, the invariant of one  *)
(* iteration: what the places already passed hold, and where the list will *)
(* end.  It asks nothing of a method but that its table is a table and not *)
(* longer than its argument list (IsCall, the assertion at the head of     *)
(* handle_defaults).  What the tables of the client are enters only after  *)
(* that: which leave a place without a default in front of another place   *)
(* (Gapless), and which leave optional arguments to nobody (Covered).      *)
(***************************************************************************)
EXTENDS RpcClient, SequenceTheorems, TLAPS

IsCall(c) ==
    /\ c.required \in Nat /\ c.optional \in Nat
    /\ c.defaults \in Seq({Null, Default})
    /\ Len(c.defaults) <= c.required + c.optional

(* Only the last place of the table may be without a default.              *)
Gapless(c) == \A n \in 1..(Len(c.defaults) - 1) : c.defaults[n] # Null

(* Every optional argument has a place in the table.                       *)
Covered(c) == c.optional <= Len(c.defaults)

(* The argument list of a method.                                          *)
Size(c) == c.required + c.optional
IsArgList(c, a) ==
    /\ a \in [1..Size(c) -> {Null, Given}]
    /\ \A n \in 1..c.required : a[n] = Given

(* After k iterations the last k places have been passed: f is the last    *)
(* supplied one among them, 0 if there is none, and the nulls in front of  *)
(* it are defaults.                                                        *)
Passed(c, k) == (Size(c) - k + 1)..Size(c)
Scanned(c, s, a, k, f) ==
    /\ k \in 0..Len(c.defaults)
    /\ f = 0 => a = s /\ \A n \in Passed(c, k) : s[n] = Null
    /\ f # 0 => /\ f \in Passed(c, k) /\ s[f] # Null
                /\ \A n \in (f + 1)..Size(c) : s[n] = Null
                /\ a \in [1..Size(c) -> {Null, Given, Default}]
                /\ \A n \in 1..Size(c) :
                      a[n] = IF n \in Passed(c, k) /\ n < f /\ s[n] = Null
                             THEN c.defaults[n - DefaultedFrom(c)] ELSE s[n]
                /\ \A n \in Passed(c, k) : n <= f => a[n] # Null

LEMMA ArgListIsSeq ==
  ASSUME NEW c, IsCall(c), NEW V, NEW a \in [1..Size(c) -> V]
  PROVE  /\ a \in Seq(V) /\ Len(a) = Size(c) /\ Size(c) \in Nat
         /\ Len(c.defaults) \in Nat /\ DefaultedFrom(c) \in Nat
         /\ DefaultedFrom(c) = Size(c) - Len(c.defaults)
<1>1. c.required \in Nat /\ c.optional \in Nat BY DEF IsCall
<1>2. Len(c.defaults) \in Nat /\ Len(c.defaults) <= c.required + c.optional BY LenProperties DEF IsCall
<1>3. Size(c) \in Nat BY <1>1 DEF Size
<1>4. a \in Seq(V) BY <1>3, SeqDef
<1>5. Len(a) = Size(c) BY <1>3, <1>4, LenProperties
<1>6. DefaultedFrom(c) \in Nat /\ DefaultedFrom(c) = Size(c) - Len(c.defaults)
  BY <1>1, <1>2 DEF DefaultedFrom, Size
<1> QED BY <1>2, <1>3, <1>4, <1>5, <1>6

(* Before the first iteration nothing has been passed.                     *)
LEMMA ScanStarts ==
  ASSUME NEW c, IsCall(c), NEW s, IsArgList(c, s)
  PROVE  Scanned(c, s, s, 0, 0)
<1>1. Size(c) \in Nat /\ Len(c.defaults) \in Nat BY ArgListIsSeq DEF IsArgList
<1>2. Passed(c, 0) = {} BY <1>1 DEF Passed
<1> QED BY <1>1, <1>2 DEF Scanned

(* One iteration: the place next to those passed.                          *)
LEMMA Place ==
  ASSUME NEW c, IsCall(c), NEW s, IsArgList(c, s), NEW k \in Nat, k < Len(c.defaults)
  PROVE  /\ Size(c) \in Nat /\ Len(c.defaults) \in Nat /\ k + 1 \in 0..Len(c.defaults)
         /\ Size(c) - k \in 1..Size(c)
         /\ Passed(c, k + 1) = Passed(c, k) \union {Size(c) - k}
         /\ \A n \in Passed(c, k) : Size(c) - k < n /\ n \in 1..Size(c)
         /\ Size(c) - k - DefaultedFrom(c) = Len(c.defaults) - k
         /\ Len(c.defaults) - k \in 1..Len(c.defaults)
<1>1. /\ Size(c) \in Nat /\ Len(c.defaults) \in Nat
      /\ DefaultedFrom(c) = Size(c) - Len(c.defaults) /\ DefaultedFrom(c) \in Nat
  BY ArgListIsSeq DEF IsArgList
<1>2. Passed(c, k + 1) = (Size(c) - k)..Size(c) BY <1>1 DEF Passed
<1>3. Passed(c, k) = (Size(c) - k + 1)..Size(c) BY DEF Passed
<1>4. k < Size(c) /\ Size(c) - k \in 1..Size(c) /\ Len(c.defaults) - k \in 1..Len(c.defaults)
  BY <1>1
<1>5. Passed(c, k + 1) = Passed(c, k) \union {Size(c) - k} BY <1>1, <1>2, <1>3, <1>4
<1>6. \A n \in Passed(c, k) : Size(c) - k < n /\ n \in 1..Size(c) BY <1>1, <1>3, <1>4
<1>7. Size(c) - k - DefaultedFrom(c) = Len(c.defaults) - k /\ k + 1 \in 0..Len(c.defaults) BY <1>1
<1> QED BY <1>1, <1>4, <1>5, <1>6, <1>7

LEMMA ScanKeepsNull ==
  ASSUME NEW c, IsCall(c), NEW s, IsArgList(c, s), NEW a, NEW k, k < Len(c.defaults),
         Scanned(c, s, a, k, 0), a[Size(c) - k] = Null
  PROVE  Scanned(c, s, a, k + 1, 0)
<1>1. k \in Nat BY ArgListIsSeq DEF Scanned, IsArgList
<1>2. k + 1 \in 0..Len(c.defaults) /\ Passed(c, k + 1) = Passed(c, k) \union {Size(c) - k}
  BY <1>1, Place
<1>3. a = s /\ \A n \in Passed(c, k) : s[n] = Null BY DEF Scanned
<1> QED BY <1>2, <1>3 DEF Scanned

LEMMA ScanFillsDefault ==
  ASSUME NEW c, IsCall(c), NEW s, IsArgList(c, s), NEW a, NEW k, k < Len(c.defaults),
         NEW f, f # 0, Scanned(c, s, a, k, f), a[Size(c) - k] = Null,
         c.defaults[Len(c.defaults) - k] # Null
  PROVE  Scanned(c, s, [a EXCEPT ![Size(c) - k] = c.defaults[Len(c.defaults) - k]], k + 1, f)
<1> DEFINE p == Size(c) - k
           d == c.defaults[Len(c.defaults) - k]
           b == [a EXCEPT ![p] = d]
<1>1. k \in Nat BY ArgListIsSeq DEF Scanned, IsArgList
<1>2. /\ Size(c) \in Nat /\ p \in 1..Size(c) /\ k + 1 \in 0..Len(c.defaults)
      /\ Passed(c, k + 1) = Passed(c, k) \union {p}
      /\ \A n \in Passed(c, k) : p < n /\ n \in 1..Size(c)
      /\ p - DefaultedFrom(c) = Len(c.defaults) - k
      /\ Len(c.defaults) - k \in 1..Len(c.defaults)
  BY <1>1, Place
<1>3. d \in {Null, Default}
  BY <1>2, ElementOfSeq DEF IsCall
<1>4. d = c.defaults[p - DefaultedFrom(c)] BY <1>2
<1>5. /\ f \in Passed(c, k) /\ s[f] # Null /\ a \in [1..Size(c) -> {Null, Given, Default}]
      /\ \A n \in (f + 1)..Size(c) : s[n] = Null
      /\ \A n \in 1..Size(c) : a[n] = IF n \in Passed(c, k) /\ n < f /\ s[n] = Null
                                      THEN c.defaults[n - DefaultedFrom(c)] ELSE s[n]
      /\ \A n \in Passed(c, k) : n <= f => a[n] # Null
  BY DEF Scanned
<1> HIDE DEF p, d
<1>6. p \notin Passed(c, k) BY <1>2
<1>7. s[p] = Null /\ p < f
  <2>1. a[p] = s[p] BY <1>2, <1>5, <1>6
  <2> QED BY <1>2, <1>5, <2>1 DEF p
<1>8. b \in [1..Size(c) -> {Null, Given, Default}] /\ b[p] = d /\ \A n \in 1..Size(c) : n # p => b[n] = a[n]
  BY <1>2, <1>3, <1>5
<1>9. d # Null BY DEF d
<1> HIDE DEF b
<1>10. ASSUME NEW n \in 1..Size(c)
       PROVE  b[n] = IF n \in Passed(c, k + 1) /\ n < f /\ s[n] = Null
                     THEN c.defaults[n - DefaultedFrom(c)] ELSE s[n]
  <2>1. CASE n = p BY <1>2, <1>4, <1>7, <1>8, <2>1
  <2>2. CASE n # p BY <1>2, <1>5, <1>8, <2>2
  <2> QED BY <2>1, <2>2
<1>11. ASSUME NEW n \in Passed(c, k + 1), n <= f PROVE b[n] # Null
  <2>1. CASE n = p BY <1>8, <1>9, <2>1
  <2>2. CASE n # p BY <1>2, <1>5, <1>8, <1>11, <2>2
  <2> QED BY <2>1, <2>2
<1>12. Scanned(c, s, b, k + 1, f) BY <1>2, <1>5, <1>8, <1>10, <1>11 DEF Scanned
<1> QED BY <1>12 DEF b, p, d

LEMMA ScanMeetsSupplied ==
  ASSUME NEW c, IsCall(c), NEW s, IsArgList(c, s), NEW a, NEW k, k < Len(c.defaults),
         NEW f, Scanned(c, s, a, k, f), a[Size(c) - k] # Null
  PROVE  Scanned(c, s, a, k + 1, IF f = 0 THEN Size(c) - k ELSE f)
<1> DEFINE p == Size(c) - k
<1>1. k \in Nat BY ArgListIsSeq DEF Scanned, IsArgList
<1>2. /\ Size(c) \in Nat /\ p \in 1..Size(c) /\ k + 1 \in 0..Len(c.defaults)
      /\ Passed(c, k + 1) = Passed(c, k) \union {p}
      /\ \A n \in Passed(c, k) : p < n /\ n \in 1..Size(c)
  BY <1>1, Place
<1>3. CASE f = 0
  <2>1. a = s /\ \A n \in Passed(c, k) : s[n] = Null BY <1>3 DEF Scanned
  <2>2. \A n \in (p + 1)..Size(c) : s[n] = Null BY <2>1 DEF Passed
  <2>3. a \in [1..Size(c) -> {Null, Given, Default}] BY <2>1 DEF IsArgList
  <2>4. p # 0 /\ p \in Passed(c, k + 1) /\ \A n \in Passed(c, k + 1) : ~(n < p) /\ (n <= p => n = p)
    BY <1>2
  <2> HIDE DEF p
  <2>5. Scanned(c, s, a, k + 1, p) BY <1>2, <2>1, <2>2, <2>3, <2>4 DEF Scanned, p
  <2> QED BY <1>3, <2>5 DEF p
<1>4. CASE f # 0
  <2>1. /\ f \in Passed(c, k) /\ s[f] # Null /\ a \in [1..Size(c) -> {Null, Given, Default}]
        /\ \A n \in (f + 1)..Size(c) : s[n] = Null
        /\ \A n \in 1..Size(c) : a[n] = IF n \in Passed(c, k) /\ n < f /\ s[n] = Null
                                        THEN c.defaults[n - DefaultedFrom(c)] ELSE s[n]
        /\ \A n \in Passed(c, k) : n <= f => a[n] # Null
    BY <1>4 DEF Scanned
  <2>2. p \notin Passed(c, k) BY <1>2
  <2>3. a[p] = s[p] /\ s[p] # Null BY <1>2, <2>1, <2>2
  <2>4. a[p] # Null OBVIOUS
  <2> HIDE DEF p
  <2>5. ASSUME NEW n \in 1..Size(c)
        PROVE  a[n] = IF n \in Passed(c, k + 1) /\ n < f /\ s[n] = Null
                      THEN c.defaults[n - DefaultedFrom(c)] ELSE s[n]
    BY <1>2, <2>1, <2>3
  <2>6. \A n \in Passed(c, k + 1) : n <= f => a[n] # Null BY <1>2, <2>1, <2>4
  <2>7. Scanned(c, s, a, k + 1, f) BY <1>2, <1>4, <2>1, <2>5, <2>6 DEF Scanned
  <2> QED BY <1>4, <2>7
<1> QED BY <1>3, <1>4

(* Where the slice ends.                                                   *)
End(c, a, f) == IF f # 0 THEN f ELSE Len(a) - Len(c.defaults)

(* The slice that is sent after the last iteration: what WithDefaults says *)
(* and, up to the required arguments and those the table does not cover,   *)
(* without a null.                                                         *)
LEMMA ScanEnds ==
  ASSUME NEW c, IsCall(c), NEW s, IsArgList(c, s), NEW a, NEW f,
         Scanned(c, s, a, Len(c.defaults), f),
         NEW slice, slice = SubSeq(a, 1, End(c, a, f))
  PROVE  /\ slice = WithDefaults(c, s)
         /\ \A n \in DOMAIN slice : slice[n] = Null => n \in (c.required + 1)..DefaultedFrom(c)
<1> DEFINE D == DefaultedFrom(c)
           V == {Null, Given, Default}
           there == {n \in D + 1 .. Len(s) : s[n] # Null}
           e == End(c, a, f)
<1>0. slice = SubSeq(a, 1, e) OBVIOUS
<1>1. /\ Size(c) \in Nat /\ Len(c.defaults) \in Nat /\ D \in Nat /\ D = Size(c) - Len(c.defaults)
      /\ s \in Seq({Null, Given}) /\ Len(s) = Size(c)
  BY ArgListIsSeq DEF IsArgList
<1>2. Passed(c, Len(c.defaults)) = (D + 1)..Size(c) BY <1>1 DEF Passed
<1>3. c.required \in Nat /\ \A n \in 1..c.required : s[n] = Given BY DEF IsCall, IsArgList
<1>4. s \in [1..Size(c) -> {Null, Given}] BY DEF IsArgList
<1>5. a \in [1..Size(c) -> V]
  BY <1>4 DEF Scanned
<1> HIDE DEF D, V
<1>6. Len(a) = Size(c) /\ a \in Seq(V) BY <1>5, ArgListIsSeq
<1>7. /\ LastSupplied(c, s) = e /\ e \in 0..Size(c)
      /\ \A n \in 1..e : a[n] = IF n > D /\ s[n] = Null THEN c.defaults[n - D] ELSE s[n]
      /\ \A n \in 1..e : n > D => a[n] # Null
  <2>1. CASE f = 0
    <3>1. a = s /\ \A n \in (D + 1)..Size(c) : s[n] = Null BY <1>2, <2>1 DEF Scanned
    <3>2. there = {} BY <1>1, <3>1
    <3>3. LastSupplied(c, s) = D BY <3>2 DEF LastSupplied, D
    <3>4. e = D BY <1>1, <1>6, <2>1 DEF End
    <3> QED BY <1>1, <3>1, <3>3, <3>4
  <2>2. CASE f # 0
    <3>1. /\ f \in (D + 1)..Size(c) /\ s[f] # Null
          /\ \A n \in (f + 1)..Size(c) : s[n] = Null
          /\ \A n \in 1..Size(c) : a[n] = IF n \in (D + 1)..Size(c) /\ n < f /\ s[n] = Null
                                           THEN c.defaults[n - D] ELSE s[n]
          /\ \A n \in (D + 1)..Size(c) : n <= f => a[n] # Null
      BY <1>2, <2>2 DEF Scanned, D
    <3>2. f \in there BY <1>1, <3>1
    <3>3. \A m \in there : m <= f /\ m \in Nat BY <1>1, <3>1
    <3>4. \A n \in there : (\A m \in there : m <= n) => n = f
      <4> SUFFICES ASSUME NEW n \in there, \A m \in there : m <= n PROVE n = f OBVIOUS
      <4>1. f <= n /\ n <= f /\ n \in Nat BY <3>2, <3>3
      <4>2. f \in Nat BY <1>1, <3>1
      <4> QED BY <4>1, <4>2
    <3>5. LastSupplied(c, s) = CHOOSE n \in there : \A m \in there : m <= n
      BY <3>2 DEF LastSupplied, D
    <3> HIDE DEF there
    <3>6. LastSupplied(c, s) = f BY <3>2, <3>3, <3>4, <3>5
    <3>7. e = f BY <2>2 DEF End
    <3>8. ASSUME NEW n \in 1..f PROVE a[n] = IF n > D /\ s[n] = Null THEN c.defaults[n - D] ELSE s[n]
      <4>1. n \in 1..Size(c) BY <1>1, <3>1
      <4>2. n = f \/ n < f BY <1>1, <3>1
      <4>3. n > D => n \in (D + 1)..Size(c) BY <1>1, <4>1
      <4> QED BY <1>1, <3>1, <4>1, <4>2, <4>3
    <3>9. ASSUME NEW n \in 1..f, n > D PROVE a[n] # Null
      <4>1. n \in (D + 1)..Size(c) /\ n <= f BY <1>1, <3>1, <3>9
      <4> QED BY <3>1, <4>1
    <3>10. f \in 0..Size(c) BY <1>1, <3>1
    <3> QED BY <3>6, <3>7, <3>8, <3>9, <3>10
  <2> QED BY <2>1, <2>2
<1> HIDE DEF e
<1>8. /\ slice \in Seq(V) /\ Len(slice) = e /\ \A n \in 1..e : slice[n] = a[n]
  <2>1. \A n \in 1..e : a[n] \in V BY <1>1, <1>5, <1>7
  <2>2. e \in Nat /\ 1 + e - 1 = e BY <1>1, <1>7
  <2>3. /\ SubSeq(a, 1, e) \in Seq(V) /\ Len(SubSeq(a, 1, e)) = e
        /\ \A n \in 1..e : SubSeq(a, 1, e)[n] = a[n]
    BY <1>1, <1>6, <1>7, <2>1, <2>2, SubSeqProperties
  <2> QED BY <1>0, <2>3
<1>9. slice = [n \in 1..e |-> slice[n]] BY <1>8, LenProperties
<1>10. slice = WithDefaults(c, s)
  <2>1. WithDefaults(c, s) = [n \in 1..e |-> IF n > D /\ s[n] = Null THEN c.defaults[n - D] ELSE s[n]]
    BY <1>7 DEF WithDefaults, D
  <2> QED BY <1>7, <1>8, <1>9, <2>1
<1>11. ASSUME NEW n \in DOMAIN slice, slice[n] = Null PROVE n \in (c.required + 1)..D
  <2>1. n \in 1..e BY <1>9
  <2>2. ~(n > D) /\ a[n] = s[n] /\ s[n] = Null BY <1>7, <1>8, <1>11, <2>1
  <2>3. n \notin 1..c.required BY <1>3, <2>2 DEF Given, Null
  <2> QED BY <1>1, <1>3, <1>7, <2>1, <2>2, <2>3
<1> QED BY <1>10, <1>11 DEF D
-----------------------------------------------------------------------------
(* What is used of the tables of the client.                               *)
Sound(c) ==
    /\ IsCall(c)
    /\ Gapless(c) \/ c = get_network_hash_ps
    /\ Covered(c) \/ c \in {get_new_address, generate, list_since_block}

LEMMA Made ==
  ASSUME NEW k, NEW r \in Nat, NEW o \in Nat, NEW d \in Seq({Null, Default}), Len(d) <= r + o
  PROVE  /\ IsCall(Call(k, r, o, d))
         /\ (\A n \in 1..(Len(d) - 1) : d[n] # Null) => Gapless(Call(k, r, o, d))
         /\ o <= Len(d) => Covered(Call(k, r, o, d))
  BY DEF IsCall, Gapless, Covered, Call

LEMMA MadePlain ==
  ASSUME NEW k, NEW r \in Nat, NEW o \in Nat
  PROVE  /\ IsCall(Plain(k, r, o)) /\ Gapless(Plain(k, r, o))
         /\ o = 0 => Covered(Plain(k, r, o))
<1> DEFINE d == <<>>
<1>1. d \in Seq({Null, Default}) /\ Len(d) = 0 BY EmptySeq
<1> HIDE DEF d
<1>2. Len(d) <= r + o /\ (\A n \in 1..(Len(d) - 1) : d[n] # Null) /\ (o = 0 => o <= Len(d)) BY <1>1
<1>3. Plain(k, r, o) = Call(k, r, o, d) BY DEF Plain, d
<1> QED BY <1>1, <1>2, <1>3, Made

(* The calls without optional arguments.                                   *)
LEMMA PlainCalls ==
  ASSUME NEW c \in LoadWalletCalls \cup WalletCalls \cup KeyCalls \cup BlockCalls
                  \cup ChainCalls \cup FilterCalls \cup BalancesCalls \cup LabelCalls \cup LockCalls
                  \cup StopCalls \cup AddressCalls \cup MempoolCalls \cup PeerCalls \cup WaitCalls
                  \cup PsbtCalls \cup TotalsCalls \cup NodeCalls
                  \cup {get_blockchain_info, version, test_mempool_accept, send_raw_transaction}
  PROVE  Sound(c)
<1>1. ASSUME NEW k PROVE Sound(Plain(k, 0, 0)) /\ Sound(Plain(k, 1, 0)) /\ Sound(Plain(k, 2, 0))
                        /\ Sound(Plain(k, 3, 0))
  BY MadePlain DEF Sound
<1>2. CASE c \in LoadWalletCalls \cup WalletCalls \cup KeyCalls \cup BlockCalls \cup ChainCalls
  BY <1>1, <1>2 DEF LoadWalletCalls, WalletCalls, KeyCalls, BlockCalls, ChainCalls
<1>3. CASE c \in FilterCalls \cup BalancesCalls \cup LabelCalls \cup LockCalls \cup StopCalls
  BY <1>1, <1>3 DEF FilterCalls, BalancesCalls, LabelCalls, LockCalls, StopCalls
<1>4. CASE c \in AddressCalls \cup MempoolCalls \cup PeerCalls \cup WaitCalls
  BY <1>1, <1>4 DEF AddressCalls, MempoolCalls, PeerCalls, WaitCalls
<1>5. CASE c \in PsbtCalls \cup TotalsCalls \cup NodeCalls
  BY <1>1, <1>5 DEF PsbtCalls, TotalsCalls, NodeCalls
<1>6. CASE c \in {get_blockchain_info, version, test_mempool_accept, send_raw_transaction}
  BY <1>1, <1>6 DEF get_blockchain_info, version, test_mempool_accept, send_raw_transaction
<1> QED BY <1>2, <1>3, <1>4, <1>5, <1>6

(* A table of one place, or whose places but the last have a default.      *)
LEMMA TableOf1 ==
  ASSUME NEW x \in {Null, Default}, NEW k, NEW r \in Nat, NEW o \in Nat, 1 <= r + o
  PROVE  LET c == Call(k, r, o, <<x>>) IN IsCall(c) /\ Gapless(c) /\ (o <= 1 => Covered(c))
<1> DEFINE d == <<x>>
<1>1. d \in Seq({Null, Default}) /\ Len(d) = 1 OBVIOUS
<1> HIDE DEF d
<1>2. Len(d) <= r + o /\ (\A n \in 1..(Len(d) - 1) : d[n] # Null) /\ (o <= 1 => o <= Len(d)) BY <1>1
<1>3. /\ IsCall(Call(k, r, o, d)) /\ Gapless(Call(k, r, o, d))
      /\ o <= 1 => Covered(Call(k, r, o, d))
  BY <1>1, <1>2, Made
<1> QED BY <1>3 DEF d

LEMMA TableOf2 ==
  ASSUME NEW k, NEW r \in Nat
  PROVE  Sound(Call(k, r, 2, <<Default, Null>>))
<1> DEFINE d == <<Default, Null>>
<1>1. d \in Seq({Null, Default}) /\ Len(d) = 2 /\ \A n \in 1..1 : d[n] # Null BY DEF Null, Default
<1> HIDE DEF d
<1>2. Len(d) - 1 = 1 /\ Len(d) <= r + 2 /\ 2 <= Len(d) BY <1>1
<1>3. IsCall(Call(k, r, 2, d)) /\ Gapless(Call(k, r, 2, d)) /\ Covered(Call(k, r, 2, d))
  BY <1>1, <1>2, Made
<1> QED BY <1>3 DEF Sound, d

LEMMA TableOf3 ==
  ASSUME NEW k, NEW r \in Nat, NEW x \in {Null, Default}
  PROVE  Sound(Call(k, r, 3, <<Default, Default, x>>))
<1> DEFINE d == <<Default, Default, x>>
<1>1. d \in Seq({Null, Default}) /\ Len(d) = 3 /\ \A n \in 1..2 : d[n] # Null BY DEF Null, Default
<1> HIDE DEF d
<1>2. Len(d) - 1 = 2 /\ Len(d) <= r + 3 /\ 3 <= Len(d) BY <1>1
<1>3. IsCall(Call(k, r, 3, d)) /\ Gapless(Call(k, r, 3, d)) /\ Covered(Call(k, r, 3, d))
  BY <1>1, <1>2, Made
<1> QED BY <1>3 DEF Sound, d

LEMMA TableOf4 ==
  ASSUME NEW k, NEW r \in Nat, NEW x \in {Null, Default}
  PROVE  Sound(Call(k, r, 4, <<Default, Default, Default, x>>))
<1> DEFINE d == <<Default, Default, Default, x>>
<1>1. d \in Seq({Null, Default}) /\ Len(d) = 4 /\ \A n \in 1..3 : d[n] # Null BY DEF Null, Default
<1> HIDE DEF d
<1>2. Len(d) - 1 = 3 /\ Len(d) <= r + 4 /\ 4 <= Len(d) BY <1>1
<1>3. IsCall(Call(k, r, 4, d)) /\ Gapless(Call(k, r, 4, d)) /\ Covered(Call(k, r, 4, d))
  BY <1>1, <1>2, Made
<1> QED BY <1>3 DEF Sound, d

(* The calls whose table has no gap, by the length of the table.           *)
LEMMA Calls1 ==
  ASSUME NEW c \in {unload_wallet, backup_wallet, get_raw_transaction, get_raw_transaction_hex,
                    get_raw_transaction_info, get_received_by_address, get_transaction,
                    list_since_block, get_tx_out, get_tx_out_proof, import_multi, key_pool_refill,
                    estimate_smart_fee, finalize_psbt, derive_addresses}
  PROVE  Sound(c)
<1>1. /\ Sound(unload_wallet) /\ Sound(backup_wallet) /\ Sound(get_raw_transaction)
      /\ Sound(get_raw_transaction_hex) /\ Sound(get_raw_transaction_info)
  BY TableOf1 DEF Sound, unload_wallet, backup_wallet, get_raw_transaction, get_raw_transaction_hex,
                  get_raw_transaction_info
<1>2. /\ Sound(get_received_by_address) /\ Sound(get_transaction) /\ Sound(get_tx_out)
      /\ Sound(get_tx_out_proof) /\ Sound(import_multi)
  BY TableOf1 DEF Sound, get_received_by_address, get_transaction, get_tx_out, get_tx_out_proof,
                  import_multi
<1>3. /\ Sound(key_pool_refill) /\ Sound(estimate_smart_fee) /\ Sound(finalize_psbt)
      /\ Sound(derive_addresses)
  BY TableOf1 DEF Sound, key_pool_refill, estimate_smart_fee, finalize_psbt, derive_addresses
<1>4. Sound(list_since_block)
  <2>1. IsCall(list_since_block) /\ Gapless(list_since_block) BY TableOf1 DEF list_since_block
  <2> QED BY <2>1 DEF Sound
<1> QED BY <1>1, <1>2, <1>3, <1>4

LEMMA Calls2 ==
  ASSUME NEW c \in {add_multisig_address, get_balance, import_public_key, import_private_key,
                    import_address, create_raw_transaction_hex, fund_raw_transaction,
                    sign_raw_transaction_with_wallet, sign_raw_transaction_with_key,
                    rescan_blockchain}
  PROVE  Sound(c)
<1>1. /\ Sound(add_multisig_address) /\ Sound(get_balance) /\ Sound(import_public_key)
      /\ Sound(import_private_key) /\ Sound(import_address)
  BY TableOf2 DEF add_multisig_address, get_balance, import_public_key, import_private_key,
                  import_address
<1>2. /\ Sound(create_raw_transaction_hex) /\ Sound(fund_raw_transaction)
      /\ Sound(sign_raw_transaction_with_wallet) /\ Sound(sign_raw_transaction_with_key)
      /\ Sound(rescan_blockchain)
  BY TableOf2 DEF create_raw_transaction_hex, fund_raw_transaction, sign_raw_transaction_with_wallet,
                  sign_raw_transaction_with_key, rescan_blockchain
<1> QED BY <1>1, <1>2

LEMMA Calls3 ==
  ASSUME NEW c \in {list_transactions, import_address_script, sign_raw_transaction,
                    wallet_create_funded_psbt, create_wallet, list_received_by_address}
  PROVE  Sound(c)
<1>1. /\ Sound(list_transactions) /\ Sound(import_address_script) /\ Sound(sign_raw_transaction)
      /\ Sound(wallet_create_funded_psbt)
  BY TableOf3 DEF list_transactions, import_address_script, sign_raw_transaction,
                  wallet_create_funded_psbt
<1>2. Sound(create_wallet) /\ Sound(list_received_by_address)
  BY TableOf4 DEF create_wallet, list_received_by_address
<1> QED BY <1>1, <1>2

LEMMA Calls5 ==
  ASSUME NEW c \in {list_unspent, send_to_address}
  PROVE  Sound(c)
<1>1. Sound(list_unspent)
  <2> DEFINE d == <<Default, Default, Default, Default, Null>>
  <2>1. d \in Seq({Null, Default}) /\ Len(d) = 5 /\ \A n \in 1..4 : d[n] # Null BY DEF Null, Default
  <2> HIDE DEF d
  <2>2. Len(d) - 1 = 4 /\ Len(d) <= 0 + 5 /\ 5 <= Len(d) BY <2>1
  <2> QED BY <2>1, <2>2, Made DEF Sound, list_unspent, d
<1>2. Sound(send_to_address)
  <2> DEFINE d == <<Default, Default, Default, Default, Default, Null>>
  <2>1. d \in Seq({Null, Default}) /\ Len(d) = 6 /\ \A n \in 1..5 : d[n] # Null BY DEF Null, Default
  <2> HIDE DEF d
  <2>2. Len(d) - 1 = 5 /\ Len(d) <= 2 + 6 /\ 6 <= Len(d) BY <2>1
  <2> QED BY <2>1, <2>2, Made DEF Sound, send_to_address, d
<1> QED BY <1>1, <1>2

(* get_network_hash_ps has a table of two nulls; get_new_address and       *)
(* generate have an optional argument and no table.                        *)
LEMMA OddCalls ==
  ASSUME NEW c \in {get_network_hash_ps, get_new_address, generate}
  PROVE  Sound(c)
<1>1. Sound(get_network_hash_ps)
  <2> DEFINE d == <<Null, Null>>
  <2>1. d \in Seq({Null, Default}) /\ Len(d) = 2 OBVIOUS
  <2> HIDE DEF d
  <2>2. Len(d) <= 0 + 2 /\ 2 <= Len(d) BY <2>1
  <2>3. IsCall(Call("getnetworkhashps", 0, 2, d)) /\ Covered(Call("getnetworkhashps", 0, 2, d))
    BY <2>1, <2>2, Made
  <2> QED BY <2>3 DEF Sound, get_network_hash_ps, d
<1>2. Sound(get_new_address)
  <2>1. IsCall(get_new_address) /\ Gapless(get_new_address) BY MadePlain DEF get_new_address
  <2> QED BY <2>1 DEF Sound
<1>3. Sound(generate)
  <2>1. IsCall(generate) /\ Gapless(generate) BY MadePlain DEF generate
  <2> QED BY <2>1 DEF Sound
<1> QED BY <1>1, <1>2, <1>3

LEMMA CallsAreSound == ASSUME NEW c \in Calls PROVE Sound(c)
  BY PlainCalls, Calls1, Calls2, Calls3, Calls5, OddCalls DEF Calls, TxCalls
-----------------------------------------------------------------------------
(* The methods bitcoind-cli calls are methods of the client, and it builds *)
(* argument lists as they do.                                              *)
LEMMA CliCallsAreCalls ==
  ASSUME NEW c \in CliCalls, NEW a \in CliArgs(c)
  PROVE  c \in Calls /\ a \in ArgLists(c)
<1>1. CliCalls \subseteq Calls BY DEF CliCalls, Calls, TxCalls
<1>2. <<Given, Given, Null, Null>> \in ArgLists(list_transactions)
  <2> DEFINE l == <<Given, Given, Null, Null>>
  <2>1. list_transactions.required = 1 /\ list_transactions.optional = 3 BY DEF list_transactions, Call
  <2>2. l \in [1..4 -> {Null, Given}] /\ l[1] = Given OBVIOUS
  <2> HIDE DEF l
  <2>3. l \in ArgLists(list_transactions) BY <2>1, <2>2 DEF ArgLists
  <2> QED BY <2>3 DEF l
<1>3. a \in ArgLists(c) BY <1>2 DEF CliArgs
<1> QED BY <1>1, <1>3

(* A transaction is encoded once.                                          *)
HexedOnce ==
    call \in TxCalls => hexed = 1 \/ (caller = "cli" /\ call = send_raw_transaction)

(* Where the call at hand stands.                                          *)
RpcInv ==
    /\ pc = "idle" => i = 0 /\ first = 0
    /\ pc \in {"loop", "missing default"} =>
          /\ call \in Calls /\ IsArgList(call, supplied)
          /\ Scanned(call, supplied, args, i, first)
          /\ HexedOnce
    /\ pc = "missing default" =>
          /\ i < Len(call.defaults) /\ first # 0
          /\ args[Size(call) - i] = Null /\ call.defaults[Len(call.defaults) - i] = Null
    /\ pc = "sent" =>
          /\ call \in Calls /\ HexedOnce
          /\ sent = WithDefaults(call, supplied)
          /\ \A n \in DOMAIN sent :
                sent[n] = Null => n \in (call.required + 1)..DefaultedFrom(call)
    /\ node \in {"old", "new"}
    /\ pc = "version" /\ ~replaced => raw = SoftforkFields(node)
    /\ InfoUndecodableCause

LEMMA RpcInvInit == Init => RpcInv
  BY DEF Init, RpcInv, InfoUndecodableCause

(* A call begins.                                                          *)
LEMMA RpcInvEnter ==
  ASSUME RpcInv, NEW who, NEW c \in Calls, NEW a \in ArgLists(c), NEW tx, Enter(who, c, a, tx),
         c \in TxCalls => raw_hex(tx) = 1 \/ (who = "cli" /\ c = send_raw_transaction)
  PROVE  RpcInv'
<1>1. pc = "idle" /\ pc' = "loop" /\ caller' = who /\ call' = c /\ supplied' = a /\ args' = a
  BY DEF Enter
<1>2. i' = 0 /\ first' = 0 /\ UNCHANGED <<node, raw, replaced>> BY DEF Enter, RpcInv, info
<1>3. hexed' = IF c \in TxCalls THEN raw_hex(tx) ELSE 0 BY DEF Enter
<1>4. HexedOnce' BY <1>1, <1>3 DEF HexedOnce
<1>5. IsCall(c) BY CallsAreSound DEF Sound
<1>6. IsArgList(c, a) BY DEF ArgLists, IsArgList, Size
<1>7. Scanned(c, a, a, 0, 0) BY <1>5, <1>6, ScanStarts
<1>8. Scanned(call, supplied, args, i, first)' BY <1>1, <1>2, <1>7
<1>9. IsArgList(call, supplied)' BY <1>1, <1>6
<1> QED BY <1>1, <1>2, <1>4, <1>8, <1>9 DEF RpcInv, InfoUndecodableCause

(* The indexes of the loop.                                                *)
LEMMA Indexes ==
  ASSUME RpcInv, pc = "loop"
  PROVE  /\ IsCall(call) /\ IsArgList(call, supplied) /\ Scanned(call, supplied, args, i, first)
         /\ args_i = Size(call) - i /\ defaults_i = Len(call.defaults) - i
<1>1. IsCall(call) /\ IsArgList(call, supplied) /\ Scanned(call, supplied, args, i, first)
  BY CallsAreSound DEF RpcInv, Sound
<1>2. args \in [1..Size(call) -> {Null, Given, Default}]
  <2>1. supplied \in [1..Size(call) -> {Null, Given}] BY <1>1 DEF IsArgList
  <2> QED BY <1>1, <2>1 DEF Scanned
<1>3. Len(args) = Size(call) BY <1>1, <1>2, ArgListIsSeq
<1> QED BY <1>1, <1>3 DEF args_i, defaults_i

(* One iteration of the loop.                                              *)
LEMMA RpcInvLoop ==
  ASSUME RpcInv, KeepNull \/ FillDefault \/ MissingDefault \/ Supplied
  PROVE  RpcInv'
<1>1. pc = "loop" /\ i < Len(call.defaults) BY DEF KeepNull, FillDefault, MissingDefault, Supplied, InLoop
<1>2. /\ IsCall(call) /\ IsArgList(call, supplied) /\ Scanned(call, supplied, args, i, first)
      /\ args_i = Size(call) - i /\ defaults_i = Len(call.defaults) - i
  BY <1>1, Indexes
<1>3. call \in Calls /\ HexedOnce /\ node \in {"old", "new"} BY <1>1 DEF RpcInv
<1>4. UNCHANGED <<call, caller, supplied, hexed, node, raw, replaced>>
  BY DEF KeepNull, FillDefault, MissingDefault, Supplied, NextIteration, info
<1>5. HexedOnce' BY <1>3, <1>4 DEF HexedOnce
<1>6. IsArgList(call, supplied)' BY <1>2, <1>4
<1>7. ASSUME pc' = "loop", Scanned(call, supplied, args', i', first') PROVE RpcInv'
  <2>1. Scanned(call, supplied, args, i, first)' BY <1>4, <1>7
  <2> QED BY <1>3, <1>4, <1>5, <1>6, <1>7, <2>1 DEF RpcInv, InfoUndecodableCause
<1>8. CASE KeepNull
  <2>1. first = 0 /\ args[Size(call) - i] = Null /\ args' = args /\ first' = 0 /\ i' = i + 1 /\ pc' = "loop"
    BY <1>1, <1>2, <1>8 DEF KeepNull, NextIteration
  <2>2. Scanned(call, supplied, args, i + 1, 0) BY <1>1, <1>2, <2>1, ScanKeepsNull
  <2> QED BY <1>7, <2>1, <2>2
<1>9. CASE FillDefault
  <2>1. /\ first # 0 /\ args[Size(call) - i] = Null /\ call.defaults[Len(call.defaults) - i] # Null
        /\ args' = [args EXCEPT ![Size(call) - i] = call.defaults[Len(call.defaults) - i]]
        /\ first' = first /\ i' = i + 1 /\ pc' = "loop"
    BY <1>1, <1>2, <1>9 DEF FillDefault, NextIteration
  <2>2. Scanned(call, supplied, args', i + 1, first) BY <1>1, <1>2, <2>1, ScanFillsDefault
  <2> QED BY <1>7, <2>1, <2>2
<1>10. CASE Supplied
  <2>1. /\ args[Size(call) - i] # Null /\ args' = args /\ i' = i + 1 /\ pc' = "loop"
        /\ first' = IF first = 0 THEN Size(call) - i ELSE first
    BY <1>1, <1>2, <1>10 DEF Supplied, NextIteration
  <2>2. Scanned(call, supplied, args, i + 1, IF first = 0 THEN Size(call) - i ELSE first)
    BY <1>1, <1>2, <2>1, ScanMeetsSupplied
  <2> QED BY <1>7, <2>1, <2>2
<1>11. CASE MissingDefault
  <2>1. /\ first # 0 /\ args[Size(call) - i] = Null /\ call.defaults[Len(call.defaults) - i] = Null
        /\ UNCHANGED <<args, i, first>> /\ pc' = "missing default"
    BY <1>1, <1>2, <1>11 DEF MissingDefault
  <2>2. Scanned(call, supplied, args, i, first)' BY <1>2, <1>4, <2>1
  <2> QED BY <1>1, <1>3, <1>4, <1>5, <1>6, <2>1, <2>2 DEF RpcInv, InfoUndecodableCause
<1> QED BY <1>8, <1>9, <1>10, <1>11

(* The list is sent.                                                       *)
LEMMA RpcInvSend ==
  ASSUME RpcInv, Send
  PROVE  RpcInv'
<1>1. pc = "loop" /\ i = Len(call.defaults) /\ pc' = "sent" BY DEF Send
<1>2. /\ IsCall(call) /\ IsArgList(call, supplied) /\ Scanned(call, supplied, args, i, first)
      /\ call \in Calls /\ HexedOnce
  BY <1>1, Indexes DEF RpcInv
<1>3. sent' = SubSeq(args, 1, End(call, args, first)) BY DEF Send, End
<1>4. /\ sent' = WithDefaults(call, supplied)
      /\ \A n \in DOMAIN sent' : sent'[n] = Null => n \in (call.required + 1)..DefaultedFrom(call)
  <2>1. Scanned(call, supplied, args, Len(call.defaults), first) BY <1>1, <1>2
  <2> QED BY <1>2, <1>3, <2>1, ScanEnds
<1>5. UNCHANGED <<call, caller, supplied, hexed, node, raw, replaced>> BY DEF Send, info
<1>6. HexedOnce' BY <1>2, <1>5 DEF HexedOnce
<1>7. WithDefaults(call, supplied)' = WithDefaults(call, supplied) /\ DefaultedFrom(call)' = DefaultedFrom(call)
  BY <1>5
<1> QED BY <1>1, <1>2, <1>4, <1>5, <1>6, <1>7 DEF RpcInv, InfoUndecodableCause

(* The rest of the call.                                                   *)
LEMMA RpcInvReply ==
  ASSUME RpcInv, Todo \/ Fail \/ Reply \/ ReplyInfo \/ ReplyVersion \/ ReplaceNode
  PROVE  RpcInv'
<1>1. UNCHANGED <<call, supplied, hexed, sent, i, first>>
  BY DEF Todo, Fail, Reply, ReplyInfo, ReplyVersion, ReplaceNode
<1>2. CASE Todo BY <1>2 DEF Todo, RpcInv, InfoUndecodableCause, info
<1>3. CASE Fail \/ Reply BY <1>3 DEF Fail, Reply, RpcInv, InfoUndecodableCause, info
<1>4. CASE ReplyInfo BY <1>4 DEF ReplyInfo, RpcInv, InfoUndecodableCause
<1>5. CASE ReplyVersion
  <2>1. ~replaced => Decodes(node) BY <1>5 DEF ReplyVersion, RpcInv, SoftforkFields, Decodes
  <2> QED BY <1>5, <2>1 DEF ReplyVersion, RpcInv, InfoUndecodableCause, info
<1>6. CASE ReplaceNode
  <2>1. pc' = pc /\ pc \in {"sent", "version"} /\ node' \in {"old", "new"} /\ raw' = raw /\ caller' = caller
    BY <1>6 DEF ReplaceNode
  <2>2. pc = "version" => replaced' BY <1>6 DEF ReplaceNode
  <2>3. HexedOnce' = HexedOnce BY <1>1, <2>1 DEF HexedOnce
  <2>4. WithDefaults(call, supplied)' = WithDefaults(call, supplied) /\ DefaultedFrom(call)' = DefaultedFrom(call)
    BY <1>1
  <2> QED BY <1>1, <2>1, <2>2, <2>3, <2>4 DEF RpcInv, InfoUndecodableCause
<1> QED BY <1>2, <1>3, <1>4, <1>5, <1>6

LEMMA RpcInvNext == RpcInv /\ [Next]_vars => RpcInv'
<1> SUFFICES ASSUME RpcInv, [Next]_vars PROVE RpcInv' OBVIOUS
<1>1. CASE Invoke
  <2>0. PICK c \in Calls : \E a \in ArgLists(c) :
            \E tx \in (IF c \in TxCalls THEN RawTx ELSE {NoTx}) : Enter("library", c, a, tx)
    BY <1>1 DEF Invoke
  <2>1. PICK a \in ArgLists(c) :
            \E tx \in (IF c \in TxCalls THEN RawTx ELSE {NoTx}) : Enter("library", c, a, tx)
    BY <2>0
  <2>2. PICK tx \in (IF c \in TxCalls THEN RawTx ELSE {NoTx}) : Enter("library", c, a, tx) BY <2>1
  <2>3. c \in TxCalls => raw_hex(tx) = 1 BY <2>2 DEF RawTx, raw_hex
  <2> QED BY <2>2, <2>3, RpcInvEnter
<1>2. CASE Dispatch
  <2>0. PICK c \in CliCalls : \E a \in CliArgs(c) : Enter("cli", c, a, CliTx(c)) BY <1>2 DEF Dispatch
  <2>1. PICK a \in CliArgs(c) : Enter("cli", c, a, CliTx(c)) BY <2>0
  <2>2. c \in Calls /\ a \in ArgLists(c) BY CliCallsAreCalls
  <2>3. raw_hex(CliTx(c)) = 1 \/ c = send_raw_transaction BY DEF CliTx, raw_hex, NoTx
  <2> QED BY <2>1, <2>2, <2>3, RpcInvEnter
<1>3. CASE UNCHANGED vars
  <2>1. /\ UNCHANGED <<pc, caller, call, supplied, args, i>>
        /\ UNCHANGED <<first, sent, hexed, node, raw, replaced>>
    BY <1>3 DEF vars, info
  <2>2. HexedOnce' = HexedOnce BY <2>1 DEF HexedOnce
  <2>3. /\ WithDefaults(call, supplied)' = WithDefaults(call, supplied)
        /\ DefaultedFrom(call)' = DefaultedFrom(call) /\ Size(call)' = Size(call)
        /\ IsArgList(call, supplied)' = IsArgList(call, supplied)
        /\ Scanned(call, supplied, args, i, first)' = Scanned(call, supplied, args, i, first)
    BY <2>1
  <2> QED BY <2>1, <2>2, <2>3 DEF RpcInv, InfoUndecodableCause
<1> QED BY <1>1, <1>2, <1>3, RpcInvLoop, RpcInvSend, RpcInvReply DEF Next

LEMMA RpcInvariant == Spec => []RpcInv
  BY RpcInvInit, RpcInvNext, PTL DEF Spec

(* What the backward loop of handle_defaults sends is what its comment     *)
(* describes, for every method and every combination of arguments.         *)
THEOREM DefaultsAreInPlace == Spec => []SentIsWithDefaults
<1>1. RpcInv => SentIsWithDefaults BY DEF RpcInv, SentIsWithDefaults
<1> QED BY <1>1, RpcInvariant, PTL

(* The panic of handle_defaults needs a table with a gap, and the client   *)
(* has one: get_network_hash_ps with a height and no nblocks.              *)
THEOREM MissingDefaultsExplained == Spec => []MissingDefaultCause
<1> DEFINE c == get_network_hash_ps
<1>1. ASSUME RpcInv, pc = "missing default" PROVE call = c /\ supplied = <<Null, Given>>
  <2>1. /\ call \in Calls /\ IsArgList(call, supplied) /\ Scanned(call, supplied, args, i, first)
        /\ i < Len(call.defaults) /\ first # 0
        /\ args[Size(call) - i] = Null /\ call.defaults[Len(call.defaults) - i] = Null
    BY <1>1 DEF RpcInv
  <2>2. Sound(call) BY <2>1, CallsAreSound
  <2>3. Len(call.defaults) \in Nat /\ i \in Nat BY <2>1, <2>2, ArgListIsSeq DEF Sound, IsArgList, Scanned
  <2>4. first \in Passed(call, i) BY <2>1 DEF Scanned
  <2>5. i # 0
    <3>1. Size(call) \in Nat BY <2>1, <2>2, ArgListIsSeq DEF Sound, IsArgList
    <3> QED BY <2>4, <3>1 DEF Passed
  <2>6. Len(call.defaults) - i \in 1..(Len(call.defaults) - 1) BY <2>1, <2>3, <2>5
  <2>7. call = c BY <2>1, <2>2, <2>6 DEF Sound, Gapless
  <2>8. c.required = 0 /\ c.optional = 2 /\ c.defaults = <<Null, Null>> BY DEF get_network_hash_ps, Call
  <2>9. Size(c) = 2 /\ Len(c.defaults) = 2 BY <2>8 DEF Size
  <2> HIDE DEF c
  <2>10. i = 1 BY <2>1, <2>3, <2>5, <2>7, <2>9
  <2>11. Passed(c, 1) = {2} BY <2>9 DEF Passed
  <2>12. first = 2 /\ supplied[2] # Null BY <2>1, <2>4, <2>7, <2>10, <2>11 DEF Scanned
  <2>13. supplied \in [1..2 -> {Null, Given}] BY <2>1, <2>7, <2>9 DEF IsArgList
  <2>14. args[1] = supplied[1] /\ args[1] = Null
    <3>1. Size(c) - 1 = 1 /\ 1 \in 1..Size(c) /\ 1 \notin Passed(c, 1) BY <2>9, <2>11
    <3> QED BY <2>1, <2>7, <2>10, <3>1 DEF Scanned
  <2>15. supplied[1] = Null /\ supplied[2] = Given BY <2>12, <2>13, <2>14
  <2> QED BY <2>7, <2>13, <2>15
<1>2. RpcInv => MissingDefaultCause BY <1>1 DEF MissingDefaultCause
<1> QED BY <1>2, RpcInvariant, PTL

(* The node receives no null and every transaction as hex, except from the *)
(* methods and the subcommand named.                                       *)
THEOREM MalformedRequestsExplained == Spec => []MalformedRequestCause
<1>1. ASSUME RpcInv, pc = "sent", NEW n \in DOMAIN sent, sent[n] = Null
      PROVE  call \in {get_new_address, generate, list_since_block}
  <2>1. call \in Calls /\ n \in (call.required + 1)..DefaultedFrom(call) BY <1>1 DEF RpcInv
  <2>2. Sound(call) BY <2>1, CallsAreSound
  <2>3. call.required \in Nat /\ call.optional \in Nat /\ Len(call.defaults) \in Nat
    BY <2>2, LenProperties DEF Sound, IsCall
  <2>4. ~Covered(call) BY <2>1, <2>3 DEF Covered, DefaultedFrom
  <2> QED BY <2>2, <2>4 DEF Sound
<1>2. RpcInv => MalformedRequestCause BY <1>1 DEF MalformedRequestCause, RpcInv, HexedOnce
<1> QED BY <1>2, RpcInvariant, PTL

(* get_blockchain_info fails on the structure of a reply only when the     *)
(* node was replaced between its two requests.                             *)
THEOREM UndecodableInfoExplained == Spec => []InfoUndecodableCause
<1>1. RpcInv => InfoUndecodableCause BY DEF RpcInv
<1> QED BY <1>1, RpcInvariant, PTL
=============================================================================
