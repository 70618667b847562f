---------------------------- MODULE FakeIPProofs ----------------------------
(***************************************************************************)
(* The fake IP store (FakeIP): the two directions of the mapping agree in  *)
(* the database, whatever fails; an answer leads back to its domain; and,  *)
(* with at most one failed transaction, no mapping is ahead of the         *)
(* position the store goes on from.                                        *)
(***************************************************************************)
EXTENDS FakeIP, WellFoundedInduction, TLAPS

-----------------------------------------------------------------------------
(* Induction, and functions defined by it                                  *)

\* A set of naturals that is not empty has a least element.
LEMMA LeastNat ==
    ASSUME NEW T \in SUBSET Nat, T # {}
    PROVE  \E x \in T : \A y \in T : x <= y
<1>1. PICK R : R = OpToRel(<, Nat) BY Zenon
<1>2. IsWellFoundedOn(R, Nat) BY <1>1, NatLessThanWellFounded, Zenon
<1>3. PICK x \in T : \A y \in T : <<y, x>> \notin R BY <1>2, WFMin, Zenon
<1>4. ASSUME NEW y \in T PROVE x <= y
  <2>1. ~(y < x) BY <1>1, <1>3, Zenon DEF OpToRel
  <2> QED BY <2>1
<1> QED BY <1>3, <1>4

\* What holds of 0 and of the successor of each number it holds of, holds of
\* all naturals; stated with the set of the numbers it holds of.
LEMMA Induct ==
    ASSUME NEW S, 0 \in S, \A n \in Nat : n \in S => n + 1 \in S
    PROVE  Nat \subseteq S
<1> SUFFICES ASSUME Nat \ S # {} PROVE FALSE OBVIOUS
<1>1. PICK x \in Nat \ S : \A y \in Nat \ S : x <= y BY LeastNat, Zenon
<1>2. x # 0 BY <1>1
<1>3. x - 1 \in Nat /\ ~(x <= x - 1) BY <1>2
<1>4. x - 1 \in S BY <1>1, <1>3
<1>5. x - 1 + 1 = x BY <1>2
<1> QED BY <1>1, <1>3, <1>4, <1>5

\* Nothing added
LEMMA AddNothing == ASSUME NEW n \in Nat, NEW k, k = 0 PROVE n + k = n /\ n + k <= n
OBVIOUS

\* Less added
LEMMA AddLess == ASSUME NEW n \in Nat, NEW k \in Nat, NEW m \in Nat, n + k <= m PROVE n + 0 <= m
OBVIOUS

Steps(n, V) == [1 .. n -> [V -> V]]
Iterates(g, n, V, c, s) == g \in [0 .. n -> V] /\ g[0] = c /\ \A i \in 1 .. n : g[i] = s[i][g[i - 1]]

\* A first value and a step on V define a function on 0 .. n.
LEMMA Recursion ==
    ASSUME NEW n \in Nat, NEW V, NEW c \in V, NEW s \in Steps(n, V)
    PROVE  \E g : Iterates(g, n, V, c, s)
<1> USE DEF Steps
<1> DEFINE From(k, g) == g[0] = c /\ \A i \in 1 .. k : g[i] = s[i][g[i - 1]]
           S == {k \in Nat : k <= n => \E g \in [0 .. k -> V] : From(k, g)}
<1>1. 0 \in S
  <2>1. [i \in 0 .. 0 |-> c] \in [0 .. 0 -> V] /\ From(0, [i \in 0 .. 0 |-> c]) OBVIOUS
  <2> QED BY <2>1, Zenon
<1>2. ASSUME NEW k \in Nat, k \in S PROVE k + 1 \in S
  <2> SUFFICES ASSUME k + 1 <= n PROVE \E g \in [0 .. k + 1 -> V] : From(k + 1, g) OBVIOUS
  <2>1. PICK g \in [0 .. k -> V] : From(k, g) BY <1>2
  <2> DEFINE h == [i \in 0 .. k + 1 |-> IF i = k + 1 THEN s[k + 1][g[k]] ELSE g[i]]
  <2>2. s[k + 1][g[k]] \in V
    <3>1. k + 1 \in 1 .. n /\ g[k] \in V OBVIOUS
    <3> QED BY <3>1, Zenon
  <2>3. h \in [0 .. k + 1 -> V] BY <2>2
  <2>4. ASSUME NEW i \in 1 .. k + 1 PROVE h[i] = s[i][h[i - 1]]
    <3>1. CASE i = k + 1 BY <3>1
    <3>2. CASE i \in 1 .. k BY <2>1, <3>2
    <3> QED BY <3>1, <3>2
  <2>5. h[0] = c BY <2>1
  <2> HIDE DEF h
  <2> QED BY <2>3, <2>4, <2>5
<1>3. n \in S BY <1>1, <1>2, Induct, Zenon
<1>4. PICK g \in [0 .. n -> V] : From(n, g) BY <1>3
<1> QED BY <1>4 DEF Iterates

-----------------------------------------------------------------------------
(* The buffers and the database, one over the other                        *)

Entry == [domain : Domains \cup {None}, pos : Nat]
Position == [addr : 1 .. Broadcast - 1, pos : Nat]
Buffer == [dom : [Addrs -> Entry], adr : [Domains -> Addrs \cup {NoAddr, Tomb}], meta : Position \cup {NoMeta}]

\* What a lookup finds in x and, where x has no entry, in f
Over(x, f) ==
    [dom |-> [a \in Addrs |-> IF x.dom[a] # NoOwner THEN x.dom[a] ELSE f.dom[a]],
     adr |-> [d \in Domains |-> IF x.adr[d] # NoAddr THEN x.adr[d] ELSE f.adr[d]],
     meta |-> IF x.meta # NoMeta THEN x.meta ELSE f.meta]

\* The owner of an address has that address.
Owned(f) == \A a \in Addrs : f.dom[a] # NoOwner => f.dom[a].domain \in Domains /\ f.adr[f.dom[a].domain] = a

\* The address of a domain has that owner.
Back(f) == \A d \in Domains : f.adr[d] \in Addrs => f.dom[f.adr[d]].domain = d

NoTombs(f) == \A d \in Domains : f.adr[d] # NoAddr => f.adr[d] \in Addrs

\* Where x gives an address to another domain than f, x says that the owner
\* in f has lost it.
Tombs(x, f) ==
    \A a \in Addrs : x.dom[a] # NoOwner /\ f.dom[a] # NoOwner /\ f.dom[a].domain # x.dom[a].domain
                        => x.adr[f.dom[a].domain] # NoAddr

Upto(x, n) == \A a \in Addrs : x.dom[a].pos <= n

\* The constants of the buffers are buffers and entries.
LEMMA Constants ==
    /\ NoOwner \in Entry /\ First \in Position /\ First # NoMeta
    /\ NoMeta \notin Position /\ NoAddr \notin Addrs /\ Tomb \notin Addrs
    /\ None \notin Domains
    /\ Empty \in Buffer
<1> USE FakeIPAssumption
<1>1. NoOwner \in Entry BY DEF NoOwner, Entry
<1>2. First \in Position /\ First # NoMeta BY DEF First, NoMeta, Position
<1>3. NoMeta \notin Position BY DEF NoMeta, Position
<1>4. NoAddr \notin Addrs /\ Tomb \notin Addrs BY DEF Addrs, NoAddr, Tomb
<1>5. Empty \in Buffer BY <1>1 DEF Empty, Buffer
<1> QED BY <1>1, <1>2, <1>3, <1>4, <1>5 DEF None

\* What marks the absence of an entry
LEMMA Marks == NoOwner.domain = None /\ NoOwner.pos = 0 /\ Tomb # NoAddr
BY DEF NoOwner, Tomb, NoAddr

\* One address further
LEMMA AdvanceAt ==
    ASSUME NEW c \in Position
    PROVE  /\ Advance(c) \in Position /\ Advance(c).pos = c.pos + 1
           /\ Advance(c).addr \in Addrs
<1>1. c.addr \in 1 .. Broadcast - 1 /\ c.pos \in Nat BY DEF Position
<1>2. nextAddress(c.addr) \in Addrs BY <1>1, FakeIPAssumption DEF nextAddress, Addrs
<1>3. nextAddress(c.addr) \in 1 .. Broadcast - 1 BY <1>2, FakeIPAssumption DEF Addrs
<1> QED BY <1>1, <1>2, <1>3 DEF Advance, Position

\* The position saved ahead is Reserve addresses further.
LEMMA AheadAt ==
    ASSUME current \in Position
    PROVE  Ahead \in Position /\ Ahead.pos = current.pos + Reserve
<1> DEFINE Def(at) == at = [i \in 0 .. Reserve |-> IF i = 0 THEN current ELSE Advance(at[i - 1])]
           at == CHOOSE at : Def(at)
<1>0. Reserve \in Nat BY FakeIPAssumption
<1>1. PICK s \in Steps(Reserve, Position) : \A i \in 1 .. Reserve : \A c \in Position : s[i][c] = Advance(c)
  <2> DEFINE t == [i \in 1 .. Reserve |-> [c \in Position |-> Advance(c)]]
  <2>1. t \in Steps(Reserve, Position) BY AdvanceAt DEF Steps
  <2>2. \A i \in 1 .. Reserve : \A c \in Position : t[i][c] = Advance(c) OBVIOUS
  <2> HIDE DEF t
  <2> QED BY <2>1, <2>2
<1>2. PICK g : Iterates(g, Reserve, Position, current, s) BY <1>0, Recursion, Zenon
<1>3. \A i \in 1 .. Reserve : g[i] = Advance(g[i - 1])
  <2> SUFFICES ASSUME NEW i \in 1 .. Reserve PROVE g[i] = Advance(g[i - 1]) OBVIOUS
  <2>1. i - 1 \in 0 .. Reserve BY <1>0
  <2> QED BY <1>1, <1>2, <2>1 DEF Iterates
<1>4. Def(g) BY <1>0, <1>2, <1>3 DEF Iterates
<1>5. Def(at) BY <1>4, Zenon
<1>6. Ahead = at[Reserve] BY DEF Ahead
<1> HIDE DEF at
<1>7. at[0] = current /\ \A i \in 1 .. Reserve : at[i] = Advance(at[i - 1]) BY <1>0, <1>5
<1> HIDE DEF Def
<1> DEFINE S == {i \in Nat : i <= Reserve => at[i] \in Position /\ at[i].pos = current.pos + i}
<1>8. 0 \in S
  <2>1. current.pos \in Nat BY DEF Position
  <2> QED BY <1>7, <2>1
<1>9. ASSUME NEW i \in Nat, i \in S PROVE i + 1 \in S
  <2> SUFFICES ASSUME i + 1 <= Reserve PROVE at[i + 1] \in Position /\ at[i + 1].pos = current.pos + (i + 1) OBVIOUS
  <2>1. at[i] \in Position /\ at[i].pos = current.pos + i BY <1>0, <1>9
  <2>2. i + 1 \in 1 .. Reserve /\ (i + 1) - 1 = i BY <1>0
  <2>3. at[i + 1] = Advance(at[i]) BY <1>7, <2>2
  <2>4. current.pos \in Nat BY DEF Position
  <2> QED BY <2>1, <2>3, <2>4, AdvanceAt
<1>10. Reserve \in S BY <1>0, <1>8, <1>9, Induct, Zenon
<1> QED BY <1>0, <1>6, <1>10

-----------------------------------------------------------------------------
(* Writing a buffer                                                        *)

\* What putFakeIP does to the database, entry by entry.
LEMMA PutIs ==
    ASSUME NEW w \in Buffer, NEW f \in Buffer, NEW a \in Addrs, w.dom[a].domain \in Domains
    PROVE  /\ Put(w, f, a) \in Buffer /\ Put(w, f, a).meta = f.meta
           /\ \A b \in Addrs : Put(w, f, a).dom[b] = IF b = a THEN w.dom[a] ELSE f.dom[b]
           /\ \A d \in Domains : Put(w, f, a).adr[d] =
                 IF d = w.dom[a].domain THEN a
                 ELSE IF d = f.dom[a].domain /\ f.adr[d] = a THEN NoAddr ELSE f.adr[d]
<1> DEFINE old == f.dom[a].domain
           adr == IF old # None /\ f.adr[old] = a THEN [f.adr EXCEPT ![old] = NoAddr] ELSE f.adr
           g == Put(w, f, a)
<1>1. /\ f.dom \in [Addrs -> Entry] /\ w.dom \in [Addrs -> Entry] /\ f.meta \in Position \cup {NoMeta}
      /\ f.adr \in [Domains -> Addrs \cup {NoAddr, Tomb}]
  BY DEF Buffer
<1>2. old \in Domains \cup {None} BY <1>1 DEF Entry
<1>3. adr \in [Domains -> Addrs \cup {NoAddr, Tomb}] BY <1>1, <1>2
<1>4. \A d \in Domains : adr[d] = IF d = old /\ f.adr[d] = a THEN NoAddr ELSE f.adr[d]
  BY <1>1, <1>2, Constants
<1>5. g = [f EXCEPT !.dom[a] = w.dom[a], !.adr = [adr EXCEPT ![w.dom[a].domain] = a]] BY DEF Put
<1>6. /\ g.dom = [f.dom EXCEPT ![a] = w.dom[a]] /\ g.meta = f.meta
      /\ g.adr = [adr EXCEPT ![w.dom[a].domain] = a]
      /\ g = [dom |-> g.dom, adr |-> g.adr, meta |-> g.meta]
  <2> HIDE DEF adr
  <2> QED BY <1>5, Zenon DEF Buffer
<1> HIDE DEF adr, g
<1>7. g.dom \in [Addrs -> Entry] BY <1>1, <1>6
<1>8. g.adr \in [Domains -> Addrs \cup {NoAddr, Tomb}] BY <1>3, <1>6
<1>9. g \in Buffer BY <1>1, <1>6, <1>7, <1>8 DEF Buffer
<1>10. \A b \in Addrs : g.dom[b] = IF b = a THEN w.dom[a] ELSE f.dom[b] BY <1>1, <1>6
<1>11. \A d \in Domains : g.adr[d] =
          IF d = w.dom[a].domain THEN a ELSE IF d = old /\ f.adr[d] = a THEN NoAddr ELSE f.adr[d]
  BY <1>3, <1>4, <1>6
<1> QED BY <1>6, <1>9, <1>10, <1>11 DEF g

\* The database g while the buffer w is written to f, with the addresses in D
\* behind it
Partly(f, w, D, g) ==
    /\ g \in Buffer /\ g.meta = f.meta
    /\ \A a \in Addrs : g.dom[a] = IF a \in D THEN w.dom[a] ELSE f.dom[a]
    /\ NoTombs(g) /\ Back(g)
    /\ \A a \in D : g.adr[w.dom[a].domain] = a
    /\ \A a \in Addrs \ Mapped(w) : f.dom[a] # NoOwner => g.adr[f.dom[a].domain] = a

\* What w says of the domains it maps, and what it leaves alone
LEMMA Untouched ==
    ASSUME NEW w \in Buffer, NEW f \in Buffer, Owned(w), Owned(f), Owned(Over(w, f)),
           NEW a \in Mapped(w), NEW b \in Addrs \ Mapped(w), f.dom[b] # NoOwner
    PROVE  f.dom[b].domain # w.dom[a].domain
<1>1. a \in Addrs /\ w.dom[a] # NoOwner /\ w.dom[b] = NoOwner BY DEF Mapped
<1>2. w.dom[a].domain \in Domains /\ w.adr[w.dom[a].domain] = a BY <1>1 DEF Owned
<1>3. Over(w, f).dom[b] = f.dom[b] /\ Over(w, f).adr[w.dom[a].domain] = a
  BY <1>1, <1>2, Constants DEF Over
<1>4. Over(w, f).adr[f.dom[b].domain] = b BY <1>3 DEF Owned
<1> QED BY <1>1, <1>3, <1>4

\* One address more
LEMMA PutOne ==
    ASSUME NEW w \in Buffer, NEW f \in Buffer, Owned(w), Owned(f), Owned(Over(w, f)),
           NEW D \in SUBSET Mapped(w), NEW g, Partly(f, w, D, g), NEW a \in Mapped(w)
    PROVE  Partly(f, w, D \cup {a}, Put(w, g, a))
<1> DEFINE h == Put(w, g, a)
           d == w.dom[a].domain
<1>1. a \in Addrs /\ g \in Buffer /\ d \in Domains /\ w.adr[d] = a BY DEF Mapped, Owned, Partly
<1>2. /\ h \in Buffer /\ h.meta = g.meta
      /\ \A b \in Addrs : h.dom[b] = IF b = a THEN w.dom[a] ELSE g.dom[b]
      /\ \A e \in Domains : h.adr[e] = IF e = d THEN a ELSE IF e = g.dom[a].domain /\ g.adr[e] = a THEN NoAddr ELSE g.adr[e]
  BY <1>1, PutIs
<1> HIDE DEF h
<1>3. \A b \in Addrs : h.dom[b] = IF b \in D \cup {a} THEN w.dom[b] ELSE f.dom[b] BY <1>2 DEF Partly
<1>4. NoTombs(h) BY <1>1, <1>2 DEF NoTombs, Partly
<1>5. Back(h)
  <2> SUFFICES ASSUME NEW e \in Domains, h.adr[e] \in Addrs PROVE h.dom[h.adr[e]].domain = e BY DEF Back
  <2>1. CASE e = d BY <1>1, <1>2, <2>1
  <2>2. CASE e # d
    <3>1. h.adr[e] = g.adr[e] BY <1>2, <2>2, Constants
    <3>2. g.dom[g.adr[e]].domain = e BY <3>1 DEF Partly, Back
    <3>3. g.adr[e] # a BY <1>2, <2>2, <3>1, <3>2, Constants
    <3> QED BY <1>2, <3>1, <3>2, <3>3
  <2> QED BY <2>1, <2>2
<1>6. ASSUME NEW b \in D \cup {a} PROVE h.adr[w.dom[b].domain] = b
  <2>1. CASE b = a BY <1>1, <1>2, <2>1
  <2>2. CASE b # a
    <3>1. b \in D /\ b \in Addrs /\ w.dom[b] # NoOwner BY <2>2 DEF Mapped
    <3>2. w.dom[b].domain \in Domains /\ w.adr[w.dom[b].domain] = b BY <3>1 DEF Owned
    <3>3. w.dom[b].domain # d BY <1>1, <2>2, <3>2
    <3>4. g.adr[w.dom[b].domain] = b BY <3>1 DEF Partly
    <3> QED BY <1>2, <2>2, <3>2, <3>3, <3>4
  <2> QED BY <2>1, <2>2
<1>7. ASSUME NEW b \in Addrs \ Mapped(w), f.dom[b] # NoOwner PROVE h.adr[f.dom[b].domain] = b
  <2>1. f.dom[b].domain \in Domains /\ f.dom[b].domain # d BY <1>7, Untouched DEF Owned
  <2>2. g.adr[f.dom[b].domain] = b BY <1>7 DEF Partly
  <2> QED BY <1>2, <2>1, <2>2
<1>8. h.meta = f.meta BY <1>2 DEF Partly
<1> QED BY <1>2, <1>3, <1>4, <1>5, <1>6, <1>7, <1>8 DEF Partly, h

\* What the first n addresses of an order make of the database
LEMMA PutFirstIs ==
    ASSUME NEW w \in Buffer, NEW f \in Buffer, Owned(w), Owned(f), NoTombs(f), Back(f), Owned(Over(w, f)),
           NEW n \in Nat, NEW order \in [1 .. n -> Mapped(w)]
    PROVE  Partly(f, w, {order[i] : i \in 1 .. n}, PutFirst(f, w, order, n))
<1> DEFINE Def(put) == put = [i \in 0 .. n |-> IF i = 0 THEN f ELSE Put(w, put[i - 1], order[i])]
           put == CHOOSE put : Def(put)
<1>1. ASSUME NEW a \in Mapped(w), NEW x \in Buffer PROVE Put(w, x, a) \in Buffer
  <2>1. a \in Addrs /\ w.dom[a].domain \in Domains BY DEF Mapped, Owned
  <2> QED BY <2>1, PutIs
<1>2. PICK s \in Steps(n, Buffer) : \A i \in 1 .. n : \A x \in Buffer : s[i][x] = Put(w, x, order[i])
  <2> DEFINE t == [i \in 1 .. n |-> [x \in Buffer |-> Put(w, x, order[i])]]
  <2>1. t \in Steps(n, Buffer) BY <1>1 DEF Steps
  <2>2. \A i \in 1 .. n : \A x \in Buffer : t[i][x] = Put(w, x, order[i]) OBVIOUS
  <2> HIDE DEF t
  <2> QED BY <2>1, <2>2
<1>3. PICK g : Iterates(g, n, Buffer, f, s) BY Recursion, Zenon
<1>4. \A i \in 1 .. n : g[i] = Put(w, g[i - 1], order[i])
  <2> SUFFICES ASSUME NEW i \in 1 .. n PROVE g[i] = Put(w, g[i - 1], order[i]) OBVIOUS
  <2>1. i - 1 \in 0 .. n OBVIOUS
  <2> QED BY <1>2, <1>3, <2>1 DEF Iterates
<1>5. Def(g) BY <1>3, <1>4 DEF Iterates
<1>6. Def(put) BY <1>5, Zenon
<1>7. PutFirst(f, w, order, n) = put[n] BY DEF PutFirst
<1> HIDE DEF put
<1>8. put[0] = f /\ \A i \in 1 .. n : put[i] = Put(w, put[i - 1], order[i]) BY <1>6
<1> HIDE DEF Def
<1> DEFINE Done(k) == {order[i] : i \in 1 .. k}
           S == {k \in Nat : k <= n => Partly(f, w, Done(k), put[k])}
<1>9. 0 \in S
  <2>1. Partly(f, w, {}, f) BY DEF Partly, Mapped, Owned
  <2>2. Done(0) = {} OBVIOUS
  <2> QED BY <1>8, <2>1, <2>2, Zenon
<1>10. ASSUME NEW k \in Nat, k \in S PROVE k + 1 \in S
  <2> SUFFICES ASSUME k + 1 <= n PROVE Partly(f, w, Done(k + 1), put[k + 1]) OBVIOUS
  <2>1. Partly(f, w, Done(k), put[k]) BY <1>10
  <2>2. k + 1 \in 1 .. n /\ (k + 1) - 1 = k OBVIOUS
  <2>3. put[k + 1] = Put(w, put[k], order[k + 1]) BY <1>8, <2>2
  <2>4. Done(k + 1) = Done(k) \cup {order[k + 1]}
    <3>1. 1 .. k + 1 = (1 .. k) \cup {k + 1} OBVIOUS
    <3> QED BY <3>1
  <2>5. Done(k) \in SUBSET Mapped(w) /\ order[k + 1] \in Mapped(w)
    <3>1. 1 .. k \subseteq 1 .. n BY <2>2
    <3> QED BY <2>2, <3>1
  <2> HIDE DEF Done
  <2>6. Partly(f, w, Done(k) \cup {order[k + 1]}, Put(w, put[k], order[k + 1])) BY <2>1, <2>5, PutOne
  <2> QED BY <2>3, <2>4, <2>6, Zenon
<1>11. n \in S BY <1>9, <1>10, Induct, Zenon
<1> QED BY <1>7, <1>11

\* writePending: the database has what the buffer has over it, and its two
\* directions agree, in whatever order the addresses are written.
LEMMA WrittenIs ==
    ASSUME NEW w \in Buffer, NEW f \in Buffer, Owned(w), Owned(f), NoTombs(f), Back(f), Owned(Over(w, f)),
           NEW g \in Written(f, w)
    PROVE  /\ g \in Buffer /\ Owned(g) /\ NoTombs(g) /\ Back(g)
           /\ \A a \in Addrs : g.dom[a] = Over(w, f).dom[a]
           /\ g.meta = Over(w, f).meta
<1> DEFINE base == IF w.meta = NoMeta THEN f ELSE [f EXCEPT !.meta = w.meta]
<1>1. base \in Buffer /\ base.dom = f.dom /\ base.adr = f.adr /\ base.meta = Over(w, f).meta
  BY DEF Buffer, Over
<1>2. PICK n \in 0 .. Broadcast : \E order \in Bijection(1 .. n, Mapped(w)) : g = PutFirst(base, w, order, n)
  BY Zenon DEF Written
<1>3. PICK order \in Bijection(1 .. n, Mapped(w)) : g = PutFirst(base, w, order, n) BY <1>2
<1> HIDE DEF base
<1>4. /\ n \in Nat /\ order \in [1 .. n -> Mapped(w)]
      /\ \A a \in Mapped(w) : \E i \in 1 .. n : order[i] = a
  BY <1>3 DEF Bijection, Injection, Surjection
<1>5. Owned(base) /\ NoTombs(base) /\ Back(base) BY <1>1 DEF Owned, NoTombs, Back
<1>6. Owned(Over(w, base))
  <2>1. Over(w, base).dom = Over(w, f).dom /\ Over(w, base).adr = Over(w, f).adr BY <1>1 DEF Over
  <2> QED BY <2>1 DEF Owned
<1>7. Partly(base, w, {order[i] : i \in 1 .. n}, g) BY <1>1, <1>3, <1>4, <1>5, <1>6, PutFirstIs
<1>8. {order[i] : i \in 1 .. n} = Mapped(w) BY <1>4
<1>9. Partly(base, w, Mapped(w), g) BY <1>7, <1>8, Zenon
<1>10. \A a \in Addrs : g.dom[a] = Over(w, f).dom[a] BY <1>1, <1>9 DEF Partly, Over, Mapped
<1>11. Owned(g)
  <2> SUFFICES ASSUME NEW a \in Addrs, g.dom[a] # NoOwner PROVE g.dom[a].domain \in Domains /\ g.adr[g.dom[a].domain] = a
    BY DEF Owned
  <2>1. CASE a \in Mapped(w) BY <1>9, <2>1 DEF Partly, Owned, Mapped
  <2>2. CASE a \notin Mapped(w)
    <3>1. g.dom[a] = base.dom[a] BY <1>9, <2>2 DEF Partly
    <3> QED BY <1>5, <1>9, <2>2, <3>1 DEF Partly, Owned
  <2> QED BY <2>1, <2>2
<1> QED BY <1>1, <1>9, <1>10, <1>11 DEF Partly

-----------------------------------------------------------------------------
(* The steps that move mappings, on a buffer p over a buffer w over a      *)
(* database f                                                              *)

Layered(p, w, f) ==
    /\ Owned(p) /\ Back(p)
    /\ Owned(w) /\ Back(w)
    /\ Owned(f) /\ Back(f) /\ NoTombs(f)
    /\ Owned(Over(w, f)) /\ Owned(Over(p, Over(w, f)))

\* y has no mapping that x does not have.
Shrinks(x, y) == \A a \in Addrs : y.dom[a] = x.dom[a] \/ y.dom[a] = NoOwner

\* A buffer over a database looks like a database.
LEMMA OverIs ==
    ASSUME NEW x \in Buffer, NEW f \in Buffer
    PROVE  /\ Over(x, f) \in Buffer
           /\ \A a \in Addrs : Over(x, f).dom[a] = IF x.dom[a] # NoOwner THEN x.dom[a] ELSE f.dom[a]
           /\ \A d \in Domains : Over(x, f).adr[d] = IF x.adr[d] # NoAddr THEN x.adr[d] ELSE f.adr[d]
           /\ Over(x, f).meta = IF x.meta # NoMeta THEN x.meta ELSE f.meta
<1>1. [a \in Addrs |-> IF x.dom[a] # NoOwner THEN x.dom[a] ELSE f.dom[a]] \in [Addrs -> Entry] BY DEF Buffer
<1>2. [d \in Domains |-> IF x.adr[d] # NoAddr THEN x.adr[d] ELSE f.adr[d]] \in [Domains -> Addrs \cup {NoAddr, Tomb}]
  BY DEF Buffer
<1>3. (IF x.meta # NoMeta THEN x.meta ELSE f.meta) \in Position \cup {NoMeta} BY DEF Buffer
<1> QED BY <1>1, <1>2, <1>3 DEF Over, Buffer

\* The empty buffer hides nothing and maps nothing.
LEMMA EmptyIs ==
    /\ \A a \in Addrs : Empty.dom[a] = NoOwner
    /\ \A d \in Domains : Empty.adr[d] = NoAddr
    /\ Empty.meta = NoMeta
    /\ Owned(Empty) /\ Back(Empty) /\ NoTombs(Empty) /\ Mapped(Empty) = {}
    /\ \A f \in Buffer : Over(Empty, f) = f
<1>1. /\ \A a \in Addrs : Empty.dom[a] = NoOwner
      /\ \A d \in Domains : Empty.adr[d] = NoAddr
      /\ Empty.meta = NoMeta
  BY DEF Empty
<1>2. ASSUME NEW f \in Buffer PROVE Over(Empty, f) = f
  <2>1. f = [dom |-> f.dom, adr |-> f.adr, meta |-> f.meta] BY DEF Buffer
  <2>2. f.dom = [a \in Addrs |-> f.dom[a]] /\ f.adr = [d \in Domains |-> f.adr[d]] BY DEF Buffer
  <2>3. Over(Empty, f) = [dom |-> [a \in Addrs |-> f.dom[a]], adr |-> [d \in Domains |-> f.adr[d]], meta |-> f.meta]
    BY <1>1 DEF Over
  <2> QED BY <2>1, <2>2, <2>3
<1> QED BY <1>1, <1>2, Constants DEF Owned, Back, NoTombs, Mapped

\* queueFakeIP, entry by entry
LEMMA QueueIs ==
    ASSUME NEW p \in Buffer, NEW c \in Position, c.addr \in Addrs, NEW d \in Domains, NEW old \in Domains \cup {None}
    PROVE  /\ Queue(p, c, d, old) \in Buffer /\ Queue(p, c, d, old).meta = p.meta
           /\ \A a \in Addrs : Queue(p, c, d, old).dom[a] = IF a = c.addr THEN [domain |-> d, pos |-> c.pos] ELSE p.dom[a]
           /\ \A e \in Domains : Queue(p, c, d, old).adr[e] =
                 IF e = d THEN c.addr ELSE IF e = old THEN Tomb ELSE p.adr[e]
<1> DEFINE new == [domain |-> d, pos |-> c.pos]
           adr == IF old = None THEN p.adr ELSE [p.adr EXCEPT ![old] = Tomb]
           g == Queue(p, c, d, old)
<1>1. p.dom \in [Addrs -> Entry] /\ p.adr \in [Domains -> Addrs \cup {NoAddr, Tomb}] /\ p.meta \in Position \cup {NoMeta}
  BY DEF Buffer
<1>2. new \in Entry BY DEF Entry, Position
<1>3. adr \in [Domains -> Addrs \cup {NoAddr, Tomb}] BY <1>1
<1>4. \A e \in Domains : adr[e] = IF e = old THEN Tomb ELSE p.adr[e] BY <1>1, Constants
<1>5. g = [p EXCEPT !.dom[c.addr] = new, !.adr = [adr EXCEPT ![d] = c.addr]] BY DEF Queue
<1> HIDE DEF new, adr
<1>6. /\ g.dom = [p.dom EXCEPT ![c.addr] = new] /\ g.adr = [adr EXCEPT ![d] = c.addr] /\ g.meta = p.meta
      /\ g = [dom |-> g.dom, adr |-> g.adr, meta |-> g.meta]
  BY <1>5, Zenon DEF Buffer
<1> HIDE DEF g
<1>7. g.dom \in [Addrs -> Entry] BY <1>1, <1>2, <1>6
<1>8. g.adr \in [Domains -> Addrs \cup {NoAddr, Tomb}] BY <1>3, <1>6
<1>9. g \in Buffer BY <1>1, <1>6, <1>7, <1>8 DEF Buffer
<1>10. \A a \in Addrs : g.dom[a] = IF a = c.addr THEN new ELSE p.dom[a] BY <1>1, <1>6
<1>11. \A e \in Domains : g.adr[e] = IF e = d THEN c.addr ELSE IF e = old THEN Tomb ELSE p.adr[e] BY <1>3, <1>4, <1>6
<1> QED BY <1>6, <1>9, <1>10, <1>11 DEF g, new

Queued(q, p, c, d, old) ==
    /\ \A a \in Addrs : q.dom[a] = IF a = c.addr THEN [domain |-> d, pos |-> c.pos] ELSE p.dom[a]
    /\ \A e \in Domains : q.adr[e] = IF e = d THEN c.addr ELSE IF e = old THEN Tomb ELSE p.adr[e]

\* The two maps that FakeIPStoreAsync leaves in the buffer
LEMMA QueueMaps ==
    ASSUME NEW p \in Buffer, NEW c \in Position, c.addr \in Addrs, NEW d \in Domains, NEW old \in Domains \cup {None}
    PROVE  Queued(Queue(p, c, d, old), p, c, d, old)
BY QueueIs DEF Queued

\* A mapping for a domain that owns nothing, of an address whose owner owns
\* nothing else, keeps the layers in order.
LEMMA QueueLayered ==
    ASSUME NEW p \in Buffer, NEW w \in Buffer, NEW f \in Buffer, Layered(p, w, f),
           NEW c \in Position, c.addr \in Addrs, NEW d \in Domains, NEW old \in Domains \cup {None},
           NEW v, v = Over(p, Over(w, f)),
           \A a \in Addrs : v.dom[a].domain # d,
           v.dom[c.addr] # NoOwner => v.dom[c.addr].domain = old,
           old # None => \A a \in Addrs \ {c.addr} : v.dom[a].domain # old
    PROVE  Layered(Queue(p, c, d, old), w, f)
<1> DEFINE q == Queue(p, c, d, old)
           b == Over(w, f)
           u == Over(q, b)
<1>1. /\ q \in Buffer
      /\ \A a \in Addrs : q.dom[a] = IF a = c.addr THEN [domain |-> d, pos |-> c.pos] ELSE p.dom[a]
      /\ \A e \in Domains : q.adr[e] = IF e = d THEN c.addr ELSE IF e = old THEN Tomb ELSE p.adr[e]
  BY QueueIs, SMTT(30)
<1>2. b \in Buffer BY OverIs
<1> HIDE DEF q, b
<1>3. /\ \A a \in Addrs : v.dom[a] = IF p.dom[a] # NoOwner THEN p.dom[a] ELSE b.dom[a]
      /\ \A e \in Domains : v.adr[e] = IF p.adr[e] # NoAddr THEN p.adr[e] ELSE b.adr[e]
  BY <1>2, OverIs DEF b
<1>4. /\ \A a \in Addrs : u.dom[a] = IF q.dom[a] # NoOwner THEN q.dom[a] ELSE b.dom[a]
      /\ \A e \in Domains : u.adr[e] = IF q.adr[e] # NoAddr THEN q.adr[e] ELSE b.adr[e]
  BY <1>1, <1>2, OverIs
<1> HIDE DEF u
<1>5. [domain |-> d, pos |-> c.pos] # NoOwner BY Constants DEF NoOwner
<1>6. Owned(p) /\ Back(p) /\ Owned(v) BY DEF Layered, b
<1>7. \A a \in Addrs \ {c.addr} : p.dom[a] # NoOwner => p.dom[a].domain # d /\ p.dom[a].domain # old
  <2> SUFFICES ASSUME NEW a \in Addrs \ {c.addr}, p.dom[a] # NoOwner PROVE p.dom[a].domain # d /\ p.dom[a].domain # old
    OBVIOUS
  <2>1. v.dom[a] = p.dom[a] BY <1>3
  <2>2. p.dom[a].domain \in Domains BY <1>6, Zenon DEF Owned
  <2> QED BY <2>1, <2>2, Constants
<1>8. Owned(q) BY <1>1, <1>5, <1>6, <1>7 DEF Owned
<1>9. Back(q)
  <2> SUFFICES ASSUME NEW e \in Domains, q.adr[e] \in Addrs PROVE q.dom[q.adr[e]].domain = e BY DEF Back
  <2>1. CASE e = d BY <1>1, <2>1
  <2>2. CASE e # d
    <3>1. e # old /\ q.adr[e] = p.adr[e] BY <1>1, <2>2, Constants
    <3>2. p.dom[p.adr[e]].domain = e BY <1>6, <3>1 DEF Back
    <3>3. p.adr[e] # c.addr
      <4> SUFFICES ASSUME p.adr[e] = c.addr PROVE FALSE OBVIOUS
      <4>1. p.dom[c.addr] # NoOwner BY <3>2, Constants DEF NoOwner
      <4>2. v.dom[c.addr] = p.dom[c.addr] BY <1>3, <4>1
      <4> QED BY <3>1, <3>2, <4>1, <4>2
    <3> QED BY <1>1, <3>1, <3>2, <3>3
  <2> QED BY <2>1, <2>2
<1>10. Owned(u)
  <2> SUFFICES ASSUME NEW a \in Addrs, u.dom[a] # NoOwner PROVE u.dom[a].domain \in Domains /\ u.adr[u.dom[a].domain] = a
    BY DEF Owned
  <2>1. CASE a = c.addr
    <3>1. u.dom[a] = [domain |-> d, pos |-> c.pos] BY <1>1, <1>4, <1>5, <2>1, Zenon
    <3>2. q.adr[d] = c.addr /\ c.addr # NoAddr BY <1>1, Constants, Zenon
    <3>3. u.adr[d] = c.addr BY <1>4, <3>2, Zenon
    <3> QED BY <2>1, <3>1, <3>3
  <2>2. CASE a # c.addr
    <3>1. u.dom[a] = v.dom[a] BY <1>1, <1>3, <1>4, <2>2
    <3>2. v.dom[a].domain \in Domains /\ v.adr[v.dom[a].domain] = a BY <1>6, <3>1 DEF Owned
    <3>3. v.dom[a].domain # d /\ v.dom[a].domain # old BY <2>2, <3>2, Constants
    <3> QED BY <1>1, <1>3, <1>4, <3>1, <3>2, <3>3
  <2> QED BY <2>1, <2>2
<1> QED BY <1>8, <1>9, <1>10 DEF Layered, q, u, b

\* The buffer moves to writing.
LEMMA TakeLayered ==
    ASSUME NEW p \in Buffer, NEW f \in Buffer, Layered(p, Empty, f)
    PROVE  /\ Layered(Empty, p, f)
           /\ Over(p, Over(Empty, f)) = Over(p, f)
           /\ Over(Empty, Over(p, f)) = Over(p, f)
<1>1. Over(Empty, f) = f BY EmptyIs
<1>2. Over(p, f) \in Buffer BY OverIs
<1>3. Over(Empty, Over(p, f)) = Over(p, f) BY <1>2, EmptyIs
<1> QED BY <1>1, <1>3, EmptyIs DEF Layered

\* A database alone
LEMMA DiskLayered ==
    ASSUME NEW f \in Buffer, Owned(f), Back(f), NoTombs(f), NEW p \in Buffer, p.dom = Empty.dom, p.adr = Empty.adr
    PROVE  /\ Layered(p, Empty, f)
           /\ \A a \in Addrs : Over(p, Over(Empty, f)).dom[a] = f.dom[a]
<1>1. Over(Empty, f) = f BY EmptyIs
<1>2. Owned(p) /\ Back(p) BY EmptyIs, Constants DEF Owned, Back
<1>3. /\ \A a \in Addrs : Over(p, f).dom[a] = f.dom[a]
      /\ \A d \in Domains : Over(p, f).adr[d] = f.adr[d]
  BY OverIs, EmptyIs
<1>4. Owned(Over(p, f)) BY <1>3 DEF Owned
<1> QED BY <1>1, <1>2, <1>3, <1>4, EmptyIs DEF Layered

\* The metadata are no part of the layers.
LEMMA MetaLayered ==
    ASSUME NEW p \in Buffer, NEW q \in Buffer, NEW w \in Buffer, NEW f \in Buffer, Layered(p, w, f),
           q.dom = p.dom, q.adr = p.adr
    PROVE  /\ Layered(q, w, f)
           /\ Over(q, Over(w, f)).dom = Over(p, Over(w, f)).dom
<1>1. Owned(q) /\ Back(q) BY DEF Layered, Owned, Back
<1>2. /\ Over(q, Over(w, f)).dom = Over(p, Over(w, f)).dom
      /\ Over(q, Over(w, f)).adr = Over(p, Over(w, f)).adr
  BY Zenon DEF Over
<1>3. Owned(Over(q, Over(w, f))) BY <1>2 DEF Layered, Owned
<1> QED BY <1>1, <1>2, <1>3 DEF Layered

\* The transaction
LEMMA CommitLayered ==
    ASSUME NEW p \in Buffer, NEW w \in Buffer, NEW f \in Buffer, Layered(p, w, f), NEW g \in Written(f, w)
    PROVE  /\ g \in Buffer /\ Layered(p, Empty, g)
           /\ \A a \in Addrs : g.dom[a] = Over(w, f).dom[a]
           /\ \A a \in Addrs : Over(p, Over(Empty, g)).dom[a] = Over(p, Over(w, f)).dom[a]
           /\ g.meta = Over(w, f).meta
           /\ Over(p, Over(Empty, g)).meta = Over(p, Over(w, f)).meta
<1> DEFINE b == Over(w, f)
           v == Over(p, b)
           u == Over(p, g)
<1>1. /\ g \in Buffer /\ Owned(g) /\ NoTombs(g) /\ Back(g)
      /\ \A a \in Addrs : g.dom[a] = b.dom[a]
      /\ g.meta = b.meta
  BY WrittenIs DEF Layered
<1>2. b \in Buffer BY OverIs
<1>3. Owned(p) /\ Back(p) /\ Owned(v) BY DEF Layered
<1>4. Over(Empty, g) = g BY <1>1, EmptyIs
<1> HIDE DEF b
<1>5. /\ \A a \in Addrs : v.dom[a] = IF p.dom[a] # NoOwner THEN p.dom[a] ELSE b.dom[a]
      /\ \A e \in Domains : v.adr[e] = IF p.adr[e] # NoAddr THEN p.adr[e] ELSE b.adr[e]
      /\ v.meta = IF p.meta # NoMeta THEN p.meta ELSE b.meta
  BY <1>2, OverIs
<1>6. /\ \A a \in Addrs : u.dom[a] = IF p.dom[a] # NoOwner THEN p.dom[a] ELSE g.dom[a]
      /\ \A e \in Domains : u.adr[e] = IF p.adr[e] # NoAddr THEN p.adr[e] ELSE g.adr[e]
      /\ u.meta = IF p.meta # NoMeta THEN p.meta ELSE g.meta
  BY <1>1, OverIs
<1> HIDE DEF u, v
<1>7. (\A a \in Addrs : u.dom[a] = v.dom[a]) /\ u.meta = v.meta BY <1>1, <1>5, <1>6
<1>8. Owned(u)
  <2> SUFFICES ASSUME NEW a \in Addrs, u.dom[a] # NoOwner PROVE u.dom[a].domain \in Domains /\ u.adr[u.dom[a].domain] = a
    BY DEF Owned
  <2>1. v.dom[a].domain \in Domains /\ v.adr[v.dom[a].domain] = a /\ u.dom[a] = v.dom[a] BY <1>3, <1>7 DEF Owned
  <2>2. CASE p.adr[v.dom[a].domain] # NoAddr BY <1>5, <1>6, <2>1, <2>2
  <2>3. CASE p.adr[v.dom[a].domain] = NoAddr
    <3>1. p.dom[a] = NoOwner BY <1>3, <1>5, <2>1, <2>3, Constants DEF Owned
    <3>2. g.dom[a] = u.dom[a] BY <1>6, <3>1
    <3>3. g.adr[g.dom[a].domain] = a BY <1>1, <3>2 DEF Owned
    <3> QED BY <1>6, <2>1, <2>3, <3>2, <3>3
  <2> QED BY <2>2, <2>3
<1> QED BY <1>1, <1>3, <1>4, <1>7, <1>8, EmptyIs DEF Layered, u, v, b

\* restorePendingLocked puts back every mapping that has no newer one.
LEMMA RestoredIs ==
    ASSUME pending \in Buffer, writing \in Buffer, NEW f \in Buffer, Layered(pending, writing, f)
    PROVE  /\ Restored \in Buffer /\ Owned(Restored) /\ Back(Restored)
           /\ \A a \in Addrs : Restored.dom[a] = Over(pending, writing).dom[a]
           /\ \A a \in Kept : Restored.adr[writing.dom[a].domain] = a
           /\ \A d \in Domains : (\A a \in Kept : writing.dom[a].domain # d) => Restored.adr[d] = pending.adr[d]
           /\ Restored.meta = Over(pending, writing).meta
<1> DEFINE p == pending
           w == writing
           v == Over(p, Over(w, f))
<1>1. /\ p.dom \in [Addrs -> Entry] /\ p.adr \in [Domains -> Addrs \cup {NoAddr, Tomb}] /\ p.meta \in Position \cup {NoMeta}
      /\ w.dom \in [Addrs -> Entry] /\ w.meta \in Position \cup {NoMeta}
  BY DEF Buffer
<1>2. Owned(p) /\ Back(p) /\ Owned(w) /\ Owned(v) BY DEF Layered
<1>3. ASSUME NEW a \in Addrs, w.dom[a] # NoOwner, p.dom[a] = NoOwner PROVE a \in Kept
  <2> DEFINE d == w.dom[a].domain
  <2>1. d \in Domains BY <1>2, <1>3 DEF Owned
  <2>2. v.dom[a] = w.dom[a] BY <1>3 DEF Over
  <2>3. v.adr[d] = a BY <1>2, <1>3, <2>2 DEF Owned
  <2>4. ASSUME p.adr[d] # NoAddr PROVE FALSE
    <3>1. v.adr[d] = p.adr[d] BY <2>1, <2>4 DEF Over
    <3>2. p.dom[a].domain = d BY <1>2, <2>1, <2>3, <3>1, Zenon DEF Back
    <3> QED BY <1>3, <2>1, <3>2, Constants, Marks, Zenon
  <2> QED BY <1>3, <2>4 DEF Kept
<1>4. ASSUME NEW a \in Kept
      PROVE  /\ a \in Addrs /\ w.dom[a] # NoOwner /\ p.dom[a] = NoOwner /\ p.adr[w.dom[a].domain] = NoAddr
             /\ w.dom[a].domain \in Domains /\ w.adr[w.dom[a].domain] = a
  BY <1>2 DEF Kept, Owned
<1>5. ASSUME NEW a \in Kept, NEW b \in Kept, w.dom[a].domain = w.dom[b].domain PROVE a = b BY <1>4, <1>5
<1> DEFINE adr(d) == IF \E a \in Kept : w.dom[a].domain = d THEN CHOOSE a \in Kept : w.dom[a].domain = d ELSE p.adr[d]
           dom(a) == IF a \in Kept THEN w.dom[a] ELSE p.dom[a]
<1>6. ASSUME NEW a \in Kept PROVE adr(w.dom[a].domain) = a
  <2>1. (CHOOSE b \in Kept : w.dom[b].domain = w.dom[a].domain) \in Kept
        /\ w.dom[CHOOSE b \in Kept : w.dom[b].domain = w.dom[a].domain].domain = w.dom[a].domain
    BY Zenon
  <2> QED BY <1>5, <2>1
<1>7. ASSUME NEW d \in Domains, \A a \in Kept : w.dom[a].domain # d PROVE adr(d) = p.adr[d] BY <1>7
<1>8. ASSUME NEW d \in Domains PROVE adr(d) \in Addrs \cup {NoAddr, Tomb}
  <2>1. CASE \E a \in Kept : w.dom[a].domain = d BY <1>4, <1>6, <2>1
  <2>2. CASE \A a \in Kept : w.dom[a].domain # d BY <1>1, <1>7, <2>2, Zenon
  <2> QED BY <2>1, <2>2
<1> HIDE DEF adr
<1>9. /\ Restored.dom = [a \in Addrs |-> dom(a)] /\ Restored.adr = [d \in Domains |-> adr(d)]
      /\ Restored.meta = (IF p.meta = NoMeta THEN w.meta ELSE p.meta)
      /\ Restored = [dom |-> Restored.dom, adr |-> Restored.adr, meta |-> Restored.meta]
  BY DEF Restored, adr
<1>10. Restored \in Buffer
  <2>1. [a \in Addrs |-> dom(a)] \in [Addrs -> Entry] BY <1>1
  <2>2. [d \in Domains |-> adr(d)] \in [Domains -> Addrs \cup {NoAddr, Tomb}] BY <1>8
  <2> QED BY <1>1, <1>9, <2>1, <2>2 DEF Buffer
<1>11. ASSUME NEW a \in Addrs PROVE Restored.dom[a] = Over(p, w).dom[a]
  <2>1. Over(p, w).dom[a] = IF p.dom[a] # NoOwner THEN p.dom[a] ELSE w.dom[a] BY DEF Over
  <2>2. CASE a \in Kept BY <1>4, <1>9, <2>1, <2>2
  <2>3. CASE a \notin Kept BY <1>3, <1>9, <2>1, <2>3
  <2> QED BY <2>2, <2>3
<1>12. \A a \in Kept : Restored.adr[w.dom[a].domain] = a BY <1>4, <1>6, <1>9
<1>13. \A d \in Domains : (\A a \in Kept : w.dom[a].domain # d) => Restored.adr[d] = p.adr[d] BY <1>7, <1>9
<1>14. Owned(Restored)
  <2> SUFFICES ASSUME NEW a \in Addrs, Restored.dom[a] # NoOwner
               PROVE  Restored.dom[a].domain \in Domains /\ Restored.adr[Restored.dom[a].domain] = a
    BY DEF Owned
  <2>1. CASE a \in Kept BY <1>4, <1>9, <1>12, <2>1
  <2>2. CASE a \notin Kept
    <3>1. Restored.dom[a] = p.dom[a] BY <1>9, <2>2
    <3>2. p.dom[a].domain \in Domains /\ p.adr[p.dom[a].domain] = a BY <1>2, <3>1 DEF Owned
    <3>3. \A b \in Kept : w.dom[b].domain # p.dom[a].domain BY <1>4, <3>2, Constants
    <3> QED BY <1>13, <3>1, <3>2, <3>3
  <2> QED BY <2>1, <2>2
<1>15. Back(Restored)
  <2> SUFFICES ASSUME NEW d \in Domains, Restored.adr[d] \in Addrs PROVE Restored.dom[Restored.adr[d]].domain = d
    BY DEF Back
  <2>1. CASE \E a \in Kept : w.dom[a].domain = d
    <3>1. PICK a \in Kept : w.dom[a].domain = d BY <2>1
    <3>2. Restored.adr[d] = a BY <1>12, <3>1
    <3>3. Restored.dom[a] = w.dom[a] BY <1>4, <1>9
    <3> QED BY <3>1, <3>2, <3>3
  <2>2. CASE \A a \in Kept : w.dom[a].domain # d
    <3>1. Restored.adr[d] = p.adr[d] BY <1>13, <2>2
    <3>2. p.dom[p.adr[d]].domain = d BY <1>2, <3>1 DEF Back
    <3>3. p.dom[p.adr[d]] # NoOwner BY <3>2, Constants DEF NoOwner
    <3>4. p.adr[d] \notin Kept BY <1>4, <3>3
    <3> QED BY <1>9, <3>1, <3>2, <3>4
  <2> QED BY <2>1, <2>2
<1>16. Restored.meta = Over(p, w).meta BY <1>9, Zenon DEF Over
<1> QED BY <1>10, <1>11, <1>12, <1>13, <1>14, <1>15, <1>16

\* A transaction that fails, with the database kept or lost
LEMMA FailLayered ==
    ASSUME pending \in Buffer, writing \in Buffer, NEW f \in Buffer, Layered(pending, writing, f), NEW g \in {f, Empty}
    PROVE  /\ Layered(Restored, Empty, g)
           /\ Shrinks(Over(pending, Over(writing, f)), Over(Restored, Over(Empty, g)))
<1> DEFINE p == pending
           w == writing
           b == Over(w, f)
           v == Over(p, b)
           r == Restored
           u == Over(r, g)
<1>0. g \in Buffer BY Constants
<1>1. /\ r \in Buffer /\ Owned(r) /\ Back(r)
      /\ \A a \in Addrs : r.dom[a] = Over(p, w).dom[a]
      /\ \A a \in Kept : r.adr[w.dom[a].domain] = a
      /\ \A d \in Domains : (\A a \in Kept : w.dom[a].domain # d) => r.adr[d] = p.adr[d]
  BY RestoredIs
<1>2. Owned(w) /\ Owned(f) /\ Owned(b) /\ Owned(v) BY DEF Layered
<1>3. Owned(g) /\ Back(g) /\ NoTombs(g) /\ Over(Empty, g) = g BY <1>0, EmptyIs DEF Layered
<1> HIDE DEF r
<1>4. /\ \A a \in Addrs : r.dom[a] = IF p.dom[a] # NoOwner THEN p.dom[a] ELSE w.dom[a]
      /\ \A a \in Addrs : v.dom[a] = IF p.dom[a] # NoOwner THEN p.dom[a] ELSE IF w.dom[a] # NoOwner THEN w.dom[a] ELSE f.dom[a]
      /\ \A a \in Addrs : b.dom[a] = IF w.dom[a] # NoOwner THEN w.dom[a] ELSE f.dom[a]
      /\ \A a \in Addrs : u.dom[a] = IF r.dom[a] # NoOwner THEN r.dom[a] ELSE g.dom[a]
      /\ \A d \in Domains : b.adr[d] = IF w.adr[d] # NoAddr THEN w.adr[d] ELSE f.adr[d]
      /\ \A d \in Domains : v.adr[d] = IF p.adr[d] # NoAddr THEN p.adr[d] ELSE b.adr[d]
      /\ \A d \in Domains : u.adr[d] = IF r.adr[d] # NoAddr THEN r.adr[d] ELSE g.adr[d]
  BY <1>1, Zenon DEF Over
<1> HIDE DEF b, v, u
<1>5. \A a \in Addrs : g.dom[a] = f.dom[a] \/ g.dom[a] = NoOwner BY EmptyIs
<1>6. Shrinks(v, u) BY <1>4, <1>5, Zenon DEF Shrinks
<1>7. Owned(u)
  <2> SUFFICES ASSUME NEW a \in Addrs, u.dom[a] # NoOwner PROVE u.dom[a].domain \in Domains /\ u.adr[u.dom[a].domain] = a
    BY DEF Owned
  <2>1. CASE r.dom[a] # NoOwner
    <3>1. r.dom[a].domain \in Domains /\ r.adr[r.dom[a].domain] = a BY <1>1, <2>1 DEF Owned
    <3> QED BY <1>4, <2>1, <3>1, Constants
  <2>2. CASE r.dom[a] = NoOwner
    <3> DEFINE e == g.dom[a].domain
    <3>1. u.dom[a] = g.dom[a] /\ g.dom[a] = f.dom[a] /\ p.dom[a] = NoOwner /\ w.dom[a] = NoOwner BY <1>4, <1>5, <2>2
    <3>2. v.dom[a] = g.dom[a] /\ b.dom[a] = g.dom[a] BY <1>4, <3>1, Zenon
    <3>3. e \in Domains /\ g.adr[e] = a /\ v.adr[e] = a /\ b.adr[e] = a BY <1>2, <1>3, <3>1, <3>2 DEF Owned
    <3>4. ASSUME NEW c \in Kept, w.dom[c].domain = e PROVE FALSE
      <4>1. c \in Addrs /\ w.dom[c] # NoOwner BY DEF Kept
      <4>2. w.adr[e] = c BY <1>2, <3>4, <4>1 DEF Owned
      <4>3. b.adr[e] = c BY <1>4, <3>3, <4>1, <4>2, Constants, Zenon
      <4> QED BY <3>1, <3>3, <4>1, <4>3
    <3>5. r.adr[e] = p.adr[e] BY <1>1, <3>3, <3>4
    <3>6. CASE p.adr[e] = NoAddr BY <1>4, <3>1, <3>3, <3>5, <3>6, Zenon
    <3>7. CASE p.adr[e] # NoAddr BY <1>4, <3>1, <3>3, <3>5, <3>7
    <3> QED BY <3>6, <3>7
  <2> QED BY <2>1, <2>2
<1> QED BY <1>1, <1>3, <1>6, <1>7, EmptyIs DEF Layered, r, u, v, b

-----------------------------------------------------------------------------
(* The invariant: types, and who does what when                            *)

StoreState == [pc : {"idle", "flush", "saved", "queue"}, domain : Domains \cup {None}, old : Domains \cup {None}]
CloserState == [pc : {"none", "save", "flush", "done"}, meta : Position \cup {NoMeta}]
Callers == {"loop", "store", "close"}

TypeOK ==
    /\ up \in BOOLEAN /\ suspect \in BOOLEAN /\ failures \in Nat /\ reserved \in Nat
    /\ flush \in Callers \cup {"none"}
    /\ current \in Position /\ store \in StoreState /\ closer \in CloserState
    /\ pending \in Buffer /\ writing \in Buffer /\ disk \in Buffer

\* Only a flush has a writing buffer; a process that is down has nothing; the
\* store waits while it flushes.
Flow ==
    /\ flush = "none" => writing = Empty
    /\ ~up => /\ pending = Empty /\ writing = Empty /\ flush = "none"
              /\ store = Idle /\ closer = NoClose /\ reserved = 0
    /\ store.pc = "idle" => store = Idle
    /\ store.pc = "queue" => store.domain # None /\ current.addr \in Addrs
    /\ flush = "store" => store.pc = "flush"
    /\ flush = "close" => closer.pc = "flush"
    /\ closer.pc = "save" => closer.meta # NoMeta

Below == Over(writing, disk)
View == Over(pending, Below)

\* Create is under way.
Creating == store.pc # "idle" /\ store.domain # None

Layers == Layered(pending, writing, disk)

\* The domain that Create works for has no address yet, and the owner that
\* CreateNext has found has no other one.
Held ==
    /\ Creating => \A a \in Addrs : View.dom[a].domain # store.domain
    /\ store.pc = "queue" =>
        /\ View.dom[current.addr] # NoOwner => View.dom[current.addr].domain = store.old
        /\ store.old # None => \A a \in Addrs \ {current.addr} : View.dom[a].domain # store.old

Struct == TypeOK /\ Flow /\ Layers /\ Held

\* Saving metadata changes nothing else of the buffer.
LEMMA MetaSet ==
    ASSUME NEW p \in Buffer, NEW m \in Position \cup {NoMeta}
    PROVE  /\ [p EXCEPT !.meta = m] \in Buffer
           /\ [p EXCEPT !.meta = m].dom = p.dom /\ [p EXCEPT !.meta = m].adr = p.adr
           /\ [p EXCEPT !.meta = m].meta = m
BY DEF Buffer

\* Idle and NoClose are states of the store and of Close.
LEMMA RestIs == Idle \in StoreState /\ NoClose \in CloserState
BY DEF Idle, StoreState, NoClose, CloserState

\* When a flush returns, its caller goes on.
LEMMA ReturnsIs ==
    ASSUME store \in StoreState, closer \in CloserState, NEW w \in Callers, Returns(w)
    PROVE  /\ store' \in StoreState /\ closer' \in CloserState
           /\ store'.domain = store.domain /\ store'.old = store.old
           /\ store'.pc = IF w = "store" THEN "saved" ELSE store.pc
           /\ w # "store" => store' = store
           /\ closer'.meta = closer.meta
           /\ closer'.pc = IF w = "close" THEN "done" ELSE closer.pc
BY DEF Returns, StoreState, CloserState, Callers

\* Every step keeps the types.
LEMMA TypeStep ==
    ASSUME Struct, [Next]_vars
    PROVE  TypeOK'
<1> USE DEF Struct
<1>0. /\ up \in BOOLEAN /\ suspect \in BOOLEAN /\ failures \in Nat /\ reserved \in Nat
      /\ flush \in Callers \cup {"none"}
      /\ current \in Position /\ store \in StoreState /\ closer \in CloserState
      /\ pending \in Buffer /\ writing \in Buffer /\ disk \in Buffer
      /\ Reserve \in Nat \ {0}
  BY FakeIPAssumption DEF TypeOK
<1> USE DEF FakeIPSaveMetadata, FakeIPReset, FakeIPMetadata, storeVars
<1>1. ASSUME NEW d \in Domains, Create(d) \/ CreateReserve(d) PROVE TypeOK'
  <2>1. store' \in StoreState BY <1>1, Zenon DEF Create, CreateReserve, CreateAt, Idle, StoreState
  <2>2. pending' \in Buffer BY <1>0, <1>1, AheadAt, MetaSet DEF Create, CreateReserve
  <2> QED BY <1>0, <1>1, <2>1, <2>2 DEF Create, CreateReserve, TypeOK
<1>2. CASE CreateNext
  <2>1. current' \in Position /\ current'.addr \in Addrs BY <1>0, <1>2, AdvanceAt DEF CreateNext
  <2>2. reserved' \in Nat BY <1>0, <1>2 DEF CreateNext
  <2>3. View \in Buffer /\ ViewDomain(current'.addr) = View.dom[current'.addr]
    BY <1>0, <2>1, OverIs DEF View, Below, ViewDomain
  <2>4. View.dom[current'.addr].domain \in Domains \cup {None} BY <2>1, <2>3 DEF Buffer, Entry
  <2>5. store' \in StoreState BY <1>0, <1>2, <2>3, <2>4, Zenon DEF CreateNext, StoreState
  <2> QED BY <1>0, <1>2, <2>1, <2>2, <2>5 DEF CreateNext, TypeOK
<1>3. CASE CreateQueue
  <2>1. store.domain \in Domains /\ store.old \in Domains \cup {None} /\ current.addr \in Addrs
    BY <1>0, <1>3 DEF CreateQueue, Flow, StoreState
  <2>2. pending' \in Buffer BY <1>0, <1>3, <2>1, QueueIs, Zenon DEF CreateQueue
  <2> QED BY <1>0, <1>3, <2>2, RestIs DEF CreateQueue, TypeOK
<1>4. CASE ResetOK
  <2>1. pending' \in Buffer /\ disk' \in Buffer BY <1>4, Constants, MetaSet DEF ResetOK
  <2>2. store' \in StoreState BY <1>4 DEF ResetOK, Idle, StoreState
  <2> QED BY <1>0, <1>4, <2>1, <2>2, Constants DEF ResetOK, TypeOK
<1>5. CASE ResetFail
  <2>1. pending' \in Buffer /\ disk' \in Buffer BY <1>0, <1>5, Constants, MetaSet DEF ResetFail
  <2> QED BY <1>0, <1>5, <2>1 DEF ResetFail, TypeOK
<1>6. CASE ResetSaved BY <1>0, <1>6, RestIs DEF ResetSaved, TypeOK
<1>7. CASE Close
  <2>1. closer' \in CloserState BY <1>0, <1>7 DEF Close, CloserState
  <2> QED BY <1>0, <1>7, <2>1 DEF Close, TypeOK
<1>8. CASE CloseSave
  <2>1. closer' \in CloserState /\ closer.meta \in Position \cup {NoMeta} BY <1>0, <1>8 DEF CloseSave, CloserState
  <2>2. pending' \in Buffer BY <1>0, <1>8, <2>1, MetaSet DEF CloseSave
  <2> QED BY <1>0, <1>8, <2>1, <2>2 DEF CloseSave, TypeOK
<1>9. ASSUME NEW w \in Callers, FlushNothing(w) PROVE TypeOK'
  BY <1>0, <1>9, ReturnsIs DEF FlushNothing, TypeOK
<1>10. ASSUME NEW w \in Callers, FlushTake(w) PROVE TypeOK'
  BY <1>0, <1>10, Constants DEF FlushTake, TypeOK
<1>11. ASSUME NEW w \in Callers, FlushCommit(w) PROVE TypeOK'
  <2>1. disk' \in Buffer BY <1>0, <1>11, WrittenIs DEF FlushCommit, Layers, Layered
  <2> QED BY <1>0, <1>11, <2>1, ReturnsIs, Constants, Zenon DEF FlushCommit, TypeOK
<1>12. ASSUME NEW w \in Callers, FlushFail(w) PROVE TypeOK'
  <2>1. pending' \in Buffer BY <1>0, <1>12, RestoredIs DEF FlushFail, Layers
  <2>2. disk' \in Buffer BY <1>0, <1>12, Constants DEF FlushFail
  <2>3. failures' \in Nat BY <1>0, <1>12 DEF FlushFail
  <2> QED BY <1>0, <1>12, <2>1, <2>2, <2>3, ReturnsIs, Constants, Zenon DEF FlushFail, TypeOK
<1>13. CASE StartSaved
  <2>1. current' \in Position BY <1>0, <1>13 DEF StartSaved, Buffer
  <2> QED BY <1>0, <1>13, <2>1 DEF StartSaved, TypeOK
<1>14. CASE StartReset BY <1>0, <1>14, Constants DEF StartReset, TypeOK
<1>15. CASE Crash BY <1>0, <1>15, Constants, RestIs, Zenon DEF Crash, TypeOK
<1>16. CASE UNCHANGED vars BY <1>0, <1>16 DEF vars, TypeOK
<1> QED BY <1>1, <1>2, <1>3, <1>4, <1>5, <1>6, <1>7, <1>8, <1>9, <1>10, <1>11, <1>12, <1>13, <1>14, <1>15, <1>16
        DEF Next, StoreStep, FlushStep, Callers

\* Every step keeps the order of things.
LEMMA FlowStep ==
    ASSUME Struct, [Next]_vars
    PROVE  Flow'
<1>0. /\ store \in StoreState /\ closer \in CloserState /\ current \in Position /\ flush \in Callers \cup {"none"}
      /\ up \in BOOLEAN
  BY DEF Struct, TypeOK
<1>00. Flow BY DEF Struct
<1> USE DEF storeVars
<1>a. /\ Idle.pc = "idle" /\ Idle.domain = None /\ NoClose.pc = "none" BY DEF Idle, NoClose
<1>1. ASSUME NEW d \in Domains, Create(d) \/ CreateReserve(d) PROVE Flow'
  <2>1. store = Idle /\ store'.pc \in {"flush", "saved"} /\ up BY <1>1, Zenon DEF Create, CreateReserve, CreateAt, MayQuery, Idle
  <2>2. /\ UNCHANGED <<up, current, closer, writing, flush>> BY <1>1 DEF Create, CreateReserve
  <2> QED BY <1>00, <1>a, <2>1, <2>2 DEF Flow
<1>2. CASE CreateNext
  <2>1. store.pc = "saved" /\ store'.pc = "queue" /\ store'.domain # None /\ up BY <1>0, <1>2 DEF CreateNext, StoreState
  <2>2. current'.addr \in Addrs BY <1>0, <1>2, AdvanceAt DEF CreateNext
  <2> QED BY <1>00, <1>2, <2>1, <2>2 DEF Flow, CreateNext
<1>3. CASE CreateQueue BY <1>00, <1>a, <1>3 DEF Flow, CreateQueue
<1>4. CASE ResetOK
  <2>1. store'.pc = "flush" BY <1>4 DEF ResetOK, Idle
  <2> QED BY <1>00, <1>4, <2>1 DEF Flow, ResetOK
<1>5. CASE ResetFail BY <1>00, <1>5 DEF Flow, ResetFail
<1>6. CASE ResetSaved BY <1>00, <1>a, <1>6 DEF Flow, ResetSaved
<1>7. CASE Close
  <2>1. closer'.meta # NoMeta BY <1>0, <1>7, Constants DEF Close
  <2> QED BY <1>00, <1>7, <2>1 DEF Flow, Close
<1>8. CASE CloseSave
  <2>1. closer'.pc = "flush" BY <1>0, <1>8 DEF CloseSave, CloserState
  <2> QED BY <1>00, <1>8, <2>1 DEF Flow, CloseSave
<1>9. ASSUME NEW w \in Callers, FlushNothing(w) PROVE Flow'
  <2>1. w = "store" => store.pc = "flush" BY <1>9 DEF FlushNothing, Calls
  <2>2. /\ store'.domain = store.domain
        /\ store'.pc = IF w = "store" THEN "saved" ELSE store.pc
        /\ w # "store" => store' = store
        /\ closer'.pc = "save" => closer.pc = "save" /\ closer'.meta = closer.meta
    BY <1>0, <1>9, ReturnsIs DEF FlushNothing
  <2> QED BY <1>00, <1>9, <2>1, <2>2 DEF Flow, FlushNothing
<1>10. ASSUME NEW w \in Callers, FlushTake(w) PROVE Flow'
  <2>1. (w = "store" => store.pc = "flush") /\ (w = "close" => closer.pc = "flush") BY <1>10, Zenon DEF FlushTake, Calls
  <2>2. w # "none" BY DEF Callers
  <2> QED BY <1>00, <1>10, <2>1, <2>2 DEF Flow, FlushTake
<1>11. ASSUME NEW w \in Callers, FlushCommit(w) \/ FlushFail(w) PROVE Flow'
  <2>1. w = "store" => store.pc = "flush" BY <1>00, <1>11 DEF FlushCommit, FlushFail, Flow
  <2>2. /\ store'.domain = store.domain
        /\ store'.pc = IF w = "store" THEN "saved" ELSE store.pc
        /\ w # "store" => store' = store
        /\ closer'.pc = "save" => closer.pc = "save" /\ closer'.meta = closer.meta
    BY <1>0, <1>11, ReturnsIs DEF FlushCommit, FlushFail
  <2>3. up /\ up' = up /\ writing' = Empty /\ flush' = "none" /\ current' = current BY <1>11 DEF FlushCommit, FlushFail
  <2> QED BY <1>00, <2>1, <2>2, <2>3 DEF Flow
<1>12. CASE StartSaved \/ StartReset
  <2>1. ~up /\ up' /\ UNCHANGED <<store, closer, pending, writing, flush>> BY <1>12 DEF StartSaved, StartReset
  <2> QED BY <1>00, <1>a, <2>1 DEF Flow
<1>13. CASE Crash BY <1>a, <1>13 DEF Flow, Crash
<1>14. CASE UNCHANGED vars BY <1>00, <1>14 DEF vars, Flow
<1> QED BY <1>1, <1>2, <1>3, <1>4, <1>5, <1>6, <1>7, <1>8, <1>9, <1>10, <1>11, <1>12, <1>13, <1>14
        DEF Next, StoreStep, FlushStep, Callers

\* Every step keeps the two directions of the mapping in agreement, in the
\* database and through the buffers.
LEMMA LayersStep ==
    ASSUME Struct, [Next]_vars
    PROVE  Layers'
<1>0. pending \in Buffer /\ writing \in Buffer /\ disk \in Buffer /\ store \in StoreState /\ current \in Position /\ closer \in CloserState
  BY DEF Struct, TypeOK
<1>00. Layered(pending, writing, disk) /\ Owned(disk) /\ Back(disk) /\ NoTombs(disk) BY DEF Struct, Layers, Layered
<1> USE DEF FakeIPSaveMetadata, FakeIPReset, FakeIPMetadata, storeVars
<1>a. ASSUME UNCHANGED <<pending, writing, disk>> PROVE Layers' BY <1>00, <1>a DEF Layers
<1>b. ASSUME NEW m \in Position \cup {NoMeta}, pending' = [pending EXCEPT !.meta = m], UNCHANGED <<writing, disk>> PROVE Layers'
  <2>1. Layered(pending', writing, disk) BY <1>0, <1>00, <1>b, MetaSet, MetaLayered, Zenon
  <2> QED BY <1>b, <2>1 DEF Layers
<1>c. ASSUME NEW m \in Position \cup {NoMeta}, pending' = [Empty EXCEPT !.meta = m], writing' = Empty, disk' \in {disk, Empty}
      PROVE  Layers'
  <2>1. disk' \in Buffer /\ Owned(disk') /\ Back(disk') /\ NoTombs(disk') BY <1>0, <1>00, <1>c, EmptyIs, Constants
  <2>2. pending' \in Buffer /\ pending'.dom = Empty.dom /\ pending'.adr = Empty.adr BY <1>c, MetaSet, Constants
  <2>3. Layered(pending', Empty, disk') BY <2>1, <2>2, DiskLayered
  <2> QED BY <1>c, <2>3 DEF Layers
<1>d. ASSUME pending' = Empty, writing' = Empty, disk' \in {disk, Empty} PROVE Layers'
  <2>1. disk' \in Buffer /\ Owned(disk') /\ Back(disk') /\ NoTombs(disk') BY <1>0, <1>00, <1>d, EmptyIs, Constants
  <2>2. Layered(Empty, Empty, disk') BY <2>1, DiskLayered, Constants
  <2> QED BY <1>d, <2>2, Zenon DEF Layers
<1>1. ASSUME NEW d \in Domains, Create(d) PROVE Layers' BY <1>a, <1>1 DEF Create
<1>2. ASSUME NEW d \in Domains, CreateReserve(d) PROVE Layers' BY <1>0, <1>b, <1>2, AheadAt DEF CreateReserve
<1>3. CASE CreateNext \/ ResetSaved \/ Close BY <1>a, <1>3 DEF CreateNext, ResetSaved, Close
<1>4. CASE CreateQueue
  <2>1. store.domain \in Domains /\ store.old \in Domains \cup {None} /\ current.addr \in Addrs
    BY <1>0, <1>4, Zenon DEF CreateQueue, Struct, Flow, StoreState
  <2>2. /\ \A a \in Addrs : View.dom[a].domain # store.domain
        /\ View.dom[current.addr] # NoOwner => View.dom[current.addr].domain = store.old
        /\ store.old # None => \A a \in Addrs \ {current.addr} : View.dom[a].domain # store.old
    BY <1>4, <2>1, Constants DEF Struct, Held, Creating, CreateQueue
  <2>3. View = Over(pending, Over(writing, disk)) BY Zenon DEF View, Below
  <2>4. Layered(Queue(pending, current, store.domain, store.old), writing, disk)
    BY <1>0, <1>00, <2>1, <2>2, <2>3, QueueLayered, Zenon
  <2> QED BY <1>4, <2>4 DEF Layers, CreateQueue
<1>5. CASE ResetOK \/ ResetFail
  <2>1. writing = Empty BY <1>5 DEF ResetOK, ResetFail, Struct, Flow
  <2> QED BY <1>c, <1>5, <2>1, Constants DEF ResetOK, ResetFail
<1>6. CASE CloseSave BY <1>0, <1>b, <1>6 DEF CloseSave, CloserState
<1>7. ASSUME NEW w \in Callers, FlushNothing(w) PROVE Layers' BY <1>a, <1>7 DEF FlushNothing
<1>8. ASSUME NEW w \in Callers, FlushTake(w) PROVE Layers'
  <2>1. writing = Empty BY <1>8 DEF FlushTake, Struct, Flow
  <2>2. Layered(Empty, pending, disk) BY <1>0, <1>00, <2>1, TakeLayered
  <2> QED BY <1>8, <2>2 DEF FlushTake, Layers
<1>9. ASSUME NEW w \in Callers, FlushCommit(w) PROVE Layers'
  <2>1. disk' \in Written(disk, writing) /\ writing' = Empty /\ pending' = pending BY <1>9 DEF FlushCommit
  <2>2. Layered(pending, Empty, disk') BY <1>0, <1>00, <2>1, CommitLayered
  <2> QED BY <2>1, <2>2 DEF Layers
<1>10. ASSUME NEW w \in Callers, FlushFail(w) PROVE Layers'
  <2>1. disk' \in {disk, Empty} /\ writing' = Empty /\ pending' = Restored BY <1>10 DEF FlushFail
  <2>2. Layered(Restored, Empty, disk') BY <1>0, <1>00, <2>1, FailLayered
  <2> QED BY <2>1, <2>2 DEF Layers
<1>11. CASE StartSaved \/ StartReset
  <2>1. pending = Empty /\ writing = Empty BY <1>11 DEF StartSaved, StartReset, Struct, Flow
  <2> QED BY <1>d, <1>11, <2>1 DEF StartSaved, StartReset
<1>12. CASE Crash BY <1>d, <1>12 DEF Crash
<1>13. CASE UNCHANGED vars BY <1>a, <1>13 DEF vars
<1> QED BY <1>1, <1>2, <1>3, <1>4, <1>5, <1>6, <1>7, <1>8, <1>9, <1>10, <1>11, <1>12, <1>13
        DEF Next, StoreStep, FlushStep, Callers

\* Through the buffers, lookups see a buffer.
LEMMA ViewIs ==
    ASSUME pending \in Buffer, writing \in Buffer, disk \in Buffer
    PROVE  /\ Below \in Buffer /\ View \in Buffer
           /\ \A a \in Addrs : ViewDomain(a) = View.dom[a]
           /\ \A d \in Domains : ViewAddress(d) = View.adr[d]
<1>1. Below \in Buffer BY OverIs DEF Below
<1>2. View \in Buffer BY <1>1, OverIs DEF View
<1> QED BY <1>1, <1>2, Zenon DEF View, Below, Over, ViewDomain, ViewAddress

\* A flush, failed or not, adds no mapping to what lookups see.
LEMMA FlushShrinks ==
    ASSUME Struct, NEW w \in Callers, FlushStep(w)
    PROVE  Shrinks(View, View')
<1>0. pending \in Buffer /\ writing \in Buffer /\ disk \in Buffer BY DEF Struct, TypeOK
<1>00. Layered(pending, writing, disk) BY DEF Struct, Layers
<1>1. CASE FlushNothing(w)
  <2>1. View' = View BY <1>1 DEF FlushNothing, View, Below
  <2> QED BY <2>1 DEF Shrinks
<1>2. CASE FlushTake(w)
  <2>1. writing = Empty /\ writing' = pending /\ pending' = Empty /\ disk' = disk
    BY <1>2 DEF FlushTake, Struct, Flow
  <2>2. View' = View BY <1>0, <1>00, <2>1, TakeLayered DEF View, Below
  <2> QED BY <2>2 DEF Shrinks
<1>3. CASE FlushCommit(w)
  <2>1. disk' \in Written(disk, writing) /\ writing' = Empty /\ pending' = pending BY <1>3 DEF FlushCommit
  <2>2. \A a \in Addrs : Over(pending, Over(Empty, disk')).dom[a] = Over(pending, Over(writing, disk)).dom[a]
    BY <1>0, <1>00, <2>1, CommitLayered
  <2> QED BY <2>1, <2>2 DEF View, Below, Shrinks
<1>4. CASE FlushFail(w)
  <2>1. disk' \in {disk, Empty} /\ writing' = Empty /\ pending' = Restored BY <1>4 DEF FlushFail
  <2>2. Shrinks(Over(pending, Over(writing, disk)), Over(Restored, Over(Empty, disk')))
    BY <1>0, <1>00, <2>1, FailLayered
  <2> QED BY <2>1, <2>2 DEF View, Below
<1> QED BY <1>1, <1>2, <1>3, <1>4 DEF FlushStep

\* Nothing gives the domain of a Create an address, or moves the owner it
\* found, while it goes on.
LEMMA HeldStep ==
    ASSUME Struct, [Next]_vars
    PROVE  Held'
<1>0. pending \in Buffer /\ writing \in Buffer /\ disk \in Buffer /\ store \in StoreState /\ current \in Position /\ closer \in CloserState
  BY DEF Struct, TypeOK
<1>00. Held /\ Owned(View) /\ View \in Buffer BY <1>0, ViewIs DEF Struct, Layers, Layered, View, Below
<1> USE DEF FakeIPSaveMetadata, FakeIPReset, storeVars
<1>i. Idle.pc = "idle" /\ Idle.domain = None BY DEF Idle
<1>n. NoOwner.domain = None BY DEF NoOwner
<1>a. ASSUME Shrinks(View, View'), current' = current, store'.domain = store.domain, store'.old = store.old,
             store'.pc = "queue" => store.pc = "queue", store.pc = "idle" => store'.pc = "idle"
      PROVE  Held'
  <2>1. ASSUME Creating', NEW a \in Addrs PROVE View'.dom[a].domain # store'.domain
    BY <1>00, <1>n, <1>a, <2>1 DEF Held, Creating, Shrinks
  <2>2. ASSUME store'.pc = "queue" PROVE current.addr \in Addrs BY <1>a, <2>2 DEF Struct, Flow
  <2>3. ASSUME store'.pc = "queue", View'.dom[current'.addr] # NoOwner PROVE View'.dom[current'.addr].domain = store'.old
    BY <1>00, <1>a, <2>2, <2>3 DEF Held, Shrinks
  <2>4. ASSUME store'.pc = "queue", store'.old # None, NEW a \in Addrs \ {current'.addr} PROVE View'.dom[a].domain # store'.old
    BY <1>00, <1>n, <1>a, <2>4 DEF Held, Shrinks
  <2> QED BY <2>1, <2>3, <2>4 DEF Held
<1>b. ASSUME store'.domain = None, store'.pc # "queue" PROVE Held' BY <1>b DEF Held, Creating
<1>1. ASSUME NEW d \in Domains, Create(d) \/ CreateReserve(d) PROVE Held'
  <2>1. store' = [Idle EXCEPT !.pc = store'.pc, !.domain = d] /\ store'.pc # "queue" /\ store'.domain = d /\ ~Loaded(d)
    BY <1>1, Zenon DEF Create, CreateReserve, CreateAt, Idle
  <2>2. View'.dom = View.dom
    <3>1. CASE Create(d) BY <3>1 DEF Create, View, Below
    <3>2. CASE CreateReserve(d)
      <4>1. pending'.dom = pending.dom BY <1>0, <3>2, AheadAt, MetaSet DEF CreateReserve
      <4>2. writing' = writing /\ disk' = disk BY <3>2 DEF CreateReserve
      <4> QED BY <4>1, <4>2, Zenon DEF View, Below, Over
    <3> QED BY <1>1, <3>1, <3>2
  <2>3. View.adr[d] \notin Addrs BY <1>0, <2>1, ViewIs, Zenon DEF Loaded
  <2>4. \A a \in Addrs : View.dom[a].domain # d BY <1>00, <1>n, <2>3, Constants DEF Owned
  <2> QED BY <2>1, <2>2, <2>4 DEF Held
<1>2. CASE CreateNext
  <2>1. View' = View BY <1>2 DEF CreateNext, View, Below
  <2>2. current'.addr \in Addrs BY <1>0, <1>2, AdvanceAt DEF CreateNext
  <2>3. store'.domain = store.domain /\ store'.old = View.dom[current'.addr].domain /\ Creating
    BY <1>0, <1>2, <2>2, ViewIs DEF CreateNext, StoreState, Creating
  <2>4. ASSUME NEW a \in Addrs \ {current'.addr}, store'.old # None PROVE View.dom[a].domain # store'.old
    <3>1. View.dom[current'.addr] # NoOwner BY <1>n, <2>3, <2>4
    <3>2. View.adr[store'.old] = current'.addr BY <1>00, <2>2, <2>3, <3>1 DEF Owned
    <3>3. ASSUME View.dom[a].domain = store'.old PROVE FALSE BY <1>00, <1>n, <2>4, <3>2, <3>3 DEF Owned
    <3> QED BY <3>3
  <2> QED BY <1>00, <2>1, <2>2, <2>3, <2>4, Zenon DEF Held
<1>3. CASE CreateQueue BY <1>b, <1>i, <1>3 DEF CreateQueue
<1>4. CASE ResetOK BY <1>b, <1>4 DEF ResetOK, Idle
<1>5. CASE ResetFail BY <1>b, <1>i, <1>5 DEF ResetFail
<1>6. CASE ResetSaved BY <1>b, <1>i, <1>6 DEF ResetSaved
<1>7. CASE Close BY <1>b, <1>i, <1>7 DEF Close
<1>8. CASE CloseSave
  <2>1. pending'.dom = pending.dom /\ writing' = writing /\ disk' = disk BY <1>0, <1>8, MetaSet DEF CloseSave, CloserState
  <2>2. View'.dom = View.dom BY <2>1, Zenon DEF View, Below, Over
  <2>3. Shrinks(View, View') BY <2>2 DEF Shrinks
  <2> QED BY <1>a, <1>8, <2>3 DEF CloseSave
<1>9. ASSUME NEW w \in Callers, FlushStep(w) PROVE Held'
  <2>1. Shrinks(View, View') BY <1>9, FlushShrinks
  <2>2. w = "store" /\ ~FlushTake(w) => store.pc = "flush"
    BY <1>9 DEF FlushStep, FlushNothing, FlushCommit, FlushFail, Calls, Struct, Flow
  <2>3. current' = current BY <1>9 DEF FlushStep, FlushNothing, FlushTake, FlushCommit, FlushFail
  <2>4. store' = store \/ (w = "store" /\ ~FlushTake(w) /\ store'.pc = "saved" /\ store'.domain = store.domain /\ store'.old = store.old)
    <3>1. CASE FlushTake(w) BY <3>1 DEF FlushTake
    <3>2. CASE ~FlushTake(w) BY <1>0, <1>9, <3>2, ReturnsIs DEF FlushStep, FlushNothing, FlushCommit, FlushFail
    <3> QED BY <3>1, <3>2
  <2>5. CASE store' = store BY <1>a, <2>1, <2>3, <2>5
  <2>6. CASE store' # store BY <1>a, <2>1, <2>2, <2>3, <2>4, <2>6
  <2> QED BY <2>5, <2>6
<1>10. CASE StartSaved \/ StartReset
  <2>1. store' = Idle BY <1>10 DEF StartSaved, StartReset, Struct, Flow
  <2> QED BY <1>b, <1>i, <2>1
<1>11. CASE Crash BY <1>b, <1>i, <1>11, Zenon DEF Crash
<1>12. CASE UNCHANGED vars
  <2>1. View' = View /\ store' = store /\ current' = current BY <1>12 DEF vars, View, Below
  <2> QED BY <1>00, <2>1 DEF Held, Creating
<1> QED BY <1>1, <1>2, <1>3, <1>4, <1>5, <1>6, <1>7, <1>8, <1>9, <1>10, <1>11, <1>12
        DEF Next, StoreStep, Callers

\* The initial state, and every step
LEMMA StructInit == Init => Struct
<1> SUFFICES ASSUME Init PROVE Struct OBVIOUS
<1>0. Idle.pc = "idle" /\ Idle.domain = None /\ NoClose.pc = "none" BY DEF Idle, NoClose
<1>1. TypeOK BY Constants, RestIs, Zenon DEF Init, TypeOK
<1>2. Flow BY <1>0, Zenon DEF Init, Flow
<1>3. Layers BY Constants, EmptyIs, DiskLayered DEF Init, Layers
<1>4. Held BY <1>0 DEF Init, Held, Creating
<1> QED BY <1>1, <1>2, <1>3, <1>4 DEF Struct

\* The structure is inductive.
LEMMA StructStep == Struct /\ [Next]_vars => Struct'
BY TypeStep, FlowStep, LayersStep, HeldStep DEF Struct

\* The structure says what DiskConsistent says of the database.
LEMMA StructConsistent == Struct => DiskConsistent
<1> SUFFICES ASSUME Struct PROVE DiskConsistent OBVIOUS
<1>1. Owned(disk) /\ Back(disk) /\ NoTombs(disk) BY DEF Struct, Layers, Layered
<1> QED BY <1>1 DEF Owned, Back, NoTombs, DiskConsistent

\* In the database every address of a domain leads back to the domain and no
\* domain has two, however often flushes fail, the file is lost, the process
\* dies and addresses change hands in the buffers: writePending and putFakeIP
\* in whatever order, restorePendingLocked, FakeIPReset and queueFakeIP.
THEOREM DatabaseAgrees == Spec => []DiskConsistent
<1>1. Spec => []Struct BY StructInit, StructStep, PTL DEF Spec
<1> QED BY <1>1, StructConsistent, PTL

-----------------------------------------------------------------------------
(* Domains that have lost their address                                    *)

\* While no failed flush has dropped them, the buffers say of every domain
\* whose address they give away that it has lost it.  The buffer that fills
\* while another one is written does so in any case.
TombInv ==
    /\ ~suspect => Tombs(pending, Below) /\ Tombs(writing, disk)
    /\ flush # "none" => Tombs(pending, Below)

\* A buffer without mappings needs no tombstones.
LEMMA NoMapTombs ==
    ASSUME NEW x, NEW f, x.dom = Empty.dom
    PROVE  Tombs(x, f)
BY EmptyIs DEF Tombs

\* queueFakeIP leaves a tombstone for the owner that it takes the address from.
LEMMA QueueTombs ==
    ASSUME NEW p \in Buffer, NEW b \in Buffer, Owned(b), Tombs(p, b),
           NEW c \in Position, c.addr \in Addrs, NEW d \in Domains, NEW old \in Domains \cup {None},
           Over(p, b).dom[c.addr] # NoOwner => Over(p, b).dom[c.addr].domain = old
    PROVE  Tombs(Queue(p, c, d, old), b)
<1> DEFINE q == Queue(p, c, d, old)
<1>0. Queued(q, p, c, d, old) BY QueueMaps, Zenon
<1> HIDE DEF q
<1>1. /\ \A a \in Addrs : q.dom[a] = IF a = c.addr THEN [domain |-> d, pos |-> c.pos] ELSE p.dom[a]
      /\ \A e \in Domains : q.adr[e] = IF e = d THEN c.addr ELSE IF e = old THEN Tomb ELSE p.adr[e]
  BY <1>0, Zenon DEF Queued
<1>2. Tomb # NoAddr /\ c.addr # NoAddr BY Constants, Marks, Zenon
<1> SUFFICES ASSUME NEW a \in Addrs, q.dom[a] # NoOwner, b.dom[a] # NoOwner, b.dom[a].domain # q.dom[a].domain
             PROVE  q.adr[b.dom[a].domain] # NoAddr
  BY Zenon DEF Tombs, q
<1>3. b.dom[a].domain \in Domains BY Zenon DEF Owned
<1>4. CASE a # c.addr
  <2>1. p.adr[b.dom[a].domain] # NoAddr BY <1>1, <1>4, ZenonT(30) DEF Tombs
  <2> QED BY <1>1, <1>2, <1>3, <2>1, Zenon
<1>5. CASE a = c.addr /\ p.dom[a] = NoOwner
  <2>1. Over(p, b).dom[a] = b.dom[a] BY <1>5, OverIs, ZenonT(30)
  <2> QED BY <1>1, <1>2, <1>3, <1>5, <2>1
<1>6. CASE a = c.addr /\ p.dom[a] # NoOwner
  <2>1. p.dom[a].domain = old BY <1>6, OverIs, Zenon
  <2>2. b.dom[a].domain = old \/ p.adr[b.dom[a].domain] # NoAddr BY <1>6, <2>1 DEF Tombs
  <2> QED BY <1>1, <1>2, <1>3, <2>2, Zenon
<1> QED BY <1>4, <1>5, <1>6

\* Every step keeps the tombstones.
LEMMA TombStep == Struct /\ TombInv /\ [Next]_vars => TombInv'
<1> SUFFICES ASSUME Struct, TombInv, [Next]_vars PROVE TombInv' OBVIOUS
<1>0. pending \in Buffer /\ writing \in Buffer /\ disk \in Buffer /\ store \in StoreState /\ current \in Position /\ closer \in CloserState
  BY DEF Struct, TypeOK
<1>00. /\ ~suspect => Tombs(pending, Below) /\ Tombs(writing, disk)
       /\ flush # "none" => Tombs(pending, Below)
       /\ Layered(pending, writing, disk)
  BY DEF TombInv, Struct, Layers
<1> USE DEF FakeIPSaveMetadata, FakeIPReset, FakeIPMetadata, storeVars
<1>a. ASSUME pending'.dom = pending.dom, pending'.adr = pending.adr, UNCHANGED <<writing, disk, suspect, flush>> PROVE TombInv'
  <2>1. Below' = Below BY <1>a, Zenon DEF Below
  <2>2. Tombs(pending, Below) => Tombs(pending', Below) BY <1>a DEF Tombs
  <2> QED BY <1>00, <1>a, <2>1, <2>2, Zenon DEF TombInv
<1>b. ASSUME pending'.dom = Empty.dom, writing' = Empty PROVE TombInv'
  <2>1. Tombs(pending', Below') /\ Tombs(Empty, disk') BY <1>b, NoMapTombs
  <2> QED BY <1>b, <2>1 DEF TombInv
<1>1. ASSUME NEW d \in Domains, Create(d) \/ CreateReserve(d) PROVE TombInv'
  <2>1. pending'.dom = pending.dom /\ pending'.adr = pending.adr
    <3>1. CASE Create(d) BY <3>1 DEF Create
    <3>2. CASE CreateReserve(d)
      <4>1. pending' = [pending EXCEPT !.meta = Ahead] /\ Ahead \in Position BY <1>0, <3>2, AheadAt DEF CreateReserve
      <4> QED BY <1>0, <4>1, MetaSet
    <3> QED BY <1>1, <3>1, <3>2
  <2> QED BY <1>a, <1>1, <2>1 DEF Create, CreateReserve
<1>2. CASE CreateNext \/ ResetSaved \/ Close BY <1>a, <1>2 DEF CreateNext, ResetSaved, Close
<1>3. CASE CreateQueue
  <2>1. store.domain \in Domains /\ store.old \in Domains \cup {None} /\ current.addr \in Addrs
    BY <1>0, <1>3, Zenon DEF CreateQueue, Struct, Flow, StoreState
  <2>2. Over(pending, Below).dom[current.addr] # NoOwner => Over(pending, Below).dom[current.addr].domain = store.old
    BY <1>3 DEF CreateQueue, Struct, Held, View
  <2>3. Below \in Buffer /\ Owned(Below) BY <1>0, <1>00, ViewIs DEF Layered, Below
  <2>4. Below' = Below /\ UNCHANGED <<writing, disk, suspect, flush>> BY <1>3, Zenon DEF CreateQueue, Below
  <2>5. Tombs(pending, Below) => Tombs(pending', Below) BY <1>0, <1>3, <2>1, <2>2, <2>3, QueueTombs, Zenon DEF CreateQueue
  <2> QED BY <1>00, <2>4, <2>5 DEF TombInv
<1>4. CASE ResetOK \/ ResetFail
  <2>1. writing' = Empty BY <1>4 DEF ResetOK, ResetFail, Struct, Flow
  <2>2. PICK m \in Position \cup {NoMeta} : pending' = [Empty EXCEPT !.meta = m] BY <1>4, Constants DEF ResetOK, ResetFail
  <2>3. pending'.dom = Empty.dom BY <2>2, MetaSet, Constants
  <2> QED BY <1>b, <2>1, <2>3
<1>5. CASE CloseSave
  <2>1. pending'.dom = pending.dom /\ pending'.adr = pending.adr BY <1>0, <1>5, MetaSet DEF CloseSave, CloserState
  <2> QED BY <1>a, <1>5, <2>1 DEF CloseSave
<1>6. ASSUME NEW w \in Callers, FlushNothing(w) PROVE TombInv' BY <1>a, <1>6 DEF FlushNothing
<1>7. ASSUME NEW w \in Callers, FlushTake(w) PROVE TombInv'
  <2>1. writing = Empty /\ writing' = pending /\ pending' = Empty /\ UNCHANGED <<disk, suspect>>
    BY <1>7 DEF FlushTake, Struct, Flow
  <2>2. Below = disk BY <1>0, <2>1, EmptyIs DEF Below
  <2>3. Tombs(pending', Below') BY <2>1, NoMapTombs
  <2>4. ~suspect => Tombs(pending, disk) BY <1>00, <2>2
  <2> QED BY <2>1, <2>3, <2>4 DEF TombInv
<1>8. ASSUME NEW w \in Callers, FlushCommit(w) PROVE TombInv'
  <2>1. disk' \in Written(disk, writing) /\ writing' = Empty /\ pending' = pending /\ flush = w /\ w # "none"
    BY <1>8 DEF FlushCommit, Callers
  <2>2. disk' \in Buffer /\ \A a \in Addrs : disk'.dom[a] = Below.dom[a] BY <1>0, <1>00, <2>1, CommitLayered, SMTT(30) DEF Below
  <2>3. Below' = disk' BY <2>1, <2>2, EmptyIs DEF Below
  <2>4. Tombs(pending, disk') BY <1>00, <2>1, <2>2, Zenon DEF Tombs
  <2>5. Tombs(Empty, disk') BY NoMapTombs
  <2> QED BY <2>1, <2>3, <2>4, <2>5 DEF TombInv
<1>9. ASSUME NEW w \in Callers, FlushFail(w) PROVE TombInv' BY <1>9 DEF FlushFail, TombInv
<1>10. CASE StartSaved \/ StartReset
  <2>1. pending' = Empty /\ writing' = Empty BY <1>10, Zenon DEF StartSaved, StartReset, Struct, Flow
  <2> QED BY <1>b, <2>1
<1>11. CASE Crash BY <1>b, <1>11 DEF Crash
<1>12. CASE UNCHANGED vars BY <1>a, <1>12 DEF vars
<1> QED BY <1>1, <1>2, <1>3, <1>4, <1>5, <1>6, <1>7, <1>8, <1>9, <1>10, <1>11, <1>12
        DEF Next, StoreStep, FlushStep, Callers

\* With the tombstones in place an address leads back to its domain.
LEMMA TombsLeadBack == Struct /\ TombInv => AnswerLeadsBack
<1> SUFFICES ASSUME Struct, TombInv, ~suspect, NEW d \in Domains, ViewAddress(d) \in Addrs
             PROVE  ViewDomain(ViewAddress(d)).domain = d
  BY DEF AnswerLeadsBack, Loaded
<1> DEFINE v == ViewAddress(d)
<1>0. pending \in Buffer /\ writing \in Buffer /\ disk \in Buffer BY DEF Struct, TypeOK
<1>1. Tombs(pending, Below) /\ Tombs(writing, disk) BY DEF TombInv
<1>2. Back(pending) /\ Back(writing) /\ Back(disk) BY DEF Struct, Layers, Layered
<1>3. NoOwner.domain # d BY Constants DEF NoOwner
<1>4. /\ \A a \in Addrs : ViewDomain(a) = IF pending.dom[a] # NoOwner THEN pending.dom[a] ELSE Below.dom[a]
      /\ \A a \in Addrs : Below.dom[a] = IF writing.dom[a] # NoOwner THEN writing.dom[a] ELSE disk.dom[a]
  BY <1>0, Zenon DEF ViewDomain, Below, Over
<1>5. CASE pending.adr[d] # NoAddr
  <2>1. v = pending.adr[d] BY <1>5 DEF ViewAddress
  <2>2. pending.dom[v].domain = d BY <1>2, <2>1 DEF Back
  <2> QED BY <1>3, <1>4, <2>2
<1>6. CASE pending.adr[d] = NoAddr
  <2>1. Below.dom[v].domain = d
    <3>1. CASE writing.adr[d] # NoAddr
      <4>1. v = writing.adr[d] BY <1>6, <3>1 DEF ViewAddress
      <4>2. writing.dom[v].domain = d BY <1>2, <4>1 DEF Back
      <4> QED BY <1>3, <1>4, <4>2
    <3>2. CASE writing.adr[d] = NoAddr
      <4>1. v = disk.adr[d] BY <1>6, <3>2 DEF ViewAddress
      <4>2. disk.dom[v].domain = d BY <1>2, <4>1 DEF Back
      <4>3. writing.dom[v] # NoOwner => writing.dom[v].domain = d BY <1>1, <1>3, <3>2, <4>2 DEF Tombs
      <4> QED BY <1>4, <4>2, <4>3
    <3> QED BY <3>1, <3>2
  <2>2. pending.dom[v] # NoOwner => pending.dom[v].domain = d BY <1>1, <1>3, <1>6, <2>1 DEF Tombs
  <2> QED BY <1>4, <2>1, <2>2
<1> QED BY <1>5, <1>6

\* An answer of the store leads back to the domain it was given to: the
\* lookups through the buffers agree in both directions, until a flush fails
\* and after the next one that succeeds (FakeIPLoad, FakeIPLoadDomain,
\* queueFakeIP, restorePendingLocked).
THEOREM AnswersLeadBack == Spec => []AnswerLeadsBack
<1>1. Init => TombInv
  <2> SUFFICES ASSUME Init PROVE TombInv OBVIOUS
  <2>1. Tombs(pending, Below) /\ Tombs(writing, disk) BY NoMapTombs DEF Init
  <2> QED BY <2>1 DEF TombInv
<1>2. Spec => [](Struct /\ TombInv) BY <1>1, StructInit, StructStep, TombStep, PTL DEF Spec
<1> QED BY <1>2, TombsLeadBack, PTL

-----------------------------------------------------------------------------
(* Positions                                                               *)

\* No mapping of f was given out after the position that f has saved.
Covered(f) == f.meta # NoMeta => Upto(f, f.meta.pos)

\* Without a saved position f has no mappings.
Bare(f) == f.meta = NoMeta => \A a \in Addrs : f.dom[a] = NoOwner

\* How far the store may go before it saves its position again
Promised ==
    IF closer.pc # "none" THEN 0
    ELSE IF Creating /\ store.pc \in {"flush", "saved"} /\ reserved = 0 THEN Reserve ELSE reserved

PosInv ==
    /\ up => Upto(disk, current.pos) /\ Upto(Below, current.pos) /\ Upto(View, current.pos)
    /\ Covered(disk) /\ Covered(Below) /\ Covered(View)
    /\ up /\ View.meta # NoMeta => current.pos + Promised <= View.meta.pos
    /\ Creating => closer.pc = "none"
    /\ closer.pc = "save" => current.pos <= closer.meta.pos

\* What is left of the reservation while Close has not begun
Room == IF closer.pc = "none" THEN reserved ELSE 0

\* Before the first failure: every saved position is ahead of the store, the
\* newest reservation is in the database when Create goes on, and mappings
\* follow it there.
SoundInv ==
    /\ up => \A x \in {pending, writing, disk} : x.meta # NoMeta => current.pos + Room <= x.meta.pos
    /\ Creating /\ flush = "store" => pending.meta = NoMeta
    /\ Creating /\ store.pc = "saved" /\ reserved = 0 => pending.meta = NoMeta /\ writing.meta = NoMeta
    /\ Bare(disk) /\ Bare(Below) /\ Bare(View)
    /\ reserved > 0 \/ Creating => View.meta # NoMeta

PositionInv ==
    /\ ~LateQueries /\ failures <= 1 => PosInv
    /\ ~LateQueries /\ failures = 0 => SoundInv

\* The mappings and the metadata of f and g are the same.
Same(f, g) == f.meta = g.meta /\ \A a \in Addrs : f.dom[a] = g.dom[a]

\* What is said of positions depends on the mappings and the metadata.
LEMMA SameIs ==
    ASSUME NEW f, NEW g, Same(f, g)
    PROVE  /\ \A n : Upto(f, n) = Upto(g, n)
           /\ Covered(f) <=> Covered(g)
           /\ Bare(f) <=> Bare(g)
BY DEF Same, Upto, Covered, Bare

\* Fewer mappings, and positions further on
LEMMA UptoIs ==
    ASSUME NEW f \in Buffer, NEW n \in Nat
    PROVE  /\ \A m \in Nat : Upto(f, n) /\ n <= m => Upto(f, m)
           /\ \A g : Shrinks(f, g) /\ Upto(f, n) => Upto(g, n)
<1>1. \A a \in Addrs : f.dom[a].pos \in Nat BY DEF Buffer, Entry
<1>2. NoOwner.pos = 0 BY DEF NoOwner
<1> QED BY <1>1, <1>2 DEF Upto, Shrinks

\* The empty database has nothing anywhere.
LEMMA EmptyPositions ==
    /\ \A n \in Nat : \A f : (\A a \in Addrs : f.dom[a] = NoOwner) => Upto(f, n)
    /\ Upto(Empty, 0) /\ Covered(Empty) /\ Bare(Empty)
BY Marks, EmptyIs DEF Upto, Covered, Bare

\* The positions are natural numbers.
LEMMA PositionIs ==
    ASSUME TypeOK
    PROVE  /\ current.pos \in Nat /\ closer.meta.pos \in Nat
           /\ disk.meta.pos \in Nat /\ Below.meta.pos \in Nat /\ View.meta.pos \in Nat
           /\ pending.meta.pos \in Nat /\ writing.meta.pos \in Nat
           /\ Promised \in Nat /\ Room \in Nat
<1>1. \A m \in Position \cup {NoMeta} : m.pos \in Nat BY DEF Position, NoMeta
<1>2. current \in Position /\ closer.meta \in Position \cup {NoMeta} BY DEF TypeOK, CloserState
<1>3. disk \in Buffer /\ Below \in Buffer /\ View \in Buffer /\ pending \in Buffer /\ writing \in Buffer
  BY ViewIs DEF TypeOK
<1>4. /\ disk.meta \in Position \cup {NoMeta} /\ Below.meta \in Position \cup {NoMeta}
      /\ View.meta \in Position \cup {NoMeta} /\ pending.meta \in Position \cup {NoMeta}
      /\ writing.meta \in Position \cup {NoMeta}
  BY <1>3 DEF Buffer
<1>5. Promised \in Nat /\ Room \in Nat BY FakeIPAssumption DEF TypeOK, Promised, Room
<1> QED BY <1>1, <1>2, <1>4, <1>5

\* The metadata that lookups see
LEMMA MetaIs ==
    /\ Below.meta = IF writing.meta # NoMeta THEN writing.meta ELSE disk.meta
    /\ View.meta = IF pending.meta # NoMeta THEN pending.meta ELSE Below.meta
BY Zenon DEF View, Below, Over

\* What lookups see after a flush has taken, written or given up the buffer
LEMMA FlushSees ==
    ASSUME Struct, NEW w \in Callers
    PROVE  /\ FlushTake(w) => Same(Below', View) /\ Same(View', View) /\ Same(disk', disk)
           /\ FlushCommit(w) => Same(disk', Below) /\ Same(Below', Below) /\ Same(View', View)
           /\ FlushFail(w) => /\ disk' \in {disk, Empty} /\ Same(Below', disk')
                              /\ Shrinks(View, View') /\ View'.meta \in {View.meta, NoMeta}
<1>0. pending \in Buffer /\ writing \in Buffer /\ disk \in Buffer BY DEF Struct, TypeOK
<1>00. Layered(pending, writing, disk) BY DEF Struct, Layers
<1>1. ASSUME FlushTake(w) PROVE Same(Below', View) /\ Same(View', View) /\ Same(disk', disk)
  <2>1. writing = Empty /\ writing' = pending /\ pending' = Empty /\ disk' = disk
    BY <1>1 DEF FlushTake, Struct, Flow
  <2>2. View' = View /\ Below' = View BY <1>0, <1>00, <2>1, TakeLayered DEF View, Below
  <2> QED BY <2>1, <2>2 DEF Same
<1>2. ASSUME FlushCommit(w) PROVE Same(disk', Below) /\ Same(Below', Below) /\ Same(View', View)
  <2>1. disk' \in Written(disk, writing) /\ writing' = Empty /\ pending' = pending BY <1>2 DEF FlushCommit
  <2>2. /\ disk' \in Buffer
        /\ \A a \in Addrs : disk'.dom[a] = Over(writing, disk).dom[a]
        /\ \A a \in Addrs : Over(pending, Over(Empty, disk')).dom[a] = Over(pending, Over(writing, disk)).dom[a]
        /\ disk'.meta = Over(writing, disk).meta
        /\ Over(pending, Over(Empty, disk')).meta = Over(pending, Over(writing, disk)).meta
    BY <1>0, <1>00, <2>1, CommitLayered
  <2>3. Below' = disk' BY <2>1, <2>2, EmptyIs, Zenon DEF Below
  <2>4. Same(disk', Below) BY <2>2 DEF Same, Below
  <2>5. View' = Over(pending, Over(Empty, disk')) /\ View = Over(pending, Over(writing, disk)) BY <2>1 DEF View, Below
  <2>6. Same(View', View) BY <2>2, <2>5, Zenon DEF Same
  <2> QED BY <2>3, <2>4, <2>6
<1>3. ASSUME FlushFail(w)
      PROVE  disk' \in {disk, Empty} /\ Same(Below', disk') /\ Shrinks(View, View') /\ View'.meta \in {View.meta, NoMeta}
  <2>1. disk' \in {disk, Empty} /\ writing' = Empty /\ pending' = Restored BY <1>3 DEF FlushFail
  <2>2. disk' \in Buffer BY <1>0, <2>1, Constants
  <2>3. Below' = disk' BY <2>1, <2>2, EmptyIs DEF Below
  <2>4. Shrinks(View, View') BY <1>3, FlushShrinks, Zenon DEF FlushStep
  <2>5. pending'.meta = IF pending.meta # NoMeta THEN pending.meta ELSE writing.meta
    BY <1>0, <1>00, <2>1, RestoredIs DEF Over
  <2>6. View'.meta = IF pending'.meta # NoMeta THEN pending'.meta ELSE disk'.meta BY <2>3, Zenon DEF View, Over
  <2>7. View'.meta \in {View.meta, NoMeta} BY <2>1, <2>5, <2>6, MetaIs, EmptyIs, Zenon
  <2> QED BY <2>1, <2>3, <2>4, <2>7 DEF Same
<1> QED BY <1>1, <1>2, <1>3

\* What lookups see when the buffers have no mappings
LEMMA ClearSees ==
    ASSUME pending' \in Buffer, disk' \in Buffer, pending'.dom = Empty.dom, writing' = Empty
    PROVE  /\ Same(Below', disk')
           /\ \A a \in Addrs : View'.dom[a] = disk'.dom[a]
           /\ View'.meta = IF pending'.meta # NoMeta THEN pending'.meta ELSE disk'.meta
           /\ pending'.meta = NoMeta => Same(View', disk')
<1>1. Below' = disk' BY EmptyIs, Zenon DEF Below
<1>2. View' = Over(pending', disk') BY <1>1 DEF View
<1>3. /\ \A a \in Addrs : View'.dom[a] = disk'.dom[a]
      /\ View'.meta = IF pending'.meta # NoMeta THEN pending'.meta ELSE disk'.meta
  BY <1>2, OverIs, EmptyIs
<1> QED BY <1>1, <1>3 DEF Same

\* What lookups see when metadata are saved
LEMMA SaveSees ==
    ASSUME pending \in Buffer, NEW m \in Position, pending' = [pending EXCEPT !.meta = m], UNCHANGED <<writing, disk>>
    PROVE  /\ Below' = Below /\ View'.meta = m /\ m # NoMeta /\ pending'.meta = m
           /\ \A a \in Addrs : View'.dom[a] = View.dom[a]
<1>1. pending'.dom = pending.dom /\ pending'.meta = m BY MetaSet
<1>2. Below' = Below BY DEF Below
<1>3. m # NoMeta BY Constants
<1> QED BY <1>1, <1>2, <1>3 DEF View, Over

\* What lookups see when a mapping is queued
LEMMA QueueSees ==
    ASSUME Struct, CreateQueue
    PROVE  /\ Below' = Below /\ View'.meta = View.meta /\ pending'.meta = pending.meta
           /\ \A a \in Addrs : View'.dom[a] = IF a = current.addr THEN [domain |-> store.domain, pos |-> current.pos] ELSE View.dom[a]
<1>0. pending \in Buffer /\ store \in StoreState /\ current \in Position BY DEF Struct, TypeOK
<1>1. store.domain \in Domains /\ store.old \in Domains \cup {None} /\ current.addr \in Addrs
  BY <1>0, Zenon DEF CreateQueue, Struct, Flow, StoreState
<1>2. /\ pending'.meta = pending.meta
      /\ \A a \in Addrs : pending'.dom[a] = IF a = current.addr THEN [domain |-> store.domain, pos |-> current.pos] ELSE pending.dom[a]
  BY <1>0, <1>1, QueueIs DEF CreateQueue
<1>3. [domain |-> store.domain, pos |-> current.pos] # NoOwner BY <1>1, Constants DEF NoOwner
<1>4. Below' = Below BY DEF CreateQueue, Below
<1> QED BY <1>1, <1>2, <1>3, <1>4, Zenon DEF View, Over

\* Mappings that stay where they are
LEMMA SamePos ==
    ASSUME Struct, PosInv, up' => up, current'.pos = current.pos,
           Same(disk', disk) \/ Same(disk', Below),
           Same(Below', Below) \/ Same(Below', View),
           Same(View', View)
    PROVE  /\ up' => Upto(disk', current'.pos) /\ Upto(Below', current'.pos) /\ Upto(View', current'.pos)
           /\ Covered(disk') /\ Covered(Below') /\ Covered(View')
<1>1. /\ up => Upto(disk, current.pos) /\ Upto(Below, current.pos) /\ Upto(View, current.pos)
      /\ Covered(disk) /\ Covered(Below) /\ Covered(View)
  BY Zenon DEF PosInv
<1>2. \/ /\ (\A n : Upto(disk', n) = Upto(disk, n))
         /\ (Covered(disk') <=> Covered(disk))
      \/ /\ (\A n : Upto(disk', n) = Upto(Below, n))
         /\ (Covered(disk') <=> Covered(Below))
  BY SameIs, Zenon
<1>3. \/ /\ (\A n : Upto(Below', n) = Upto(Below, n))
         /\ (Covered(Below') <=> Covered(Below))
      \/ /\ (\A n : Upto(Below', n) = Upto(View, n))
         /\ (Covered(Below') <=> Covered(View))
  BY SameIs, Zenon
<1>4. (\A n : Upto(View', n) = Upto(View, n)) /\ (Covered(View') <=> Covered(View)) BY SameIs
<1> QED BY <1>1, <1>2, <1>3, <1>4, Zenon

\* Mappings that are gone, all but those of the database
LEMMA ClearPos ==
    ASSUME pending' \in Buffer, disk' \in Buffer, pending'.dom = Empty.dom, writing' = Empty, pending'.meta = NoMeta,
           up' => Upto(disk', current'.pos), Covered(disk')
    PROVE  /\ up' => Upto(disk', current'.pos) /\ Upto(Below', current'.pos) /\ Upto(View', current'.pos)
           /\ Covered(disk') /\ Covered(Below') /\ Covered(View')
<1>1. Same(Below', disk') /\ Same(View', disk') BY ClearSees, Zenon
<1>2. (\A n : Upto(Below', n) = Upto(disk', n)) /\ (Covered(Below') <=> Covered(disk')) BY <1>1, SameIs, Zenon
<1>3. (\A n : Upto(View', n) = Upto(disk', n)) /\ (Covered(View') <=> Covered(disk')) BY <1>1, SameIs, Zenon
<1> QED BY <1>2, <1>3, Zenon

\* A flush keeps what is said of positions, and what its caller relies on.
LEMMA FlushPos ==
    ASSUME Struct, PosInv, NEW w \in Callers, FlushStep(w)
    PROVE  PosInv'
<1>0. /\ pending \in Buffer /\ writing \in Buffer /\ disk \in Buffer /\ store \in StoreState /\ closer \in CloserState
      /\ View \in Buffer /\ current.pos \in Nat /\ View.meta.pos \in Nat
  BY ViewIs, PositionIs DEF Struct, TypeOK
<1>1. current' = current /\ reserved' = reserved /\ up /\ up'
  BY DEF FlushStep, FlushNothing, FlushTake, FlushCommit, FlushFail, storeVars
<1>2. /\ UNCHANGED <<store, closer>> \/ Returns(w)
      /\ Returns(w) /\ ~FlushTake(w) => (w = "store" => store.pc = "flush") /\ (w = "close" => closer.pc = "flush")
      /\ FlushTake(w) => UNCHANGED <<store, closer>>
  BY Zenon DEF FlushStep, FlushNothing, FlushTake, FlushCommit, FlushFail, storeVars, Calls, Struct, Flow, Callers
<1>3. /\ store'.domain = store.domain /\ (store'.pc = store.pc \/ (store.pc = "flush" /\ store'.pc = "saved"))
      /\ closer'.meta = closer.meta /\ (closer'.pc = closer.pc \/ (closer.pc = "flush" /\ closer'.pc = "done"))
  BY <1>0, <1>2, ReturnsIs, Zenon
<1>4. Promised' = Promised /\ (Creating' <=> Creating) BY <1>1, <1>3 DEF Promised, Creating
<1>5. View'.meta \in {View.meta, NoMeta}
      /\ (up' => Upto(disk', current'.pos) /\ Upto(Below', current'.pos) /\ Upto(View', current'.pos))
      /\ Covered(disk') /\ Covered(Below') /\ Covered(View')
  <2>1. CASE FlushNothing(w)
    <3>1. disk' = disk /\ Below' = Below /\ View' = View BY <2>1, Zenon DEF FlushNothing, View, Below
    <3> QED BY <1>1, <3>1, Zenon DEF PosInv, Covered, Upto
  <2>2. CASE FlushTake(w) \/ FlushCommit(w)
    <3>1. /\ Same(disk', disk) \/ Same(disk', Below)
          /\ Same(Below', Below) \/ Same(Below', View)
          /\ Same(View', View)
      BY <2>2, FlushSees
    <3>2. View'.meta = View.meta BY <3>1, Zenon DEF Same
    <3> QED BY <1>1, <3>1, <3>2, SamePos, Zenon
  <2>3. CASE FlushFail(w)
    <3>1. disk' \in {disk, Empty} /\ Same(Below', disk') /\ Shrinks(View, View') /\ View'.meta \in {View.meta, NoMeta}
      BY <2>3, FlushSees
    <3>2. Upto(disk', current'.pos) /\ Covered(disk') BY <1>0, <1>1, <3>1, EmptyPositions, EmptyIs, Zenon DEF PosInv
    <3>3. Upto(Below', current'.pos) /\ Covered(Below') BY <3>1, <3>2, SameIs, Zenon
    <3>4. Upto(View', current'.pos) BY <1>0, <1>1, <3>1, UptoIs, Zenon DEF PosInv
    <3>5. ASSUME View'.meta # NoMeta PROVE Upto(View', View'.meta.pos)
      <4>1. View'.meta = View.meta BY <3>1, <3>5, Zenon
      <4>2. Upto(View, View.meta.pos) BY <3>5, <4>1, Zenon DEF PosInv, Covered
      <4> QED BY <1>0, <3>1, <4>1, <4>2, UptoIs
    <3> QED BY <3>1, <3>2, <3>3, <3>4, <3>5 DEF Covered
  <2> QED BY <2>1, <2>2, <2>3, Zenon DEF FlushStep
<1>6. up' /\ View'.meta # NoMeta => current'.pos + Promised' <= View'.meta.pos BY <1>1, <1>4, <1>5, Zenon DEF PosInv
<1>7. Creating' => closer'.pc = "none" BY <1>3, <1>4, Zenon DEF PosInv
<1>8. closer'.pc = "save" => current'.pos <= closer'.meta.pos BY <1>1, <1>3 DEF PosInv
<1> QED BY <1>5, <1>6, <1>7, <1>8, Zenon DEF PosInv

\* Every step keeps what is said of positions while at most one transaction
\* has failed.
LEMMA PosStep ==
    ASSUME Struct, PosInv, ~LateQueries, failures = 0 => SoundInv, [Next]_vars, failures' <= 1
    PROVE  PosInv'
<1>0. /\ pending \in Buffer /\ writing \in Buffer /\ disk \in Buffer /\ store \in StoreState /\ closer \in CloserState
      /\ current \in Position /\ reserved \in Nat /\ failures \in Nat /\ up \in BOOLEAN
      /\ Reserve \in Nat \ {0}
  BY FakeIPAssumption DEF Struct, TypeOK
<1>00. /\ View \in Buffer /\ Below \in Buffer
       /\ current.pos \in Nat /\ closer.meta.pos \in Nat /\ View.meta.pos \in Nat /\ Promised \in Nat
  BY ViewIs, PositionIs DEF Struct, TypeOK
<1>p. /\ up => Upto(disk, current.pos) /\ Upto(Below, current.pos) /\ Upto(View, current.pos)
      /\ Covered(disk) /\ Covered(Below) /\ Covered(View)
      /\ up /\ View.meta # NoMeta => current.pos + Promised <= View.meta.pos
      /\ Creating => closer.pc = "none"
      /\ closer.pc = "save" => current.pos <= closer.meta.pos
  BY DEF PosInv
<1>t. TypeOK' BY TypeStep
<1>i. Idle.pc = "idle" /\ Idle.domain = None /\ NoClose.pc = "none" BY DEF Idle, NoClose
<1> USE DEF FakeIPSaveMetadata, FakeIPReset, FakeIPMetadata, storeVars
<1>s. ASSUME NEW m \in Position, pending' = [pending EXCEPT !.meta = m], UNCHANGED <<up, current, writing, disk>>, up,
             current.pos <= m.pos
      PROVE  /\ up' => Upto(disk', current'.pos) /\ Upto(Below', current'.pos) /\ Upto(View', current'.pos)
             /\ Covered(disk') /\ Covered(Below') /\ Covered(View')
             /\ View'.meta = m
  <2>1. Below' = Below /\ View'.meta = m /\ \A a \in Addrs : View'.dom[a] = View.dom[a] BY <1>0, <1>s, SaveSees
  <2>2. \A n : Upto(View', n) = Upto(View, n) BY <2>1 DEF Upto
  <2>3. m.pos \in Nat BY DEF Position
  <2>4. Upto(View, m.pos) BY <1>00, <1>p, <1>s, <2>3, UptoIs
  <2>5. Covered(View') BY <2>1, <2>2, <2>4 DEF Covered
  <2>6. Covered(disk') /\ Covered(Below') BY <1>p, <1>s, <2>1, ZenonT(30) DEF Covered, Upto
  <2> QED BY <1>p, <1>s, <2>1, <2>2, <2>5, <2>6
<1>u. ASSUME UNCHANGED <<up, pending, writing, disk>>, current'.pos = current.pos
      PROVE  /\ up' => Upto(disk', current'.pos) /\ Upto(Below', current'.pos) /\ Upto(View', current'.pos)
             /\ Covered(disk') /\ Covered(Below') /\ Covered(View')
             /\ View' = View
  <2>1. disk' = disk /\ Below' = Below /\ View' = View BY <1>u DEF View, Below
  <2>2. Same(disk', disk) /\ Same(Below', Below) /\ Same(View', View) BY <2>1, ZenonT(30) DEF Same
  <2> QED BY <1>u, <2>1, <2>2, SamePos
<1>1. ASSUME NEW d \in Domains, Create(d) PROVE PosInv'
  <2>1. UNCHANGED <<up, pending, writing, disk, current, closer, reserved>> /\ closer.pc = "none" /\ reserved > 0
    BY <1>1 DEF Create, CreateAt, MayQuery
  <2>2. Promised = reserved /\ Promised' = reserved BY <1>0, <2>1 DEF Promised
  <2> QED BY <1>p, <1>u, <2>1, <2>2 DEF PosInv
<1>2. ASSUME NEW d \in Domains, CreateReserve(d) PROVE PosInv'
  <2>1. UNCHANGED <<up, writing, disk, current, closer, reserved>> /\ closer.pc = "none" /\ reserved = 0 /\ up
        /\ pending' = [pending EXCEPT !.meta = Ahead] /\ store' = [Idle EXCEPT !.pc = "flush", !.domain = d]
    BY <1>2 DEF CreateReserve, CreateAt, MayQuery
  <2>2. Ahead \in Position /\ Ahead.pos = current.pos + Reserve BY <1>0, AheadAt
  <2>3. Promised' = Reserve BY <2>1, Constants DEF Promised, Creating, Idle
  <2>4. /\ up' => Upto(disk', current'.pos) /\ Upto(Below', current'.pos) /\ Upto(View', current'.pos)
        /\ Covered(disk') /\ Covered(Below') /\ Covered(View')
        /\ View'.meta = Ahead
    BY <1>0, <1>00, <1>s, <2>1, <2>2
  <2>5. current'.pos + Promised' <= View'.meta.pos BY <1>0, <1>00, <2>1, <2>2, <2>3, <2>4
  <2> QED BY <2>1, <2>4, <2>5 DEF PosInv
<1>3. CASE CreateNext
  <2>1. /\ UNCHANGED <<up, pending, writing, disk, closer>> /\ up /\ Creating /\ closer.pc = "none" /\ store.pc = "saved"
        /\ store'.pc = "queue" /\ reserved' = (IF reserved = 0 THEN Reserve ELSE reserved) - 1
    BY <1>0, <1>3, <1>p DEF CreateNext, Creating, StoreState
  <2>2. current'.pos = current.pos + 1 /\ current'.pos \in Nat BY <1>0, <1>00, <1>3, AdvanceAt DEF CreateNext
  <2>3. disk' = disk /\ Below' = Below /\ View' = View BY <2>1, Zenon DEF View, Below
  <2>4. current'.pos + Promised' = current.pos + Promised BY <1>0, <1>00, <2>1, <2>2 DEF Promised
  <2>5. Upto(disk, current'.pos) /\ Upto(Below, current'.pos) /\ Upto(View, current'.pos)
    <3>1. current.pos <= current'.pos BY <1>00, <2>2
    <3>2. ASSUME NEW f \in Buffer, Upto(f, current.pos) PROVE Upto(f, current'.pos) BY <1>00, <2>2, <3>1, <3>2, UptoIs, Zenon
    <3> QED BY <1>0, <1>00, <1>p, <2>1, <3>2, Zenon
  <2> QED BY <1>p, <2>1, <2>3, <2>4, <2>5, Zenon DEF PosInv, Covered
<1>4. CASE CreateQueue
  <2>1. UNCHANGED <<up, writing, disk, current, closer, reserved>> /\ up /\ store.pc = "queue" /\ store' = Idle
    BY <1>4 DEF CreateQueue
  <2>2. Promised' = Promised BY <1>i, <2>1, Zenon DEF Promised, Creating
  <2>3. /\ Below' = Below /\ View'.meta = View.meta
        /\ \A a \in Addrs : View'.dom[a] = IF a = current.addr THEN [domain |-> store.domain, pos |-> current.pos] ELSE View.dom[a]
    BY <1>4, QueueSees
  <2>4. ASSUME NEW n \in Nat, Upto(View, n), current.pos <= n PROVE Upto(View', n) BY <2>3, <2>4, SMTT(30) DEF Upto
  <2>5. Upto(View', current'.pos) BY <1>00, <1>p, <2>1, <2>4
  <2>6. ASSUME View'.meta # NoMeta PROVE Upto(View', View'.meta.pos)
    <3>1. current.pos <= View.meta.pos BY <1>00, <1>p, <2>1, <2>3, <2>6
    <3> QED BY <1>00, <1>p, <2>3, <2>4, <2>6, <3>1, ZenonT(30) DEF Covered
  <2> QED BY <1>i, <1>p, <2>1, <2>2, <2>3, <2>5, <2>6, Zenon DEF PosInv, Covered, Creating
<1>5. CASE ResetOK
  <2>1. /\ pending' = [Empty EXCEPT !.meta = First] /\ disk' = Empty /\ writing' = Empty /\ current' = First /\ reserved' = 0
        /\ store' = [Idle EXCEPT !.pc = "flush"] /\ closer' = closer
    BY <1>5 DEF ResetOK, Struct, Flow
  <2>2. pending' \in Buffer /\ pending'.dom = Empty.dom /\ pending'.meta = First BY <2>1, MetaSet, Constants
  <2>3. /\ Same(Below', disk') /\ \A a \in Addrs : View'.dom[a] = disk'.dom[a]
        /\ View'.meta = First
    BY <2>1, <2>2, ClearSees, Constants
  <2>4. First.pos = 0 BY DEF First
  <2>5. Upto(disk', 0) /\ Covered(disk') /\ Upto(View', 0) BY <2>1, <2>3, EmptyPositions, EmptyIs
  <2>6. Upto(Below', 0) /\ Covered(Below') BY <2>3, <2>5, SameIs
  <2>7. Covered(View') BY <2>3, <2>4, <2>5 DEF Covered
  <2>8. ~Creating' /\ Promised' = 0 BY <2>1 DEF Creating, Promised, Idle
  <2>9. current'.pos = 0 /\ View'.meta.pos = 0 BY <2>1, <2>3, <2>4
  <2> QED BY <1>00, <2>1, <2>5, <2>6, <2>7, <2>8, <2>9 DEF PosInv
<1>6. CASE ResetFail
  <2>1. /\ pending' = [Empty EXCEPT !.meta = NoMeta] /\ disk' \in {disk, Empty} /\ writing' = Empty /\ failures = 0
        /\ UNCHANGED <<up, current, reserved, store, closer>> /\ store = Idle /\ up
    BY <1>0, <1>6 DEF ResetFail, Struct, Flow
  <2>2. pending' \in Buffer /\ pending'.dom = Empty.dom /\ pending'.meta = NoMeta BY <2>1, MetaSet, Constants
  <2>3. disk' \in Buffer /\ Upto(disk', current'.pos) /\ Covered(disk')
    BY <1>0, <1>00, <1>p, <2>1, EmptyPositions, EmptyIs, Constants
  <2>4. View'.meta = disk'.meta BY <2>1, <2>2, <2>3, ClearSees
  <2>5. Promised' = Room BY <1>i, <2>1 DEF Promised, Room, Creating
  <2>6. disk.meta # NoMeta => current.pos + Room <= disk.meta.pos BY <2>1 DEF SoundInv
  <2>7. View'.meta # NoMeta => current'.pos + Promised' <= View'.meta.pos BY <2>1, <2>4, <2>5, <2>6, EmptyIs
  <2>8. ~Creating' BY <1>i, <2>1 DEF Creating
  <2>9. /\ up' => Upto(disk', current'.pos) /\ Upto(Below', current'.pos) /\ Upto(View', current'.pos)
        /\ Covered(disk') /\ Covered(Below') /\ Covered(View')
    BY <2>1, <2>2, <2>3, ClearPos
  <2> QED BY <1>p, <2>1, <2>7, <2>8, <2>9 DEF PosInv
<1>7. CASE ResetSaved
  <2>1. UNCHANGED <<up, pending, writing, disk, current, closer, reserved>> /\ store' = Idle /\ ~Creating
    BY <1>7, Zenon DEF ResetSaved, Creating
  <2>2. Promised' = Promised /\ ~Creating' BY <1>i, <2>1 DEF Promised, Creating
  <2> QED BY <1>p, <1>u, <2>1, <2>2, Zenon DEF PosInv
<1>8. CASE Close
  <2>1. UNCHANGED <<up, pending, writing, disk, current, reserved, store>> /\ store = Idle /\ closer'.pc = "save" /\ closer'.meta = current /\ up
    BY <1>8 DEF Close
  <2>2. Promised' = 0 /\ ~Creating' BY <1>i, <2>1, Zenon DEF Promised, Creating
  <2>3. View'.meta # NoMeta => current'.pos + Promised' <= View'.meta.pos
    <3>1. View' = View /\ (View.meta # NoMeta => current.pos + Promised <= View.meta.pos) BY <1>p, <1>u, <2>1, Zenon
    <3>2. current.pos \in Nat /\ Promised \in Nat /\ View.meta.pos \in Nat BY <1>00, Zenon
    <3>3. View.meta # NoMeta => current.pos + 0 <= View.meta.pos BY <3>1, <3>2, AddLess, Zenon
    <3> QED BY <2>1, <2>2, <3>1, <3>3, Zenon
  <2>4. current'.pos <= closer'.meta.pos BY <1>00, <2>1
  <2> QED BY <1>p, <1>u, <2>1, <2>2, <2>3, <2>4, Zenon DEF PosInv
<1>9. CASE CloseSave
  <2>1. /\ UNCHANGED <<up, writing, disk, current, reserved, store>> /\ up /\ closer.pc = "save" /\ closer'.pc = "flush"
        /\ pending' = [pending EXCEPT !.meta = closer.meta] /\ closer.meta \in Position
    BY <1>0, <1>9 DEF CloseSave, CloserState, Struct, Flow
  <2>2. Promised' = 0 /\ ~Creating' BY <1>p, <2>1 DEF Promised, Creating
  <2>3. /\ up' => Upto(disk', current'.pos) /\ Upto(Below', current'.pos) /\ Upto(View', current'.pos)
        /\ Covered(disk') /\ Covered(Below') /\ Covered(View')
        /\ View'.meta = closer.meta
    BY <1>p, <1>s, <2>1
  <2>4. current'.pos + Promised' <= View'.meta.pos BY <1>00, <1>p, <2>1, <2>2, <2>3
  <2> QED BY <2>1, <2>2, <2>3, <2>4 DEF PosInv
<1>10. ASSUME NEW w \in Callers, FlushStep(w) PROVE PosInv' BY <1>10, FlushPos, Zenon
<1>11. CASE StartSaved \/ StartReset
  <2>1. /\ pending = Empty /\ writing = Empty /\ store = Idle /\ closer = NoClose /\ reserved = 0
        /\ UNCHANGED <<pending, writing, store, closer, reserved>>
    BY <1>11 DEF StartSaved, StartReset, Struct, Flow
  <2>2. pending' \in Buffer /\ pending'.dom = Empty.dom /\ pending'.meta = NoMeta /\ disk' \in Buffer
    BY <1>t, <2>1, EmptyIs, Zenon DEF TypeOK
  <2>3. View'.meta = disk'.meta BY <2>1, <2>2, ClearSees
  <2>4. Upto(disk', current'.pos) /\ Covered(disk') /\ (disk'.meta # NoMeta => current'.pos <= disk'.meta.pos)
    <3>1. CASE StartSaved
      <4>1. disk' = disk /\ disk.meta # NoMeta /\ current' = disk.meta /\ disk.meta.pos \in Nat
        BY <3>1, PositionIs, ZenonT(30) DEF StartSaved, Struct
      <4> QED BY <1>p, <4>1 DEF Covered
    <3>2. CASE StartReset
      <4>1. current'.pos = 0 BY <3>2 DEF StartReset, First
      <4>2. CASE disk' = Empty
        <5>1. Upto(disk', 0) /\ Covered(disk') /\ disk'.meta = NoMeta BY <4>2, EmptyPositions, EmptyIs, Zenon
        <5> QED BY <4>1, <5>1, Zenon
      <4>3. CASE disk' = disk /\ disk.meta = NoMeta /\ failures = 0
        <5>1. \A a \in Addrs : disk.dom[a] = NoOwner BY <4>3 DEF SoundInv, Bare
        <5>2. Upto(disk, 0) BY <5>1, Marks DEF Upto
        <5> QED BY <1>p, <4>1, <4>3, <5>2, Zenon
      <4> QED BY <1>0, <3>2, <4>2, <4>3 DEF StartReset
    <3> QED BY <1>11, <3>1, <3>2, Zenon
  <2>5. Promised' = 0 /\ ~Creating' BY <1>i, <2>1 DEF Promised, Creating
  <2>6. current'.pos \in Nat BY <1>t, PositionIs, ZenonT(30) DEF TypeOK, Position
  <2>7. /\ up' => Upto(disk', current'.pos) /\ Upto(Below', current'.pos) /\ Upto(View', current'.pos)
        /\ Covered(disk') /\ Covered(Below') /\ Covered(View')
    BY <2>1, <2>2, <2>4, ClearPos
  <2>8. View'.meta # NoMeta => current'.pos + Promised' <= View'.meta.pos
    <3>1. current'.pos + Promised' = current'.pos BY <2>5, <2>6, AddNothing, Zenon
    <3> QED BY <2>3, <2>4, <3>1, Zenon
  <2> QED BY <1>i, <2>1, <2>5, <2>7, <2>8, Zenon DEF PosInv
<1>12. CASE Crash
  <2>1. /\ pending' = Empty /\ writing' = Empty /\ disk' = disk /\ ~up' /\ store' = Idle /\ closer' = NoClose
    BY <1>12, Zenon DEF Crash
  <2>2. pending' \in Buffer /\ pending'.dom = Empty.dom /\ pending'.meta = NoMeta /\ disk' \in Buffer
    BY <1>0, <2>1, EmptyIs, Constants, Zenon
  <2>3. Covered(disk') /\ Covered(Below') /\ Covered(View')
    <3>1. Covered(disk') BY <1>p, <2>1, Zenon DEF Covered
    <3> QED BY <2>1, <2>2, <3>1, ClearPos, Zenon
  <2> QED BY <1>i, <2>1, <2>3 DEF PosInv, Creating
<1>13. CASE UNCHANGED vars
  <2>1. UNCHANGED <<up, pending, writing, disk, current, store, closer, reserved>> BY <1>13 DEF vars
  <2>2. Promised' = Promised /\ (Creating' <=> Creating) BY <2>1 DEF Promised, Creating
  <2> QED BY <1>p, <1>u, <2>1, <2>2, Zenon DEF PosInv
<1> QED BY <1>1, <1>2, <1>3, <1>4, <1>5, <1>6, <1>7, <1>8, <1>9, <1>10, <1>11, <1>12, <1>13, SMTT(30)
        DEF Next, StoreStep, Callers

\* A buffer without mappings over a database
LEMMA ClearBare ==
    ASSUME pending' \in Buffer, disk' \in Buffer, pending'.dom = Empty.dom, writing' = Empty, Bare(disk')
    PROVE  Bare(Below') /\ Bare(View')
<1>1. /\ Same(Below', disk') /\ \A a \in Addrs : View'.dom[a] = disk'.dom[a]
      /\ View'.meta = IF pending'.meta # NoMeta THEN pending'.meta ELSE disk'.meta
  BY ClearSees
<1> QED BY <1>1, SameIs, Zenon DEF Bare

\* A flush that does not fail keeps the reservation in place.
LEMMA FlushSound ==
    ASSUME Struct, PosInv, SoundInv, NEW w \in Callers, FlushNothing(w) \/ FlushTake(w) \/ FlushCommit(w)
    PROVE  SoundInv'
<1>0. /\ pending \in Buffer /\ writing \in Buffer /\ disk \in Buffer /\ store \in StoreState /\ closer \in CloserState
  BY DEF Struct, TypeOK
<1>1. current' = current /\ reserved' = reserved /\ up /\ up'
  BY DEF FlushNothing, FlushTake, FlushCommit, storeVars
<1>2. /\ UNCHANGED <<store, closer>> \/ Returns(w)
      /\ Returns(w) /\ ~FlushTake(w) => (w = "store" => store.pc = "flush") /\ (w = "close" => closer.pc = "flush")
      /\ FlushTake(w) => UNCHANGED <<store, closer>>
  BY Zenon DEF FlushNothing, FlushTake, FlushCommit, storeVars, Calls, Struct, Flow, Callers
<1>3. /\ store'.domain = store.domain /\ (store'.pc = store.pc \/ (store.pc = "flush" /\ store'.pc = "saved" /\ w = "store" /\ ~FlushTake(w)))
      /\ closer'.pc = closer.pc \/ (closer.pc = "flush" /\ closer'.pc = "done")
  BY <1>0, <1>2, ReturnsIs
<1>4. Room' = Room /\ (Creating' <=> Creating) BY <1>1, <1>3, Zenon DEF Room, Creating
<1>5. /\ \A x \in {pending, writing, disk} : x.meta # NoMeta => current.pos + Room <= x.meta.pos
      /\ Creating /\ flush = "store" => pending.meta = NoMeta
      /\ Creating /\ store.pc = "saved" /\ reserved = 0 => pending.meta = NoMeta /\ writing.meta = NoMeta
      /\ Bare(disk) /\ Bare(Below) /\ Bare(View)
      /\ reserved > 0 \/ Creating => View.meta # NoMeta
  BY <1>1 DEF SoundInv
<1>6. CASE FlushNothing(w)
  <2>1. UNCHANGED <<pending, writing, disk, flush>> /\ flush = "none" /\ writing = Empty /\ pending.meta = NoMeta
    BY <1>0, <1>6, Zenon DEF FlushNothing, HasWrites, Struct, Flow
  <2>2. View' = View /\ Below' = Below BY <2>1 DEF View, Below
  <2>3. writing.meta = NoMeta BY <2>1, EmptyIs, Zenon
  <2>4. Bare(disk') /\ Bare(Below') /\ Bare(View') BY <1>5, <2>1, <2>2, Zenon DEF Bare
  <2> QED BY <1>1, <1>4, <1>5, <2>1, <2>2, <2>3, <2>4, Zenon DEF SoundInv
<1>7. CASE FlushTake(w)
  <2>1. writing' = pending /\ pending' = Empty /\ disk' = disk /\ UNCHANGED <<store, closer>> BY <1>7 DEF FlushTake, storeVars
  <2>2. Same(Below', View) /\ Same(View', View) BY <1>7, FlushSees, Zenon
  <2>3. Bare(Below') /\ Bare(View') /\ View'.meta = View.meta BY <1>5, <2>2, SameIs, Zenon DEF Same
  <2>4. Bare(disk') BY <1>5, <2>1 DEF Bare
  <2>5. Empty.meta = NoMeta BY EmptyIs
  <2> QED BY <1>1, <1>4, <1>5, <2>1, <2>3, <2>4, <2>5, Zenon DEF SoundInv
<1>8. CASE FlushCommit(w)
  <2>1. writing' = Empty /\ pending' = pending /\ flush' = "none" /\ flush = w BY <1>8 DEF FlushCommit
  <2>2. Same(disk', Below) /\ Same(Below', Below) /\ Same(View', View) BY <1>8, FlushSees, Zenon
  <2>3. Bare(disk') /\ Bare(Below') /\ Bare(View') /\ View'.meta = View.meta /\ disk'.meta = Below.meta
    BY <1>5, <2>2, SameIs, Zenon DEF Same
  <2>4. Empty.meta = NoMeta BY EmptyIs
  <2>5. Below.meta = IF writing.meta # NoMeta THEN writing.meta ELSE disk.meta BY MetaIs
  <2>6. \A x \in {pending', writing', disk'} : x.meta # NoMeta => current'.pos + Room' <= x.meta.pos
    BY <1>1, <1>4, <1>5, <2>1, <2>3, <2>4, <2>5, ZenonT(30)
  <2>7. Creating' /\ store'.pc = "saved" /\ reserved' = 0 => pending'.meta = NoMeta /\ writing'.meta = NoMeta
    BY <1>1, <1>3, <1>4, <1>5, <2>1, <2>4, SMTT(30)
  <2> QED BY <1>1, <1>4, <1>5, <2>1, <2>3, <2>6, <2>7, Zenon DEF SoundInv
<1> QED BY <1>6, <1>7, <1>8

\* Every step that does not fail keeps the reservation in place.
LEMMA SoundStep ==
    ASSUME Struct, PosInv, SoundInv, ~LateQueries, failures = 0, [Next]_vars, failures' = 0
    PROVE  SoundInv'
<1>0. /\ pending \in Buffer /\ writing \in Buffer /\ disk \in Buffer /\ store \in StoreState /\ closer \in CloserState
      /\ current \in Position /\ reserved \in Nat /\ up \in BOOLEAN
      /\ Reserve \in Nat \ {0}
  BY FakeIPAssumption, ZenonT(30) DEF Struct, TypeOK
<1>00. /\ current.pos \in Nat /\ closer.meta.pos \in Nat /\ View.meta.pos \in Nat /\ Room \in Nat
       /\ pending.meta.pos \in Nat /\ writing.meta.pos \in Nat /\ disk.meta.pos \in Nat
  BY PositionIs DEF Struct, TypeOK
<1>s. /\ up => \A x \in {pending, writing, disk} : x.meta # NoMeta => current.pos + Room <= x.meta.pos
      /\ Creating /\ flush = "store" => pending.meta = NoMeta
      /\ Creating /\ store.pc = "saved" /\ reserved = 0 => pending.meta = NoMeta /\ writing.meta = NoMeta
      /\ Bare(disk) /\ Bare(Below) /\ Bare(View)
      /\ reserved > 0 \/ Creating => View.meta # NoMeta
  BY DEF SoundInv
<1>i. Idle.pc = "idle" /\ Idle.domain = None /\ NoClose.pc = "none" BY DEF Idle, NoClose
<1> USE DEF FakeIPSaveMetadata, FakeIPReset, FakeIPMetadata, storeVars
<1>m. ASSUME NEW m \in Position, pending' = [pending EXCEPT !.meta = m], UNCHANGED <<writing, disk>>
      PROVE  Bare(disk') /\ Bare(Below') /\ Bare(View') /\ View'.meta # NoMeta /\ pending'.meta = m
  <2>1. Below' = Below /\ View'.meta = m /\ m # NoMeta /\ pending'.meta = m BY <1>0, <1>m, SaveSees, Zenon
  <2> QED BY <1>m, <1>s, <2>1 DEF Bare
<1>u. ASSUME UNCHANGED <<pending, writing, disk>>
      PROVE  Bare(disk') /\ Bare(Below') /\ Bare(View') /\ View' = View
  <2>1. disk' = disk /\ Below' = Below /\ View' = View BY <1>u, ZenonT(30) DEF View, Below
  <2> QED BY <1>s, <2>1 DEF Bare
<1>1. ASSUME NEW d \in Domains, Create(d) PROVE SoundInv'
  <2>1. /\ UNCHANGED <<up, pending, writing, disk, flush, current, closer, reserved>> /\ reserved > 0 /\ store = Idle
    BY <1>1 DEF Create, CreateAt
  <2>2. Room' = Room /\ flush # "store" BY <1>i, <2>1 DEF Room, Struct, Flow
  <2> QED BY <1>0, <1>s, <1>u, <2>1, <2>2 DEF SoundInv
<1>2. ASSUME NEW d \in Domains, CreateReserve(d) PROVE SoundInv'
  <2>1. /\ UNCHANGED <<up, writing, disk, flush, current, closer, reserved>> /\ reserved = 0 /\ store = Idle /\ store'.pc = "flush"
        /\ pending' = [pending EXCEPT !.meta = Ahead]
    BY <1>2 DEF CreateReserve, CreateAt, Idle
  <2>2. Room' = Room /\ Room = 0 /\ flush # "store" BY <1>i, <2>1 DEF Room, Struct, Flow
  <2>3. Ahead \in Position /\ Ahead.pos = current.pos + Reserve BY <1>0, AheadAt
  <2>4. Bare(disk') /\ Bare(Below') /\ Bare(View') /\ View'.meta # NoMeta /\ pending'.meta = Ahead BY <1>m, <2>1, <2>3
  <2>5. up' => \A x \in {pending', writing', disk'} : x.meta # NoMeta => current'.pos + Room' <= x.meta.pos
    <3>1. up' => \A x \in {writing', disk'} : x.meta # NoMeta => current'.pos + Room' <= x.meta.pos BY <1>s, <2>1, <2>2
    <3>2. current'.pos + Room' <= pending'.meta.pos BY <1>0, <1>00, <2>1, <2>2, <2>3, <2>4
    <3> QED BY <3>1, <3>2
  <2> QED BY <2>1, <2>2, <2>4, <2>5 DEF SoundInv
<1>3. CASE CreateNext
  <2>1. /\ UNCHANGED <<up, pending, writing, disk, flush, closer>> /\ up /\ Creating /\ store.pc = "saved"
        /\ store'.pc = "queue" /\ reserved' = (IF reserved = 0 THEN Reserve ELSE reserved) - 1
    BY <1>0, <1>3 DEF CreateNext, Creating, StoreState
  <2>2. current'.pos = current.pos + 1 BY <1>0, <1>3, AdvanceAt, ZenonT(30) DEF CreateNext
  <2>3. closer.pc = "none" /\ flush # "store" BY <2>1 DEF PosInv, Struct, Flow
  <2>4. CASE reserved > 0
    <3>1. current'.pos + Room' = current.pos + Room
      <4>1. Room = reserved /\ Room' = reserved' BY <2>1, <2>3, Zenon DEF Room
      <4>2. reserved \in Nat /\ current.pos \in Nat BY <1>0, <1>00, Zenon
      <4>3. reserved # 0 BY <2>4, <4>2
      <4>4. reserved' = reserved - 1 BY <2>1, <4>3, Zenon
      <4> QED BY <2>2, <4>1, <4>2, <4>4
    <3> QED BY <1>s, <1>u, <2>1, <2>3, <3>1, Zenon DEF SoundInv
  <2>5. CASE reserved = 0
    <3>1. pending.meta = NoMeta /\ writing.meta = NoMeta BY <1>s, <2>1, <2>5, Zenon
    <3>2. View.meta = disk.meta BY <3>1, MetaIs, Zenon
    <3>3. Promised = Reserve BY <2>1, <2>3, <2>5, Zenon DEF Promised
    <3>4. disk.meta # NoMeta => current.pos + Reserve <= disk.meta.pos BY <2>1, <3>2, <3>3, ZenonT(30) DEF PosInv
    <3>5. current'.pos + Room' = current.pos + Reserve BY <1>0, <1>00, <2>1, <2>2, <2>3, <2>5 DEF Room
    <3>6. \A x \in {pending', writing', disk'} : x.meta # NoMeta => current'.pos + Room' <= x.meta.pos
      BY <2>1, <3>1, <3>4, <3>5, Zenon
    <3> QED BY <1>s, <1>u, <2>1, <2>3, <3>6, Zenon DEF SoundInv
  <2> QED BY <1>0, <2>4, <2>5
<1>4. CASE CreateQueue
  <2>1. /\ UNCHANGED <<up, writing, disk, flush, current, closer, reserved>> /\ up /\ Creating /\ store' = Idle
    BY <1>4 DEF CreateQueue, Creating, Struct, Flow
  <2>2. Below' = Below /\ View'.meta = View.meta BY <1>4, QueueSees
  <2>3. pending'.meta = pending.meta BY <1>4, QueueSees, Zenon
  <2>4. View'.meta # NoMeta BY <1>s, <2>1, <2>2, Zenon
  <2>5. Bare(disk') /\ Bare(Below') /\ Bare(View') BY <1>s, <2>1, <2>2, <2>4, ZenonT(30) DEF Bare
  <2>6. ~Creating' /\ Room' = Room BY <1>i, <2>1, Zenon DEF Creating, Room
  <2> QED BY <1>s, <2>1, <2>3, <2>4, <2>5, <2>6, Zenon DEF SoundInv
<1>5. CASE ResetOK
  <2>1. /\ pending' = [Empty EXCEPT !.meta = First] /\ disk' = Empty /\ writing' = Empty /\ current' = First /\ reserved' = 0
        /\ store' = [Idle EXCEPT !.pc = "flush"] /\ closer' = closer
    BY <1>5 DEF ResetOK, Struct, Flow
  <2>2. pending' \in Buffer /\ pending'.dom = Empty.dom /\ pending'.meta = First BY <2>1, MetaSet, Constants
  <2>3. Bare(disk') /\ Bare(Below') /\ Bare(View') BY <2>1, <2>2, EmptyPositions, ClearBare, Constants
  <2>4. ~Creating' /\ Room' = 0 /\ First.pos = 0 BY <2>1, Zenon DEF Creating, Room, Idle, First
  <2> QED BY <2>1, <2>2, <2>3, <2>4, EmptyIs DEF SoundInv
<1>6. CASE ResetSaved
  <2>1. /\ UNCHANGED <<up, pending, writing, disk, flush, current, closer, reserved>> /\ store' = Idle BY <1>6 DEF ResetSaved
  <2>2. ~Creating' /\ Room' = Room BY <1>i, <2>1, ZenonT(30) DEF Creating, Room
  <2> QED BY <1>s, <1>u, <2>1, <2>2 DEF SoundInv
<1>7. CASE Close
  <2>1. /\ UNCHANGED <<up, pending, writing, disk, flush, current, store, reserved>> /\ store = Idle /\ closer'.pc = "save" /\ up
    BY <1>7 DEF Close
  <2>2. ~Creating' /\ Room' = 0 BY <1>i, <2>1, Zenon DEF Creating, Room
  <2>3. \A x \in {pending', writing', disk'} : x.meta # NoMeta => current'.pos + Room' <= x.meta.pos
    BY <1>00, <1>s, <2>1, <2>2
  <2> QED BY <1>s, <1>u, <2>1, <2>2, <2>3 DEF SoundInv
<1>8. CASE CloseSave
  <2>1. /\ UNCHANGED <<up, writing, disk, flush, current, reserved, store>> /\ up /\ closer.pc = "save" /\ closer'.pc = "flush"
        /\ pending' = [pending EXCEPT !.meta = closer.meta] /\ closer.meta \in Position
    BY <1>0, <1>8 DEF CloseSave, CloserState, Struct, Flow
  <2>2. ~Creating' /\ Room' = 0 /\ Room = 0 BY <2>1 DEF Creating, Room, PosInv
  <2>3. Bare(disk') /\ Bare(Below') /\ Bare(View') /\ View'.meta # NoMeta /\ pending'.meta = closer.meta BY <1>m, <2>1
  <2>4. \A x \in {pending', writing', disk'} : x.meta # NoMeta => current'.pos + Room' <= x.meta.pos
    <3>1. \A x \in {writing', disk'} : x.meta # NoMeta => current'.pos + Room' <= x.meta.pos BY <1>s, <2>1, <2>2
    <3>2. current'.pos + Room' <= pending'.meta.pos BY <1>00, <2>1, <2>2, <2>3 DEF PosInv
    <3> QED BY <3>1, <3>2
  <2> QED BY <2>2, <2>3, <2>4, Zenon DEF SoundInv
<1>9. ASSUME NEW w \in Callers, FlushNothing(w) \/ FlushTake(w) \/ FlushCommit(w) PROVE SoundInv' BY <1>9, FlushSound, Zenon
<1>10. CASE StartSaved \/ StartReset
  <2>1. /\ pending = Empty /\ writing = Empty /\ store = Idle /\ closer = NoClose /\ reserved = 0
        /\ UNCHANGED <<pending, writing, store, closer, reserved, flush>>
    BY <1>10 DEF StartSaved, StartReset, Struct, Flow
  <2>2. pending' \in Buffer /\ pending'.dom = Empty.dom /\ pending'.meta = NoMeta /\ writing'.meta = NoMeta
    BY <1>0, <2>1, EmptyIs
  <2>3. disk' \in Buffer /\ Bare(disk') /\ (disk'.meta # NoMeta => current' = disk'.meta /\ current'.pos \in Nat)
    <3>1. CASE StartSaved BY <1>0, <1>00, <1>s, <3>1, Zenon DEF StartSaved, Bare
    <3>2. CASE StartReset
      <4>1. failures' # failures + 1 OBVIOUS
      <4>2. disk' = Empty BY <3>2, <4>1, Zenon DEF StartReset
      <4> QED BY <4>2, EmptyPositions, EmptyIs, Constants, Zenon
    <3> QED BY <1>10, <3>1, <3>2
  <2>4. Bare(Below') /\ Bare(View') BY <2>1, <2>2, <2>3, ClearBare
  <2>5. ~Creating' /\ Room' = 0 BY <1>i, <2>1 DEF Creating, Room
  <2>6. \A x \in {pending', writing', disk'} : x.meta # NoMeta => current'.pos + Room' <= x.meta.pos
    <3>1. ASSUME disk'.meta # NoMeta PROVE current'.pos + Room' <= disk'.meta.pos
      <4>1. current' = disk'.meta /\ current'.pos \in Nat BY <2>3, <3>1, Zenon
      <4>2. current'.pos + Room' <= current'.pos BY <2>5, <4>1, AddNothing, Zenon
      <4> QED BY <4>1, <4>2, Zenon
    <3> QED BY <2>2, <3>1, Zenon
  <2>7. ~(reserved' > 0) BY <2>1, SMTT(30)
  <2> QED BY <2>1, <2>3, <2>4, <2>5, <2>6, <2>7, ZenonT(30) DEF SoundInv
<1>11. CASE Crash
  <2>1. pending' = Empty /\ writing' = Empty /\ disk' = disk /\ ~up' /\ store' = Idle /\ reserved' = 0 BY <1>11 DEF Crash
  <2>2. pending' \in Buffer /\ pending'.dom = Empty.dom BY <2>1, Constants, Zenon
  <2>3. Bare(disk') BY <1>s, <2>1 DEF Bare
  <2>4. Bare(Below') /\ Bare(View') BY <1>0, <2>1, <2>2, <2>3, ClearBare
  <2>5. ~Creating' BY <1>i, <2>1, Zenon DEF Creating
  <2> QED BY <2>1, <2>3, <2>4, <2>5 DEF SoundInv
<1>12. CASE UNCHANGED vars
  <2>1. UNCHANGED <<up, pending, writing, disk, flush, current, store, closer, reserved>> BY <1>12 DEF vars
  <2>2. Room' = Room /\ (Creating' <=> Creating) BY <2>1 DEF Room, Creating
  <2> QED BY <1>s, <1>u, <2>1, <2>2, Zenon DEF SoundInv
<1>13. ASSUME NEW w \in Callers, FlushFail(w) PROVE FALSE BY <1>13 DEF FlushFail
<1>14. CASE ResetFail BY <1>14 DEF ResetFail
<1> QED BY <1>1, <1>2, <1>3, <1>4, <1>5, <1>6, <1>7, <1>8, <1>9, <1>10, <1>11, <1>12, <1>13, <1>14
        DEF Next, StoreStep, FlushStep, Callers

\* Positions are an invariant of every step.
LEMMA PositionStep == Struct /\ PositionInv /\ [Next]_vars => PositionInv'
<1> SUFFICES ASSUME Struct, PositionInv, [Next]_vars PROVE PositionInv' OBVIOUS
<1>1. failures \in Nat /\ failures' \in Nat /\ failures <= failures'
  <2>1. failures \in Nat /\ failures' \in Nat BY TypeStep DEF Struct, TypeOK
  <2>2. failures' = failures \/ failures' = failures + 1
    BY DEF Next, vars, StoreStep, FlushStep, Create, CreateReserve, CreateNext, CreateQueue, ResetOK, ResetFail, ResetSaved,
           Close, CloseSave, FlushNothing, FlushTake, FlushCommit, FlushFail, StartSaved, StartReset, Crash
  <2> QED BY <2>1, <2>2
<1>2. ASSUME ~LateQueries, failures' <= 1 PROVE PosInv'
  <2>1. failures <= 1 BY <1>1, <1>2
  <2>2. PosInv /\ (failures = 0 => SoundInv) BY <1>2, <2>1 DEF PositionInv
  <2> QED BY <1>2, <2>2, PosStep
<1>3. ASSUME ~LateQueries, failures' = 0 PROVE SoundInv'
  <2>1. failures = 0 /\ failures <= 1 BY <1>1, <1>3
  <2>2. PosInv /\ SoundInv BY <1>3, <2>1 DEF PositionInv
  <2> QED BY <1>3, <2>1, <2>2, SoundStep
<1> QED BY <1>2, <1>3 DEF PositionInv

\* Initially nothing is mapped and nothing is saved.
LEMMA PositionInit == Init => PositionInv
<1> SUFFICES ASSUME Init PROVE PositionInv OBVIOUS
<1>0. /\ ~up /\ pending = Empty /\ writing = Empty /\ disk = Empty /\ store = Idle /\ closer = NoClose /\ reserved = 0
  BY DEF Init
<1>1. Idle.pc = "idle" /\ NoClose.pc = "none" BY ZenonT(30) DEF Idle, NoClose
<1>2. Below = Empty /\ View = Empty BY <1>0, EmptyIs, Constants DEF Below, View
<1>3. Covered(Empty) /\ Bare(Empty) BY EmptyPositions, Zenon
<1>4. PosInv BY <1>0, <1>1, <1>2, <1>3, Zenon DEF PosInv, Creating
<1>5. SoundInv BY <1>0, <1>1, <1>2, <1>3 DEF SoundInv, Creating
<1> QED BY <1>4, <1>5 DEF PositionInv

\* The positions hold in every state of every behaviour.
LEMMA PositionInvariant == Spec => [](Struct /\ PositionInv)
BY StructInit, StructStep, PositionInit, PositionStep, PTL DEF Spec

\* While queries end before Close and at most one transaction has failed, no
\* mapping that a lookup finds was given out beyond the position from which
\* Create goes on: crashes, lost reservations, resets and failed flushes do
\* not make the store hand out an address again before its turn
\* (Store.Create, Store.Start, FakeIPSaveMetadata, restorePendingLocked).
THEOREM NoEarlyReuse == Spec => [](~LateQueries /\ failures <= 1 => NoMappingAhead)
<1>1. ASSUME Struct, PositionInv, ~LateQueries, failures <= 1 PROVE NoMappingAhead
  <2>1. PosInv BY <1>1 DEF PositionInv
  <2>2. \A a \in Addrs : ViewDomain(a) = View.dom[a] BY <1>1, ViewIs DEF Struct, TypeOK
  <2> QED BY <2>1, <2>2 DEF PosInv, Upto, NoMappingAhead
<1>2. Struct /\ PositionInv => (~LateQueries /\ failures <= 1 => NoMappingAhead) BY <1>1
<1> QED BY <1>2, PositionInvariant, PTL

\* Under the same conditions the position in the database is never behind a
\* mapping in the database, so that the next Start goes on after all of them
\* (FakeIPSaveMetadata flushes before Create goes on; writePending writes the
\* metadata with the mappings).
THEOREM ReservationFirst == Spec => [](~LateQueries /\ failures <= 1 => ReservedFirst)
<1>1. ASSUME Struct, PositionInv, ~LateQueries, failures <= 1 PROVE ReservedFirst
  <2>1. Covered(disk) BY <1>1 DEF PositionInv, PosInv
  <2> QED BY <2>1, Zenon DEF Covered, Upto, ReservedFirst
<1>2. Struct /\ PositionInv => (~LateQueries /\ failures <= 1 => ReservedFirst) BY <1>1
<1> QED BY <1>2, PositionInvariant, PTL
=============================================================================
