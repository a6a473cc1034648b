----------------------------- MODULE LinkProofs -----------------------------
(***************************************************************************)
(* Where calls and pointers lead after updates that are not made by way of *)
(* the global offset table.  In Relocatable, for any symbols and any       *)
(* number of versions: calls lead to the latest version, and variables     *)
(* keep their memory.  In Interface, for any files, versions and sizes of  *)
(* blocks: pointers from dlsym keep leading to their functions.            *)
(***************************************************************************)
EXTENDS Relocatable, Interface, TLAPS

(* Where the references of the code lead                                   *)
Reference == [object : {"own", "library", "none"}, version : Int]

(* There is one entry for each version.                                    *)
RelocatableTypes ==
  /\ file \in Seq(Content) /\ symbols \in Seq([Symbol -> Nat])
  /\ writable \in Seq(BOOLEAN) /\ link \in Seq([Symbol -> Reference])
  /\ Len(symbols) = Len(file) /\ Len(writable) = Len(file) /\ Len(link) = Len(file)
  /\ external \in Int

(* What version v defines is in the memory of an earlier version or its    *)
(* own; functions are always in its own.                                   *)
PlaceInv ==
  \A v \in 1 .. Latest : \A s \in Symbol :
    IF file[v][s] \in Defined
    THEN symbols[v][s] \in 1 .. v /\ (s \in Func => symbols[v][s] = v)
    ELSE symbols[v][s] = 0

(* A variable that stays the same stays in its memory, which is mapped, a  *)
(* changed one does not.                                                   *)
MemoryAt(v, w, s) ==
  file[v][s] \in Defined /\ file[w][s] \in Defined =>
    /\ writable[symbols[v][s]]
    /\ v <= w /\ (\A u \in v .. w : file[u][s] = file[v][s]) => symbols[w][s] = symbols[v][s]
    /\ file[w][s] # file[v][s] => symbols[w][s] # symbols[v][s]
MemoryInv ==
  \A v, w \in 1 .. Latest : \A s \in Var : MemoryAt(v, w, s)

(* References to variables lead to their memory, and those to functions to *)
(* the object that has them.                                               *)
ReferenceInv ==
  \A v \in 1 .. Latest : \A s \in Symbol :
    /\ file[v][s] \in Defined => link[v][s].object = "own"
    /\ file[v][s] \in Defined /\ s \in Var => link[v][s] = Own(symbols[v][s])
    /\ file[v][s] = "undefined" /\ s \in External => link[v][s].object = "library"

(* The inductive invariant of relocatable objects.                         *)
RelocatableInv ==
  RelocatableTypes /\ PlaceInv /\ MemoryInv /\ ReferenceInv /\ CallsFollowLatest

(* One more version of everything                                          *)
LEMMA Appended ==
  ASSUME NEW S, NEW q \in Seq(S), NEW x \in S
  PROVE  /\ Append(q, x) \in Seq(S) /\ Len(Append(q, x)) = Len(q) + 1
         /\ Append(q, x)[Len(q) + 1] = x /\ \A i \in 1 .. Len(q) : Append(q, x)[i] = q[i]
OBVIOUS

(* A variable that is kept has the memory of the version before.           *)
LEMMA Placed ==
  ASSUME RelocatableTypes, PlaceInv, NEW c \in Content, NEW s \in Symbol
  PROVE  /\ c[s] \notin Defined => adjust_offsets(c)[s] = 0
         /\ c[s] \in Defined /\ Kept(c, s) =>
              /\ adjust_offsets(c)[s] = symbols[Latest][s]
              /\ Latest \in 1 .. Latest /\ file[Latest][s] = c[s] /\ s \in Var
         /\ c[s] \in Defined /\ ~Kept(c, s) => adjust_offsets(c)[s] = Latest + 1
         /\ s \in Var /\ Latest > 0 /\ c[s] \in Defined /\ file[Latest][s] = c[s] => Kept(c, s)
<1>1. file \in Seq(Content) /\ Latest \in Nat
  BY DEF RelocatableTypes, Latest
<1>2. Latest > 0 <=> file # <<>>
  BY <1>1 DEF Latest
<1>3. Latest > 0 => Latest \in 1 .. Latest
  BY <1>1
<1>4. /\ c[s] \notin Defined => adjust_offsets(c)[s] = 0
      /\ c[s] \in Defined /\ Kept(c, s) => adjust_offsets(c)[s] = symbols[Latest][s]
      /\ c[s] \in Defined /\ ~Kept(c, s) => adjust_offsets(c)[s] = Latest + 1
  BY Zenon DEF adjust_offsets
<1>5. Latest > 0 /\ file[Latest][s] \in Defined => symbols[Latest][s] # 0
  BY <1>1, <1>3 DEF PlaceInv
<1> QED BY <1>2, <1>3, <1>4, <1>5, Zenon DEF Kept

(* The memory of the variables of a new version                            *)
LEMMA PreloadMemory ==
  ASSUME RelocatableTypes, PlaceInv, MemoryInv, NEW c \in Content, NEW s \in Var, c[s] \in Defined
  PROVE  /\ \A h : \/ /\ adjust_offsets(c)[s] \in 1 .. Latest
                     /\ writable[adjust_offsets(c)[s]]
                  \/ /\ adjust_offsets(c)[s] = Latest + 1
                     /\ MapsWritable(c, h) = TRUE
         /\ \A v \in 1 .. Latest : file[v][s] \in Defined =>
              /\ (\A u \in v .. Latest : file[u][s] = file[v][s]) /\ c[s] = file[v][s]
                   => adjust_offsets(c)[s] = symbols[v][s]
              /\ c[s] # file[v][s] => adjust_offsets(c)[s] # symbols[v][s]
<1>1. s \in Symbol /\ Latest \in Nat
  BY DEF Symbol, RelocatableTypes, Latest
<1>2. CASE Kept(c, s)
  <2>1. /\ adjust_offsets(c)[s] = symbols[Latest][s]
        /\ Latest \in 1 .. Latest /\ file[Latest][s] = c[s]
    BY <1>1, <1>2, Placed, Zenon
  <2>2. symbols[Latest][s] \in 1 .. Latest /\ writable[symbols[Latest][s]]
    BY <1>1, <2>1, Zenon DEF PlaceInv, MemoryInv, MemoryAt
  <2>3. \A v \in 1 .. Latest : v <= Latest
    BY <1>1
  <2> QED BY <2>1, <2>2, <2>3 DEF MemoryInv, MemoryAt
<1>3. CASE ~Kept(c, s)
  <2>1. adjust_offsets(c)[s] = Latest + 1
    BY <1>1, <1>3, Placed, Zenon
  <2>2. \A h : MapsWritable(c, h) = TRUE
    BY <1>3, Zenon DEF MapsWritable
  <2> SUFFICES ASSUME NEW v \in 1 .. Latest, file[v][s] \in Defined
               PROVE  /\ ~((\A u \in v .. Latest : file[u][s] = file[v][s]) /\ c[s] = file[v][s])
                      /\ symbols[v][s] # Latest + 1
    BY <2>1, <2>2, Zenon
  <2>3. Latest > 0 /\ Latest \in v .. Latest
    BY <1>1
  <2>4. file[Latest][s] # c[s]
    BY <1>1, <1>3, <2>3, Placed, Zenon
  <2>5. symbols[v][s] \in 1 .. v
    BY <1>1, Zenon DEF PlaceInv
  <2> QED BY <1>1, <2>3, <2>4, <2>5
<1> QED BY <1>2, <1>3, Zenon

(* A new version of the object                                             *)
LEMMA PreloadRelocatable ==
  ASSUME RelocatableInv, NEW c \in Content, NEW h \in BOOLEAN, preload(c, h)
  PROVE  RelocatableInv'
<1> DEFINE n == Latest
           a == adjust_offsets(c)
           m == MapsWritable(c, h)
           l == [s \in Symbol |-> relocate(file', symbols', n + 1, s)]
<1>1. /\ RelocatableTypes /\ PlaceInv /\ MemoryInv /\ ReferenceInv
  BY Zenon DEF RelocatableInv
<1>2. /\ n \in Nat /\ file \in Seq(Content) /\ symbols \in Seq([Symbol -> Nat])
      /\ writable \in Seq(BOOLEAN) /\ link \in Seq([Symbol -> Reference])
      /\ Len(file) = n /\ Len(symbols) = n /\ Len(writable) = n /\ Len(link) = n
      /\ external \in Int
  BY <1>1 DEF RelocatableTypes, Latest
<1>3. a \in [Symbol -> Nat]
  <2>1. ASSUME NEW s \in Symbol PROVE a[s] \in Nat
    <3>1. n > 0 => n \in 1 .. n /\ symbols[n] \in [Symbol -> Nat]
      BY <1>2
    <3> QED BY <1>1, <1>2, <3>1, Placed
  <2> QED BY <2>1, Zenon DEF adjust_offsets
<1>4. /\ file' = Append(file, c) /\ symbols' = Append(symbols, a) /\ writable' = Append(writable, m)
      /\ link' = Append(link, l) /\ pending' = TRUE /\ external' = external
  <2>1. Len(Append(file, c)) = n + 1
    BY <1>2
  <2> QED BY <2>1, Zenon DEF preload
<1>5. m \in BOOLEAN
  BY Zenon DEF MapsWritable
<1> HIDE DEF a, m, l
<1>6. /\ Latest' = n + 1 /\ file' \in Seq(Content) /\ symbols' \in Seq([Symbol -> Nat])
      /\ writable' \in Seq(BOOLEAN)
      /\ Len(symbols') = n + 1 /\ Len(writable') = n + 1
      /\ file'[n + 1] = c /\ symbols'[n + 1] = a /\ writable'[n + 1] = m
      /\ \A i \in 1 .. n : file'[i] = file[i] /\ symbols'[i] = symbols[i] /\ writable'[i] = writable[i]
  BY <1>2, <1>3, <1>4, <1>5, Appended DEF Latest
<1>7. ASSUME NEW s \in Symbol
      PROVE  /\ l[s] \in Reference
             /\ c[s] \in Defined => l[s] = Own(a[s])
             /\ c[s] = "undefined" /\ s \in External => l[s] = Library(external)
  <2>1. l[s] = CASE c[s] \in Defined -> Own(a[s])
                 [] c[s] = "undefined" /\ s \in External -> Library(external)
                 [] OTHER -> Unlinked
    BY <1>6, Zenon DEF l, relocate, Latest
  <2>2. c[s] = "undefined" => c[s] \notin Defined
    BY Zenon DEF Defined
  <2>3. a[s] \in Int
    BY <1>3
  <2> QED BY <1>2, <2>1, <2>2, <2>3 DEF Reference, Own, Library, Unlinked
<1>8. l \in [Symbol -> Reference]
  BY <1>7, Zenon DEF l
<1>9. /\ link' \in Seq([Symbol -> Reference]) /\ Len(link') = n + 1 /\ link'[n + 1] = l
      /\ \A i \in 1 .. n : link'[i] = link[i]
  BY <1>2, <1>4, <1>8, Appended
<1>10. RelocatableTypes'
  BY <1>2, <1>4, <1>6, <1>9, Zenon DEF RelocatableTypes, Latest
<1>11. \A s \in Symbol : IF c[s] \in Defined
                         THEN a[s] \in 1 .. n + 1 /\ (s \in Func => a[s] = n + 1)
                         ELSE a[s] = 0
  <2> SUFFICES ASSUME NEW s \in Symbol
               PROVE  IF c[s] \in Defined
                      THEN a[s] \in 1 .. n + 1 /\ (s \in Func => a[s] = n + 1)
                      ELSE a[s] = 0
    BY Zenon
  <2>1. CASE c[s] \in Defined /\ Kept(c, s)
    <3>1. a[s] = symbols[n][s] /\ n \in 1 .. n /\ file[n][s] = c[s] /\ s \in Var
      BY <1>1, <2>1, Placed, Zenon DEF a
    <3>2. symbols[n][s] \in 1 .. n /\ s \notin Func
      BY <1>1, <2>1, <3>1, RelocatableAssumption, Zenon DEF PlaceInv
    <3> QED BY <1>2, <2>1, <3>1, <3>2
  <2>2. CASE ~(c[s] \in Defined /\ Kept(c, s))
    BY <1>1, <1>2, <2>2, Placed DEF a
  <2> QED BY <2>1, <2>2, Zenon
<1>12. PlaceInv'
  <2> SUFFICES ASSUME NEW v \in 1 .. n + 1, NEW s \in Symbol
               PROVE  IF file'[v][s] \in Defined
                      THEN symbols'[v][s] \in 1 .. v /\ (s \in Func => symbols'[v][s] = v)
                      ELSE symbols'[v][s] = 0
    BY <1>6, Zenon DEF PlaceInv
  <2>1. CASE v = n + 1
    BY <1>6, <1>11, <2>1, Zenon
  <2>2. CASE v \in 1 .. n
    <3>1. file'[v] = file[v] /\ symbols'[v] = symbols[v]
      BY <1>6, <2>2, Zenon
    <3> QED BY <1>1, <2>2, <3>1, Zenon DEF PlaceInv
  <2> QED BY <1>2, <2>1, <2>2
<1>13. MemoryInv'
  <2> SUFFICES ASSUME NEW v \in 1 .. n + 1, NEW w \in 1 .. n + 1, NEW s \in Var
               PROVE  MemoryAt(v, w, s)'
    BY <1>6, Zenon DEF MemoryInv
  <2> SUFFICES ASSUME file'[v][s] \in Defined, file'[w][s] \in Defined
               PROVE  /\ writable'[symbols'[v][s]]
                      /\ v <= w /\ (\A u \in v .. w : file'[u][s] = file'[v][s])
                           => symbols'[w][s] = symbols'[v][s]
                      /\ file'[w][s] # file'[v][s] => symbols'[w][s] # symbols'[v][s]
    BY Zenon DEF MemoryAt
  <2>1. s \in Symbol
    BY Zenon DEF Symbol
  <2>2. CASE v \in 1 .. n /\ w \in 1 .. n
    <3>1. /\ file'[v] = file[v] /\ symbols'[v] = symbols[v]
          /\ file'[w] = file[w] /\ symbols'[w] = symbols[w]
      BY <1>6, <2>2, Zenon
    <3>2. symbols[v][s] \in 1 .. n
      BY <1>1, <1>2, <2>1, <2>2, <3>1 DEF PlaceInv
    <3>3. writable'[symbols[v][s]] = writable[symbols[v][s]]
      BY <1>6, <3>2, Zenon
    <3>4. \A u \in v .. w : file'[u] = file[u]
      BY <1>2, <1>6, <2>2
    <3> QED BY <1>1, <2>2, <3>1, <3>3, <3>4 DEF MemoryInv, MemoryAt
  <2> DEFINE before(x) == (\A u \in x .. n : file[u][s] = file[x][s]) /\ c[s] = file[x][s]
  <2>3. ASSUME c[s] \in Defined
        PROVE  /\ writable'[a[s]]
               /\ \A x \in 1 .. n : file[x][s] \in Defined =>
                    /\ before(x) => a[s] = symbols[x][s]
                    /\ c[s] # file[x][s] => a[s] # symbols[x][s]
    <3>1. \/ a[s] \in 1 .. n /\ writable[a[s]]
          \/ a[s] = n + 1 /\ m = TRUE
      BY <1>1, <2>3, PreloadMemory, Zenon DEF a, m
    <3>2. \A x \in 1 .. n : file[x][s] \in Defined =>
            /\ before(x) => a[s] = symbols[x][s]
            /\ c[s] # file[x][s] => a[s] # symbols[x][s]
      BY <1>1, <2>3, PreloadMemory, Zenon DEF a
    <3> QED BY <1>6, <3>1, <3>2, Zenon
  <2> HIDE DEF before
  <2>4. CASE v = n + 1 /\ w = n + 1
    BY <1>6, <2>3, <2>4, Zenon
  <2>5. CASE v \in 1 .. n /\ w = n + 1
    <3>1. file'[v] = file[v] /\ symbols'[v] = symbols[v] /\ file'[w] = c /\ symbols'[w] = a
      BY <1>6, <2>5, Zenon
    <3>2. symbols[v][s] \in 1 .. n /\ writable[symbols[v][s]]
      <4>1. MemoryAt(v, v, s) /\ file[v][s] \in Defined
        BY <1>1, <2>5, <3>1, Zenon DEF MemoryInv
      <4>2. symbols[v][s] \in 1 .. v
        BY <1>1, <2>1, <2>5, <4>1, Zenon DEF PlaceInv
      <4>3. writable[symbols[v][s]]
        BY <4>1, Zenon DEF MemoryAt
      <4> QED BY <1>2, <2>5, <4>2, <4>3
    <3>3. writable'[symbols[v][s]]
      BY <1>6, <3>2, Zenon
    <3>4. (\A u \in v .. w : file'[u][s] = file'[v][s]) => \A u \in v .. n : file[u][s] = file[v][s]
      <4>1. \A u \in v .. n : u \in v .. w /\ u \in 1 .. n
        BY <1>2, <2>5
      <4> QED BY <1>6, <3>1, <4>1, Zenon
    <3>5. (\A u \in v .. w : file'[u][s] = file'[v][s]) => c[s] = file[v][s]
      BY <1>2, <2>5, <3>1
    <3> QED BY <2>3, <2>5, <3>1, <3>3, <3>4, <3>5, Zenon DEF before
  <2>6. CASE v = n + 1 /\ w \in 1 .. n
    <3>1. file'[w] = file[w] /\ symbols'[w] = symbols[w] /\ file'[v] = c /\ symbols'[v] = a
      BY <1>6, <2>6, Zenon
    <3>2. ~(v <= w)
      BY <1>2, <2>6
    <3> QED BY <2>3, <2>6, <3>1, <3>2, Zenon
  <2> QED BY <1>2, <2>2, <2>5, <2>6, <2>4
<1>14. ReferenceInv'
  <2> SUFFICES ASSUME NEW v \in 1 .. n + 1, NEW s \in Symbol
               PROVE  /\ file'[v][s] \in Defined => link'[v][s].object = "own"
                      /\ file'[v][s] \in Defined /\ s \in Var => link'[v][s] = Own(symbols'[v][s])
                      /\ file'[v][s] = "undefined" /\ s \in External => link'[v][s].object = "library"
    BY <1>6, Zenon DEF ReferenceInv
  <2>1. CASE v = n + 1
    BY <1>6, <1>7, <1>9, <2>1 DEF Own, Library
  <2>2. CASE v \in 1 .. n
    <3>1. file'[v] = file[v] /\ symbols'[v] = symbols[v] /\ link'[v] = link[v]
      BY <1>6, <1>9, <2>2, Zenon
    <3> QED BY <1>1, <2>2, <3>1, Zenon DEF ReferenceInv
  <2> QED BY <1>2, <2>1, <2>2
<1>15. CallsFollowLatest'
  BY <1>4, Zenon DEF CallsFollowLatest
<1> QED BY <1>10, <1>12, <1>13, <1>14, <1>15, Zenon DEF RelocatableInv

(* ObjectRelocatable::update                                               *)
LEMMA UpdateRelocatable ==
  ASSUME RelocatableInv, update
  PROVE  RelocatableInv'
<1>1. RelocatableTypes /\ PlaceInv /\ MemoryInv /\ ReferenceInv
  BY Zenon DEF RelocatableInv
<1>2. UNCHANGED <<file, symbols, writable, external>> /\ Latest' = Latest
  BY Zenon DEF update, Latest
<1>3. Latest \in Nat /\ link \in [1 .. Latest -> [Symbol -> Reference]] /\ external \in Int
  BY <1>1 DEF RelocatableTypes, Latest
<1>4. ASSUME NEW v \in 1 .. Latest, NEW s \in Symbol
      PROVE  /\ link'[v][s] = IF s \in Func /\ ~is_latest_version(link[v][s])
                              THEN relocate(file, symbols, v, s)
                              ELSE link[v][s]
             /\ link[v][s] \in Reference
  BY <1>3, Zenon DEF update
<1>5. ASSUME NEW v \in 1 .. Latest, NEW s \in Symbol
      PROVE  /\ relocate(file, symbols, v, s) \in Reference
             /\ file[v][s] \in Defined => relocate(file, symbols, v, s).object = "own"
             /\ file[v][s] \in Defined /\ s \in Func /\ file[Latest][s] \in Defined
                  => relocate(file, symbols, v, s) = Own(Latest)
             /\ file[v][s] = "undefined" /\ s \in External
                  => relocate(file, symbols, v, s) = Library(external)
  <2>1. Latest \in 1 .. Latest
    BY <1>3
  <2>2. symbols[v][s] \in Int /\ symbols[Latest][s] \in Int
    BY <1>1, <2>1 DEF RelocatableTypes, Latest
  <2>3. s \in Func /\ file[Latest][s] \in Defined => symbols[Latest][s] = Latest /\ Latest # 0
    BY <1>1, <1>3, <2>1 DEF PlaceInv
  <2>4. file[v][s] = "undefined" => file[v][s] \notin Defined
    BY Zenon DEF Defined
  <2>5. relocate(file, symbols, v, s) =
          CASE file[v][s] \in Defined ->
                 IF v # Latest /\ s \in Func /\ symbols[Latest][s] # 0
                 THEN Own(symbols[Latest][s])
                 ELSE Own(symbols[v][s])
            [] file[v][s] = "undefined" /\ s \in External -> Library(external)
            [] OTHER -> Unlinked
    BY Zenon DEF relocate, Latest
  <2>6. CASE file[v][s] \in Defined
    BY <2>2, <2>3, <2>4, <2>5, <2>6 DEF Own, Reference
  <2>7. CASE file[v][s] \notin Defined
    BY <1>3, <2>5, <2>7 DEF Library, Unlinked, Reference
  <2> QED BY <2>6, <2>7, Zenon
<1>6. RelocatableTypes'
  <2>1. DOMAIN link' = 1 .. Latest
    BY <1>3, Zenon DEF update
  <2>2. ASSUME NEW v \in 1 .. Latest PROVE link'[v] \in [Symbol -> Reference]
    <3>1. DOMAIN link'[v] = Symbol /\ link'[v] = [s \in Symbol |-> link'[v][s]]
      BY <1>3, Zenon DEF update
    <3>2. \A s \in Symbol : link'[v][s] \in Reference
      BY <1>4, <1>5, Zenon
    <3> QED BY <3>1, <3>2, Zenon
  <2>3. link' = [v \in 1 .. Latest |-> link'[v]]
    BY <1>3, Zenon DEF update
  <2>4. link' \in [1 .. Latest -> [Symbol -> Reference]]
    BY <2>2, <2>3, Zenon
  <2>5. link' \in Seq([Symbol -> Reference]) /\ Len(link') = Latest
    BY <1>3, <2>4
  <2> QED BY <1>1, <1>2, <2>5, Zenon DEF RelocatableTypes, Latest
<1>7. PlaceInv' /\ MemoryInv'
  BY <1>1, <1>2 DEF PlaceInv, MemoryInv, MemoryAt
<1>8. ReferenceInv'
  <2> SUFFICES ASSUME NEW v \in 1 .. Latest, NEW s \in Symbol
               PROVE  /\ file[v][s] \in Defined => link'[v][s].object = "own"
                      /\ file[v][s] \in Defined /\ s \in Var => link'[v][s] = Own(symbols[v][s])
                      /\ file[v][s] = "undefined" /\ s \in External => link'[v][s].object = "library"
    BY <1>2, Zenon DEF ReferenceInv
  <2>1. s \in Var => s \notin Func
    BY RelocatableAssumption, Zenon
  <2>2. Library(external).object = "library"
    BY Zenon DEF Library
  <2> QED BY <1>1, <1>4, <1>5, <2>1, <2>2 DEF ReferenceInv
<1>9. CallsFollowLatest'
  <2> SUFFICES ASSUME NEW v \in 1 .. Latest, NEW s \in Func
               PROVE  /\ file[v][s] \in Defined /\ file[Latest][s] \in Defined
                           => link'[v][s] = Own(Latest)
                      /\ file[v][s] = "undefined" /\ s \in External
                           => link'[v][s] = Library(external)
    BY <1>1, <1>2 DEF CallsFollowLatest, RelocatableTypes, Latest
  <2>1. s \in Symbol
    BY Zenon DEF Symbol
  <2>2. CASE is_latest_version(link[v][s])
    <3>1. link'[v][s] = link[v][s] /\ link[v][s] \in Reference
      BY <1>4, <2>1, <2>2, Zenon
    <3>2. file[v][s] \in Defined => link[v][s].object = "own"
      BY <1>1, <2>1, Zenon DEF ReferenceInv
    <3>3. file[v][s] = "undefined" /\ s \in External => link[v][s].object = "library"
      BY <1>1, <2>1, Zenon DEF ReferenceInv
    <3>4. link[v][s].object = "own" => link[v][s] = Own(Latest)
      BY <2>2, <3>1, Zenon DEF is_latest_version, Own, Reference
    <3>5. link[v][s].object = "library" => link[v][s] = Library(external)
      BY <2>2, <3>1, Zenon DEF is_latest_version, Library, Reference
    <3> QED BY <3>1, <3>2, <3>3, <3>4, <3>5, Zenon
  <2>3. CASE ~is_latest_version(link[v][s])
    BY <1>4, <1>5, <2>1, <2>3, Zenon
  <2> QED BY <2>2, <2>3, Zenon
<1> QED BY <1>6, <1>7, <1>8, <1>9, Zenon DEF RelocatableInv

(* A step that changes no version keeps what they hold.                    *)
LEMMA SameVersions ==
  ASSUME RelocatableInv, UNCHANGED <<file, symbols, writable, link>>, external' \in Int
  PROVE  RelocatableTypes' /\ PlaceInv' /\ MemoryInv' /\ ReferenceInv'
<1>1. file' = file /\ symbols' = symbols /\ writable' = writable /\ link' = link /\ Latest' = Latest
  BY Zenon DEF Latest
<1>2. RelocatableTypes'
  BY <1>1, Zenon DEF RelocatableInv, RelocatableTypes
<1>3. PlaceInv'
  BY <1>1, Zenon DEF RelocatableInv, PlaceInv
<1>4. MemoryInv'
  BY <1>1 DEF RelocatableInv, MemoryInv, MemoryAt
<1>5. ReferenceInv'
  BY <1>1, Zenon DEF RelocatableInv, ReferenceInv
<1> QED BY <1>2, <1>3, <1>4, <1>5, Zenon

(* RelocatableInv holds in all states.                                     *)
LEMMA RelocatableInvariant == RelocatableSpec => []RelocatableInv
<1>1. RelocatableInit => RelocatableInv
  <2> SUFFICES ASSUME RelocatableInit PROVE RelocatableInv
    BY Zenon
  <2>1. RelocatableTypes
    BY DEF RelocatableInit, RelocatableTypes
  <2>2. 1 .. Latest = {} /\ DOMAIN file = {}
    BY DEF RelocatableInit, Latest
  <2> QED BY <2>1, <2>2, Zenon
    DEF RelocatableInv, PlaceInv, MemoryInv, MemoryAt, ReferenceInv, CallsFollowLatest
<1>2. RelocatableInv /\ [RelocatableNext]_relocatableVars => RelocatableInv'
  <2> SUFFICES ASSUME RelocatableInv, [RelocatableNext]_relocatableVars
               PROVE  RelocatableInv'
    BY Zenon
  <2>1. ASSUME NEW c \in Content, NEW h \in BOOLEAN, preload(c, h)
        PROVE  RelocatableInv'
    BY <2>1, PreloadRelocatable, Zenon
  <2>2. CASE UpdateLibrary
    <3>1. external' \in Int /\ UNCHANGED <<file, symbols, writable, link>>
      BY <2>2 DEF UpdateLibrary, RelocatableInv, RelocatableTypes
    <3>2. CallsFollowLatest'
      BY <2>2, Zenon DEF UpdateLibrary, CallsFollowLatest
    <3> QED BY <3>1, <3>2, SameVersions, Zenon DEF RelocatableInv
  <2>3. CASE update
    BY <2>3, UpdateRelocatable, Zenon
  <2>4. CASE UNCHANGED relocatableVars
    <3>1. /\ file' = file /\ link' = link /\ external' = external /\ pending' = pending
          /\ Latest' = Latest /\ UNCHANGED <<file, symbols, writable, link>>
      BY <2>4, Zenon DEF relocatableVars, Latest
    <3>2. external' \in Int
      BY <3>1, Zenon DEF RelocatableInv, RelocatableTypes
    <3>3. CallsFollowLatest'
      BY <3>1, Zenon DEF RelocatableInv, CallsFollowLatest
    <3> QED BY <3>1, <3>2, <3>3, SameVersions, Zenon DEF RelocatableInv
  <2> QED BY <2>1, <2>2, <2>3, <2>4, Zenon DEF RelocatableNext
<1> QED BY <1>1, <1>2, PTL DEF RelocatableSpec

(* ObjectRelocatable::update leaves each call at the latest version of its *)
(* function.                                                               *)
THEOREM CallsLatest == RelocatableSpec => []CallsFollowLatest
<1>1. RelocatableInv => CallsFollowLatest
  BY Zenon DEF RelocatableInv
<1> QED BY <1>1, RelocatableInvariant, PTL

(* Unchanged variables keep their memory in all versions, though           *)
(* ObjectRelocatable::preload maps a writable section only when needed.    *)
THEOREM VariablesStay == RelocatableSpec => []VariablesKept
<1>1. RelocatableInv => VariablesKept
  <2> SUFFICES ASSUME RelocatableInv, NEW v \in DOMAIN file, NEW w \in DOMAIN file, NEW s \in Var,
                      file[v][s] \in Defined, file[w][s] \in Defined
               PROVE  /\ writable[link[v][s].version]
                      /\ (\A u \in v .. w : file[u][s] = file[v][s]) => link[w][s] = link[v][s] \/ w < v
                      /\ file[w][s] # file[v][s] => link[w][s] # link[v][s]
    BY Zenon DEF VariablesKept
  <2>1. v \in 1 .. Latest /\ w \in 1 .. Latest /\ s \in Symbol
    BY DEF RelocatableInv, RelocatableTypes, Latest, Symbol
  <2>2. link[v][s] = Own(symbols[v][s]) /\ link[w][s] = Own(symbols[w][s])
    BY <2>1, Zenon DEF RelocatableInv, ReferenceInv
  <2>3. /\ writable[symbols[v][s]]
        /\ v <= w /\ (\A u \in v .. w : file[u][s] = file[v][s]) => symbols[w][s] = symbols[v][s]
        /\ file[w][s] # file[v][s] => symbols[w][s] # symbols[v][s]
    BY <2>1, Zenon DEF RelocatableInv, MemoryInv, MemoryAt
  <2>4. v <= w \/ w < v
    BY <2>1
  <2> QED BY <2>2, <2>3, <2>4 DEF Own
<1> QED BY <1>1, RelocatableInvariant, PTL

-----------------------------------------------------------------------------
(***************************************************************************)
(* The dl interface: every symbol that dlsym was asked for has one entry,  *)
(* which Trampoline::set and Trampoline::update direct.                    *)
(***************************************************************************)

(* Quotient and remainder, as Trampoline::pointer computes them.           *)
LEMMA DivMod ==
  ASSUME NEW i \in Nat, NEW n \in Nat \ {0}
  PROVE  i = n * (i \div n) + (i % n)
  OBVIOUS

(* Trampoline::pointer gives different indices different entries.          *)
LEMMA PointerInjective ==
  ASSUME NEW i \in Nat, NEW j \in Nat, pointer(i) = pointer(j)
  PROVE  i = j
  BY DivMod, InterfaceAssumption DEF pointer

(* The block of the next index is the same or the next one.                *)
LEMMA NextBlock ==
  ASSUME NEW i \in Nat, NEW n \in Nat \ {0}
  PROVE  /\ i \div n \in Nat
         /\ (i + 1) \div n <= (i \div n) + 1
         /\ i \div n <= (i + 1) \div n
         /\ 0 \div n = 0
  OBVIOUS

(* Symbols of versions, in trampolines and in their cells                  *)
Cell == [file : Openable, version : Nat, name : SymbolName]

(* Where the trampoline with number i, counted from 1, is.                 *)
Place(i) == pointer(i - 1)

(* A cell leads to a version that defines the function, not older than the *)
(* one asked for, and when no update is under way to the current one.      *)
LeadsTo(to, sym) ==
  /\ to.file = sym.file /\ to.name = sym.name /\ sym.version <= to.version
  /\ to.name \in Def[to.file][to.version]
  /\ ~updates /\ Resolves(to.file, to.name) => to.version = loaded[to.file]

(* There is one cell for each trampoline.                                  *)
InterfaceTypes ==
  /\ loaded \in [Openable -> Nat] /\ updates \in BOOLEAN /\ blocks \in Nat
  /\ trampolines \in Seq(Cell)
  /\ address \in [{Place(i) : i \in 1 .. Len(trampolines)} -> Cell]

(* A symbol with a trampoline is of a version that has been loaded.        *)
SymbolsInv ==
  \A i \in 1 .. Len(trampolines) :
    0 < trampolines[i].version /\ trampolines[i].version <= loaded[trampolines[i].file]

(* No symbol has two trampolines.                                          *)
OneInv ==
  \A i, j \in 1 .. Len(trampolines) : trampolines[i] = trampolines[j] => i = j

(* Trampolines are in blocks that have been allocated.                     *)
BlocksInv ==
  \A i \in 1 .. Len(trampolines) : Place(i).block <= blocks

(* Every cell leads where its symbol should.                               *)
CellsInv ==
  \A i \in 1 .. Len(trampolines) : LeadsTo(address[Place(i)], trampolines[i])

(* dlsym has returned trampolines only.                                    *)
PointersInv ==
  \A p \in pointers : \E i \in 1 .. Len(trampolines) :
    p.symbol = trampolines[i] /\ p.at = Place(i)

(* The inductive invariant of the dl interface.                            *)
InterfaceInv ==
  InterfaceTypes /\ SymbolsInv /\ OneInv /\ BlocksInv /\ CellsInv /\ PointersInv

(* Trampolines and cells hold symbols.                                     *)
LEMMA SymbolTypes ==
  ASSUME InterfaceTypes, NEW i \in 1 .. Len(trampolines)
  PROVE  trampolines[i] \in Cell /\ address[Place(i)] \in Cell
  BY DEF InterfaceTypes

(* The parts of a symbol.                                                  *)
LEMMA CellFields ==
  ASSUME NEW c \in Cell
  PROVE  c.file \in Openable /\ c.version \in Nat /\ c.name \in SymbolName
  BY Zenon DEF Cell

(* At first there are no trampolines.                                      *)
LEMMA InitInterface == InterfaceInit => InterfaceInv
  <1> SUFFICES ASSUME InterfaceInit PROVE InterfaceInv
    BY Zenon
  <1>1. Len(trampolines) = 0 /\ trampolines \in Seq(Cell) /\ pointers = {}
    BY DEF InterfaceInit
  <1>2. 1 .. Len(trampolines) = {}
    BY <1>1
  <1>3. InterfaceTypes
    BY <1>1, <1>2, Zenon DEF InterfaceInit, InterfaceTypes
  <1> QED
    BY <1>1, <1>2, <1>3, Zenon
       DEF InterfaceInv, SymbolsInv, OneInv, BlocksInv, CellsInv, PointersInv

(* What leaves versions and trampolines alone.                             *)
LEMMA SameInterface ==
  ASSUME InterfaceInv, UNCHANGED <<loaded, updates, trampolines, blocks, address, pointers>>
  PROVE  InterfaceInv'
  <1>1. /\ loaded' = loaded /\ updates' = updates /\ trampolines' = trampolines
        /\ blocks' = blocks /\ address' = address /\ pointers' = pointers
    BY Zenon
  <1>2. InterfaceTypes'
    BY <1>1, Zenon DEF InterfaceInv, InterfaceTypes
  <1>3. SymbolsInv' /\ OneInv' /\ BlocksInv' /\ PointersInv'
    BY <1>1, Zenon DEF InterfaceInv, SymbolsInv, OneInv, BlocksInv, PointersInv
  <1>4. CellsInv'
    <2> SUFFICES ASSUME NEW i \in 1 .. Len(trampolines)
                 PROVE  LeadsTo(address[Place(i)], trampolines[i])'
      BY <1>1, Zenon DEF CellsInv
    <2>1. LeadsTo(address[Place(i)], trampolines[i])
      BY Zenon DEF InterfaceInv, CellsInv
    <2> QED
      BY <1>1, <2>1, SMTT(30) DEF LeadsTo, Resolves, is_loaded
  <1> QED
    BY <1>2, <1>3, <1>4, Zenon DEF InterfaceInv

(* A new version of a file makes links to its predecessor old; until they  *)
(* are updated that is permitted.                                          *)
LEMMA LoadStep ==
  ASSUME InterfaceInv, NEW f \in Openable, Load(f)
  PROVE  InterfaceInv'
  <1>1. /\ updates' = TRUE /\ trampolines' = trampolines
        /\ blocks' = blocks /\ address' = address /\ pointers' = pointers
        /\ loaded' = [loaded EXCEPT ![f] = @ + 1]
    BY Zenon DEF Load
  <1>2. InterfaceTypes'
    BY <1>1 DEF InterfaceInv, InterfaceTypes
  <1>3. OneInv' /\ BlocksInv' /\ PointersInv'
    BY <1>1, Zenon DEF InterfaceInv, OneInv, BlocksInv, PointersInv
  <1>4. CellsInv'
    BY <1>1, Zenon DEF InterfaceInv, CellsInv, LeadsTo
  <1>5. ASSUME NEW g \in Openable
        PROVE  loaded[g] <= loaded'[g] /\ loaded[g] \in Nat /\ loaded'[g] \in Nat
    BY <1>1 DEF InterfaceInv, InterfaceTypes
  <1>6. SymbolsInv'
    <2> SUFFICES ASSUME NEW i \in 1 .. Len(trampolines)
                 PROVE  /\ 0 < trampolines[i].version
                        /\ trampolines[i].version <= loaded'[trampolines[i].file]
      BY <1>1, Zenon DEF SymbolsInv
    <2>1. trampolines[i].file \in Openable /\ trampolines[i].version \in Nat
      BY SymbolTypes, CellFields, Zenon DEF InterfaceInv
    <2>2. 0 < trampolines[i].version /\ trampolines[i].version <= loaded[trampolines[i].file]
      BY Zenon DEF InterfaceInv, SymbolsInv
    <2> QED
      BY <1>5, <2>1, <2>2
  <1> QED
    BY <1>2, <1>3, <1>4, <1>6, Zenon DEF InterfaceInv

(* The first load of a file: it has no trampolines yet.                    *)
LEMMA OpenStep ==
  ASSUME InterfaceInv, NEW f \in Openable, NEW found \in BOOLEAN, dlmopen(f, found)
  PROVE  InterfaceInv'
  <1>1. CASE UNCHANGED loaded
    BY <1>1, SameInterface, Zenon DEF dlmopen
  <1>2. CASE ~is_loaded(f) /\ loaded' = [loaded EXCEPT ![f] = 1]
    <2>1. /\ updates' = updates /\ trampolines' = trampolines
          /\ blocks' = blocks /\ address' = address /\ pointers' = pointers
      BY Zenon DEF dlmopen
    <2>2. InterfaceTypes'
      BY <1>2, <2>1, Zenon DEF InterfaceInv, InterfaceTypes
    <2>3. OneInv' /\ BlocksInv' /\ PointersInv'
      BY <2>1, Zenon DEF InterfaceInv, OneInv, BlocksInv, PointersInv
    <2>4. ASSUME NEW i \in 1 .. Len(trampolines)
          PROVE  loaded'[trampolines[i].file] = loaded[trampolines[i].file]
      <3>1. trampolines[i].file \in Openable /\ trampolines[i].version \in Nat
        BY SymbolTypes, CellFields, Zenon DEF InterfaceInv
      <3>2. 0 < trampolines[i].version /\ trampolines[i].version <= loaded[trampolines[i].file]
        BY Zenon DEF InterfaceInv, SymbolsInv
      <3>3. trampolines[i].file # f
        BY <1>2, <3>1, <3>2 DEF is_loaded
      <3> QED
        BY <1>2, <3>1, <3>3, Zenon DEF InterfaceInv, InterfaceTypes
    <2>5. SymbolsInv'
      BY <2>1, <2>4, Zenon DEF InterfaceInv, SymbolsInv
    <2>6. CellsInv'
      <3> SUFFICES ASSUME NEW i \in 1 .. Len(trampolines)
                   PROVE  LeadsTo(address[Place(i)], trampolines[i])'
        BY <2>1, Zenon DEF CellsInv
      <3>1. LeadsTo(address[Place(i)], trampolines[i])
        BY Zenon DEF InterfaceInv, CellsInv
      <3>2. loaded'[address[Place(i)].file] = loaded[address[Place(i)].file]
        <4>1. address[Place(i)].file = trampolines[i].file
          BY <3>1, Zenon DEF LeadsTo
        <4>2. loaded'[trampolines[i].file] = loaded[trampolines[i].file]
          BY <2>4, Zenon
        <4> QED
          BY <4>1, <4>2, Zenon
      <3> QED
        BY <2>1, <3>1, <3>2, SMTT(30) DEF LeadsTo, Resolves, is_loaded
    <2> QED
      BY <2>2, <2>3, <2>5, <2>6, Zenon DEF InterfaceInv
  <1> QED
    BY <1>1, <1>2, Zenon DEF dlmopen

(* Trampoline::update looks at each cell once.                             *)
LEMMA Updated ==
  ASSUME InterfaceTypes, NEW i \in 1 .. Len(trampolines)
  PROVE  LET s == trampolines[i]
         IN  trampoline_update[Place(i)] =
               IF Resolves(s.file, s.name) THEN VersionedSymbol(s.file, s.name)
               ELSE address[Place(i)]
  <1> DEFINE s == trampolines[i]
             here == {trampolines[k] : k \in {j \in Refreshed : pointer(j - 1) = Place(i)}}
             found == {t \in here : Resolves(t.file, t.name)}
  <1>1. Place(i) \in DOMAIN address
    BY Zenon DEF InterfaceTypes
  <1>2. trampoline_update[Place(i)] =
          IF found = {} THEN address[Place(i)]
          ELSE LET t == CHOOSE t \in found : TRUE IN VersionedSymbol(t.file, t.name)
    BY <1>1, Zenon DEF trampoline_update
  <1>3. Len(trampolines) \in Nat
    BY DEF InterfaceTypes
  <1>4. ASSUME NEW j \in 1 .. Len(trampolines), pointer(j - 1) = pointer(i - 1) PROVE j = i
    BY <1>3, <1>4, PointerInjective
  <1>5. here = {s}
    BY <1>4, Zenon DEF Refreshed, Place
  <1>6. CASE Resolves(s.file, s.name)
    <2>1. found = {s}
      BY <1>5, <1>6, Zenon
    <2>2. (CHOOSE t \in found : TRUE) = s
      BY <2>1, Zenon
    <2> QED
      BY <1>2, <1>6, <2>1, <2>2, Zenon
  <1>7. CASE ~Resolves(s.file, s.name)
    <2>1. found = {}
      BY <1>5, <1>7, Zenon
    <2> QED
      BY <1>2, <1>7, <2>1, Zenon
  <1> QED
    BY <1>6, <1>7, Zenon

(* The symbol that is found in the current version of a file.              *)
LEMMA SymbolFields ==
  ASSUME NEW f, NEW n
  PROVE  /\ VersionedSymbol(f, n).file = f /\ VersionedSymbol(f, n).name = n
         /\ VersionedSymbol(f, n).version = loaded[f]
  BY Zenon DEF VersionedSymbol

(* What resolve_symbol finds can be in a cell.                             *)
LEMMA SymbolIsCell ==
  ASSUME InterfaceTypes, NEW f \in Openable, NEW n \in SymbolName
  PROVE  VersionedSymbol(f, n) \in Cell
  BY Zenon DEF VersionedSymbol, Cell, InterfaceTypes

(* Loader::relocate directs all trampolines to the current versions.       *)
LEMMA RelocateStep ==
  ASSUME InterfaceInv, Relocate
  PROVE  InterfaceInv'
  <1>1. /\ loaded' = loaded /\ updates' = FALSE /\ trampolines' = trampolines
        /\ blocks' = blocks /\ address' = trampoline_update /\ pointers' = pointers
    BY Zenon DEF Relocate
  <1>2. SymbolsInv' /\ OneInv' /\ BlocksInv' /\ PointersInv'
    BY <1>1, Zenon DEF InterfaceInv, SymbolsInv, OneInv, BlocksInv, PointersInv
  <1>3. ASSUME NEW i \in 1 .. Len(trampolines)
        PROVE  /\ address'[Place(i)] \in Cell
               /\ LeadsTo(address[Place(i)], trampolines[i])'
    <2> DEFINE s == trampolines[i]
               to == address[Place(i)]
    <2>1. s \in Cell /\ to \in Cell
      BY SymbolTypes, Zenon DEF InterfaceInv
    <2>2. s.file \in Openable /\ s.version \in Nat /\ s.name \in SymbolName
      BY <2>1, CellFields, Zenon
    <2>3. LeadsTo(to, s) /\ s.version <= loaded[s.file]
      BY Zenon DEF InterfaceInv, CellsInv, SymbolsInv
    <2>4. CASE Resolves(s.file, s.name)
      <3>1. address'[Place(i)] = VersionedSymbol(s.file, s.name)
        BY <1>1, <2>4, Updated, Zenon DEF InterfaceInv
      <3>2. VersionedSymbol(s.file, s.name) \in Cell
        BY <2>2, SymbolIsCell, Zenon DEF InterfaceInv
      <3>3. /\ address'[Place(i)].file = s.file /\ address'[Place(i)].name = s.name
            /\ address'[Place(i)].version = loaded[s.file]
        BY <3>1 DEF VersionedSymbol
      <3> QED
        BY <1>1, <2>3, <2>4, <3>1, <3>2, <3>3, SMTT(30) DEF LeadsTo, Resolves
    <2>5. CASE ~Resolves(s.file, s.name)
      <3>1. address'[Place(i)] = to
        BY <1>1, <2>5, Updated, Zenon DEF InterfaceInv
      <3> QED
        BY <1>1, <2>1, <2>3, <2>5, <3>1, SMTT(30) DEF LeadsTo, Resolves, is_loaded
    <2> QED
      BY <2>4, <2>5, Zenon
  <1>4. CellsInv'
    BY <1>1, <1>3, Zenon DEF CellsInv
  <1>5. InterfaceTypes'
    <2>1. /\ DOMAIN address = {Place(i) : i \in 1 .. Len(trampolines)}
          /\ address' = [at \in DOMAIN address |-> address'[at]]
      <3>1. DOMAIN address = {Place(i) : i \in 1 .. Len(trampolines)}
        BY Zenon DEF InterfaceInv, InterfaceTypes
      <3>2. address' = [at \in DOMAIN address |-> address'[at]]
        BY <1>1 DEF trampoline_update
      <3> QED
        BY <3>1, <3>2, Zenon
    <2>2. \A at \in DOMAIN address : address'[at] \in Cell
      BY <1>3, <2>1, Zenon
    <2>3. address' \in [{Place(i) : i \in 1 .. Len(trampolines)} -> Cell]
      BY <2>1, <2>2, Zenon
    <2> QED
      BY <1>1, <2>3, Zenon DEF InterfaceInv, InterfaceTypes
  <1> QED
    BY <1>2, <1>4, <1>5, Zenon DEF InterfaceInv

(* A symbol that has a trampoline gets that one; its cell is renewed.      *)
LEMMA KnownStep ==
  ASSUME InterfaceInv, NEW f \in Openable, NEW n \in SymbolName, Resolves(f, n),
         NEW i \in 1 .. Len(trampolines), trampolines[i] = VersionedSymbol(f, n),
         UNCHANGED <<loaded, updates, trampolines, blocks>>,
         address' = Assigned(address, Place(i), VersionedSymbol(f, n)),
         pointers' = pointers \cup {[symbol |-> VersionedSymbol(f, n), at |-> Place(i)]}
  PROVE  InterfaceInv'
  <1> DEFINE sym == VersionedSymbol(f, n)
             Places == {Place(k) : k \in 1 .. Len(trampolines)}
  <1>1. /\ loaded' = loaded /\ updates' = updates /\ trampolines' = trampolines
        /\ blocks' = blocks
    BY Zenon
  <1>2. SymbolsInv' /\ OneInv' /\ BlocksInv'
    BY <1>1, Zenon DEF InterfaceInv, SymbolsInv, OneInv, BlocksInv
  <1>3. sym \in Cell /\ sym.file = f /\ sym.name = n /\ sym.version = loaded[f]
    BY SymbolIsCell, SymbolFields, Zenon DEF InterfaceInv
  <1>4. /\ DOMAIN address = Places /\ Place(i) \in Places
        /\ \A at \in DOMAIN address : address[at] \in Cell
    BY Zenon DEF InterfaceInv, InterfaceTypes
  <1>5. address' = [at \in Places |-> IF at = Place(i) THEN sym ELSE address[at]]
    BY <1>4, Zenon DEF Assigned
  <1>6. InterfaceTypes'
    <2>1. address' \in [Places -> Cell]
      BY <1>3, <1>4, <1>5, Zenon
    <2> QED
      BY <1>1, <2>1, Zenon DEF InterfaceInv, InterfaceTypes
  <1>7. ASSUME NEW k \in 1 .. Len(trampolines)
        PROVE  LeadsTo(address[Place(k)], trampolines[k])'
    <2>1. LeadsTo(address[Place(k)], trampolines[k])
      BY Zenon DEF InterfaceInv, CellsInv
    <2>2. CASE k = i
      <3>1. address'[Place(k)] = sym /\ trampolines'[k] = sym
        BY <1>1, <1>4, <1>5, <2>2, Zenon
      <3>2. /\ sym.version <= sym.version /\ sym.name \in Def[sym.file][sym.version]
        BY <1>3, CellFields DEF Resolves
      <3> QED
        BY <1>1, <1>3, <3>1, <3>2, SMTT(30) DEF LeadsTo
    <2>3. CASE k # i
      <3>1. Place(k) # Place(i)
        <4>1. Len(trampolines) \in Nat
          BY DEF InterfaceInv, InterfaceTypes
        <4> QED
          BY <2>3, <4>1, PointerInjective DEF Place
      <3>2. address'[Place(k)] = address[Place(k)]
        BY <1>5, <3>1, Zenon
      <3> QED
        BY <1>1, <2>1, <3>2, SMTT(30) DEF LeadsTo, Resolves, is_loaded
    <2> QED
      BY <2>2, <2>3, Zenon
  <1>8. CellsInv'
    BY <1>1, <1>7, Zenon DEF CellsInv
  <1>9. PointersInv'
    <2> SUFFICES ASSUME NEW p \in pointers'
                 PROVE  \E k \in 1 .. Len(trampolines) :
                          p.symbol = trampolines[k] /\ p.at = Place(k)
      BY <1>1, Zenon DEF PointersInv
    <2>1. CASE p \in pointers
      BY <2>1, Zenon DEF InterfaceInv, PointersInv
    <2>2. CASE p = [symbol |-> sym, at |-> Place(i)]
      BY <2>2, Zenon
    <2> QED
      BY <2>1, <2>2, Zenon
  <1> QED
    BY <1>2, <1>6, <1>8, <1>9, Zenon DEF InterfaceInv

(* A new symbol gets the next trampoline, in a new block if the last one   *)
(* is full (Trampoline::allocate).                                         *)
LEMMA NewStep ==
  ASSUME InterfaceInv, NEW f \in Openable, NEW n \in SymbolName, Resolves(f, n),
         index(VersionedSymbol(f, n)) = {},
         UNCHANGED <<loaded, updates>>,
         trampolines' = Append(trampolines, VersionedSymbol(f, n)),
         blocks' = IF Full THEN blocks + 1 ELSE blocks,
         address' = Assigned(address, pointer(Len(trampolines)), VersionedSymbol(f, n)),
         pointers' = pointers \cup
           {[symbol |-> VersionedSymbol(f, n), at |-> pointer(Len(trampolines))]}
  PROVE  InterfaceInv'
  <1> DEFINE sym == VersionedSymbol(f, n)
             len == Len(trampolines)
             Places == {Place(k) : k \in 1 .. len}
  <1>1. loaded' = loaded /\ updates' = updates
    BY Zenon
  <1>2. trampolines \in Seq(Cell) /\ len \in Nat /\ blocks \in Nat
    BY DEF InterfaceInv, InterfaceTypes
  <1>3. sym \in Cell /\ sym.file = f /\ sym.name = n /\ sym.version = loaded[f]
    BY SymbolIsCell, SymbolFields, Zenon DEF InterfaceInv
  <1>4. Place(len + 1) = pointer(len)
    BY <1>2 DEF Place
  <1>5. /\ Len(trampolines') = len + 1 /\ trampolines' \in Seq(Cell)
        /\ trampolines'[len + 1] = sym
        /\ \A k \in 1 .. len : trampolines'[k] = trampolines[k]
    BY <1>2, <1>3
  <1>6. 1 .. (len + 1) = (1 .. len) \cup {len + 1} /\ len + 1 \notin 1 .. len
    BY <1>2
  <1>7. 1 .. Len(trampolines') = (1 .. len) \cup {len + 1}
    BY <1>5, <1>6, Zenon
  <1>8. ASSUME NEW k \in 1 .. len PROVE Place(k) # Place(len + 1)
    <2>1. k - 1 \in Nat /\ k - 1 # len
      BY <1>2
    <2>2. pointer(k - 1) # pointer(len)
      BY <1>2, <2>1, PointerInjective, Zenon
    <2> QED
      BY <1>4, <2>2, Zenon DEF Place
  <1>9. /\ DOMAIN address = Places /\ \A at \in Places : address[at] \in Cell
    BY Zenon DEF InterfaceInv, InterfaceTypes
  <1>10. address' = [at \in Places \cup {Place(len + 1)} |->
                       IF at = Place(len + 1) THEN sym ELSE address[at]]
    BY <1>4, <1>9, Zenon DEF Assigned
  <1>11. /\ address'[Place(len + 1)] = sym
         /\ \A k \in 1 .. len : address'[Place(k)] = address[Place(k)]
    BY <1>8, <1>10, Zenon
  <1>12. InterfaceTypes'
    <2>1. Places \cup {Place(len + 1)} = {Place(k) : k \in 1 .. Len(trampolines')}
      BY <1>7, Zenon
    <2>2. address' \in [Places \cup {Place(len + 1)} -> Cell]
      BY <1>3, <1>9, <1>10, Zenon
    <2>3. address' \in [{Place(k) : k \in 1 .. Len(trampolines')} -> Cell]
      BY <2>1, <2>2, Zenon
    <2>4. blocks' \in Nat
      BY <1>2
    <2>5. loaded' \in [Openable -> Nat] /\ updates' \in BOOLEAN
      BY <1>1, Zenon DEF InterfaceInv, InterfaceTypes
    <2> QED
      BY <1>5, <2>3, <2>4, <2>5, Zenon DEF InterfaceTypes
  <1>13. 0 < sym.version /\ sym.version <= loaded[sym.file]
    <2>1. loaded[f] \in Nat /\ loaded[f] # 0
      BY Zenon DEF InterfaceInv, InterfaceTypes, Resolves, is_loaded
    <2> QED
      BY <1>3, <2>1
  <1>14. SymbolsInv'
    BY <1>1, <1>5, <1>7, <1>13, Zenon DEF InterfaceInv, SymbolsInv
  <1>15. OneInv'
    <2>1. ASSUME NEW k \in 1 .. len PROVE trampolines[k] # sym
      BY <1>2 DEF index
    <2> SUFFICES ASSUME NEW i \in 1 .. Len(trampolines'), NEW j \in 1 .. Len(trampolines'),
                        trampolines'[i] = trampolines'[j]
                 PROVE  i = j
      BY Zenon DEF OneInv
    <2>2. CASE i \in 1 .. len /\ j \in 1 .. len
      BY <1>5, <2>2, Zenon DEF InterfaceInv, OneInv
    <2>3. CASE i = len + 1 /\ j \in 1 .. len
      BY <1>5, <2>1, <2>3, Zenon
    <2>4. CASE i \in 1 .. len /\ j = len + 1
      BY <1>5, <2>1, <2>4, Zenon
    <2> QED
      BY <1>7, <2>2, <2>3, <2>4, Zenon
  <1>16. BlocksInv'
    <2>1. blocks <= blocks'
      BY <1>2
    <2>2. ASSUME NEW k \in 1 .. len PROVE Place(k).block <= blocks'
      <3>1. Place(k).block = ((k - 1) \div entries_per_block) + 1 /\ k - 1 \in Nat
        BY <1>2 DEF Place, pointer
      <3>2. Place(k).block \in Nat
        <4>1. (k - 1) \div entries_per_block \in Nat
          BY <3>1, NextBlock, InterfaceAssumption, Zenon
        <4> QED
          BY <3>1, <4>1
      <3>3. Place(k).block <= blocks
        BY Zenon DEF InterfaceInv, BlocksInv
      <3> QED
        BY <1>2, <2>1, <3>2, <3>3
    <2>3. Place(len + 1).block <= blocks'
      <3> DEFINE q(k) == k \div entries_per_block
      <3>1. Place(len + 1).block = q(len) + 1
        BY <1>4 DEF pointer
      <3>2. q(len) \in Nat /\ q(len + 1) \in Nat /\ q(len) <= q(len + 1)
        <4>1. len + 1 \in Nat
          BY <1>2
        <4> QED
          BY <1>2, <4>1, NextBlock, InterfaceAssumption, Zenon
      <3>3. q(len) <= blocks
        <4>1. CASE len = 0
          BY <1>2, <4>1, NextBlock, InterfaceAssumption
        <4>2. CASE len # 0
          <5>1. len - 1 \in Nat /\ len \in 1 .. len /\ (len - 1) + 1 = len
            BY <1>2, <4>2
          <5>2. q(len - 1) \in Nat /\ q((len - 1) + 1) <= q(len - 1) + 1
            BY <5>1, NextBlock, InterfaceAssumption, Zenon
          <5>3. Place(len).block = q(len - 1) + 1 /\ Place(len).block <= blocks
            BY <5>1, Zenon DEF InterfaceInv, BlocksInv, Place, pointer
          <5> HIDE DEF q
          <5> QED
            BY <1>2, <3>2, <5>1, <5>2, <5>3
        <4> QED
          BY <4>1, <4>2, Zenon
      <3>4. Full <=> q(len + 1) >= blocks
        BY Zenon DEF Full
      <3> HIDE DEF q
      <3> QED
        BY <1>2, <3>1, <3>2, <3>3, <3>4
    <2> QED
      BY <1>7, <2>2, <2>3, Zenon DEF BlocksInv
  <1>17. CellsInv'
    <2> SUFFICES ASSUME NEW k \in 1 .. Len(trampolines')
                 PROVE  LeadsTo(address[Place(k)], trampolines[k])'
      BY Zenon DEF CellsInv
    <2>1. CASE k \in 1 .. len
      <3>1. LeadsTo(address[Place(k)], trampolines[k])
        BY <2>1, Zenon DEF InterfaceInv, CellsInv
      <3>2. address'[Place(k)] = address[Place(k)] /\ trampolines'[k] = trampolines[k]
        BY <1>5, <1>11, <2>1, Zenon
      <3> QED
        BY <1>1, <3>1, <3>2, SMTT(30) DEF LeadsTo, Resolves, is_loaded
    <2>2. CASE k = len + 1
      <3>1. address'[Place(k)] = sym /\ trampolines'[k] = sym
        BY <1>5, <1>11, <2>2, Zenon
      <3>2. sym.version <= sym.version /\ sym.name \in Def[sym.file][sym.version]
        BY <1>3, CellFields DEF Resolves
      <3> QED
        BY <1>1, <1>3, <3>1, <3>2, SMTT(30) DEF LeadsTo
    <2> QED
      BY <1>7, <2>1, <2>2, Zenon
  <1>18. PointersInv'
    <2> SUFFICES ASSUME NEW p \in pointers'
                 PROVE  \E k \in 1 .. Len(trampolines') :
                          p.symbol = trampolines'[k] /\ p.at = Place(k)
      BY Zenon DEF PointersInv
    <2>1. CASE p \in pointers
      <3>1. PICK k \in 1 .. len : p.symbol = trampolines[k] /\ p.at = Place(k)
        BY <2>1, Zenon DEF InterfaceInv, PointersInv
      <3> QED
        BY <1>5, <1>7, <3>1, Zenon
    <2>2. CASE p = [symbol |-> sym, at |-> pointer(len)]
      <3>1. p.symbol = sym /\ p.at = Place(len + 1)
        BY <1>4, <2>2, Zenon
      <3> QED
        BY <1>5, <1>7, <3>1, Zenon
    <2> QED
      BY <2>1, <2>2, Zenon
  <1> QED
    BY <1>12, <1>14, <1>15, <1>16, <1>17, <1>18, Zenon DEF InterfaceInv

(* _dlvsym with Trampoline::set.                                           *)
LEMMA SymStep ==
  ASSUME InterfaceInv, NEW f \in Openable, NEW n \in SymbolName, NEW memory \in BOOLEAN,
         dlsym(f, n, memory)
  PROVE  InterfaceInv'
  <1> DEFINE sym == VersionedSymbol(f, n)
             known == index(sym)
             found == CHOOSE i \in known : TRUE
  <1>1. loaded' = loaded /\ updates' = updates
    BY Zenon DEF dlsym
  <1>2. CASE UNCHANGED <<trampolines, blocks, address, pointers>>
    BY <1>1, <1>2, SameInterface, Zenon
  <1>3. CASE /\ Resolves(f, n) /\ set(sym, memory)
             /\ ~UNCHANGED <<trampolines, blocks, address, pointers>>
    <2>1. sym.file = f /\ sym.name = n
      BY SymbolFields, Zenon
    <2>2. CASE known = {}
      <3>1. /\ trampolines' = Append(trampolines, sym)
            /\ blocks' = IF Full THEN blocks + 1 ELSE blocks
            /\ address' = Assigned(address, pointer(Len(trampolines)), sym)
            /\ pointers' = pointers \cup {[symbol |-> sym, at |-> pointer(Len(trampolines))]}
        BY <1>3, <2>1, <2>2, Zenon DEF set
      <3> QED
        BY <1>1, <1>3, <2>2, <3>1, NewStep, Zenon
    <2>3. CASE known # {}
      <3>1. found \in known
        BY <2>3, Zenon
      <3>2. found \in 1 .. Len(trampolines) /\ trampolines[found] = sym
        BY <3>1 DEF index, InterfaceInv, InterfaceTypes
      <3>3. /\ trampolines' = trampolines /\ blocks' = blocks
            /\ address' = Assigned(address, Place(found), sym)
            /\ pointers' = pointers \cup {[symbol |-> sym, at |-> Place(found)]}
        BY <1>3, <2>1, <2>3, Zenon DEF set, Place
      <3> QED
        BY <1>1, <1>3, <3>2, <3>3, KnownStep, Zenon
    <2> QED
      BY <2>2, <2>3, Zenon
  <1> QED
    BY <1>2, <1>3, Zenon DEF dlsym

(* Every function of the interface and every update keeps the invariant.   *)
LEMMA NextInterface ==
  ASSUME InterfaceInv, [InterfaceNext]_interfaceVars
  PROVE  InterfaceInv'
  <1>1. ASSUME NEW f \in Openable, Load(f) PROVE InterfaceInv'
    BY <1>1, LoadStep, Zenon
  <1>2. ASSUME NEW f \in Openable, NEW found \in BOOLEAN, dlmopen(f, found) PROVE InterfaceInv'
    BY <1>2, OpenStep, Zenon
  <1>3. CASE Relocate
    BY <1>3, RelocateStep, Zenon
  <1>4. CASE dlclose \/ dlerror
    BY <1>4, SameInterface, Zenon DEF dlclose, dlerror
  <1>5. ASSUME NEW f \in Openable, NEW n \in SymbolName, NEW memory \in BOOLEAN,
               dlsym(f, n, memory)
        PROVE  InterfaceInv'
    BY <1>5, SymStep, Zenon
  <1>6. ASSUME NEW t \in Caller, NEW f \in Openable,
               NEW r \in {"SERINFOSIZE", "SERINFO", "unknown"}, dlinfo(t, f, r)
        PROVE  InterfaceInv'
    BY <1>6, SameInterface, Zenon DEF dlinfo
  <1>7. CASE UNCHANGED interfaceVars
    BY <1>7, SameInterface, Zenon DEF interfaceVars
  <1> QED
    BY <1>1, <1>2, <1>3, <1>4, <1>5, <1>6, <1>7, Zenon DEF InterfaceNext

(* The invariant implies the property: a pointer is a trampoline, and no   *)
(* two symbols share one.                                                  *)
THEOREM PointersCorrect == InterfaceSpec => []PointersLead
  <1>1. InterfaceInv => PointersLead
    <2> SUFFICES ASSUME InterfaceInv, NEW p \in pointers
                 PROVE  LET to == address[p.at]
                        IN  /\ p.at.block <= blocks
                            /\ \A q \in pointers : p.at = q.at => p.symbol = q.symbol
                            /\ to.file = p.symbol.file /\ to.name = p.symbol.name
                            /\ to.version >= p.symbol.version
                            /\ to.name \in Def[to.file][to.version]
                            /\ ~updates /\ Resolves(to.file, to.name) =>
                                 to.version = loaded[to.file]
      BY Zenon DEF PointersLead
    <2>1. PICK i \in 1 .. Len(trampolines) : p.symbol = trampolines[i] /\ p.at = Place(i)
      BY Zenon DEF InterfaceInv, PointersInv
    <2>2. p.at.block <= blocks
      BY <2>1, Zenon DEF InterfaceInv, BlocksInv
    <2>3. ASSUME NEW q \in pointers, p.at = q.at PROVE p.symbol = q.symbol
      <3>1. PICK j \in 1 .. Len(trampolines) : q.symbol = trampolines[j] /\ q.at = Place(j)
        BY Zenon DEF InterfaceInv, PointersInv
      <3>2. Len(trampolines) \in Nat
        BY DEF InterfaceInv, InterfaceTypes
      <3>3. i - 1 \in Nat /\ j - 1 \in Nat /\ (i - 1 = j - 1 => i = j)
        BY <3>2
      <3>4. pointer(i - 1) = pointer(j - 1)
        BY <2>1, <2>3, <3>1, Zenon DEF Place
      <3>5. i = j
        BY <3>3, <3>4, PointerInjective, Zenon
      <3> QED
        BY <2>1, <3>1, <3>5, Zenon
    <2>4. LeadsTo(address[p.at], p.symbol)
      BY <2>1, Zenon DEF InterfaceInv, CellsInv
    <2>5. address[p.at].version \in Nat /\ p.symbol.version \in Nat
      BY <2>1, SymbolTypes, CellFields, Zenon DEF InterfaceInv
    <2>6. address[p.at].version >= p.symbol.version
      BY <2>4, <2>5, Zenon DEF LeadsTo
    <2> QED
      BY <2>2, <2>3, <2>4, <2>6, Zenon DEF LeadsTo
  <1> QED
    BY <1>1, InitInterface, NextInterface, PTL DEF InterfaceSpec
=============================================================================
