---------------------------- MODULE WindowsProofs ----------------------------
(***************************************************************************)
(* Proofs about Windows, for any number of surfaces, ids and messages on   *)
(* their way: the registry stays whole through every teardown, and the     *)
(* shell comes to have what the embedder has.                              *)
(***************************************************************************)
EXTENDS Windows, FiniteSetTheorems, SequenceTheorems, TLAPS

----------------------------------------------------------------------------
(* The inductive invariant: the embedder *)

Events == [kind : Kinds, id : Ids, flag : BOOLEAN, parent : Ids \cup {None}]

Types ==
    /\ live \subseteq Surfaces /\ roles \subseteq Surfaces
    /\ DOMAIN windowOf \subseteq Surfaces /\ DOMAIN popupOf \subseteq Surfaces
    /\ \A w \in DOMAIN windows :
          windows[w] \in [surface : Surfaces, mapped : BOOLEAN, game : BOOLEAN]
    /\ \A p \in DOMAIN popups : popups[p] \in [surface : Surfaces, parent : Ids]
    /\ used \in 0 .. MaxIds
    /\ toShell \in Seq(Events) /\ toEmbedder \in Seq(Ids)
    /\ gaming \in Ids \cup {None}

\* A surface that leads to a window or popup lives and has its role still.
Led ==
    /\ DOMAIN windowOf \subseteq live \cap roles \cap (Toplevels \cup X11Surfaces)
    /\ DOMAIN popupOf \subseteq live \cap roles \cap PopupSurfaces

Given == 1 .. used

\* No id is given out twice.
Spent ==
    /\ DOMAIN windows \cup DOMAIN popups \subseteq Given
    /\ known \cup DOMAIN arriving \cup DOMAIN shown \subseteq Given
    /\ \A i \in DOMAIN toShell : toShell[i].id \in Given
    /\ route.of \in Given \cup {None}

----------------------------------------------------------------------------
(* The shell, and what is on its way to it *)

Is(i, kind, id) == i \in DOMAIN toShell /\ toShell[i].kind = kind /\ toShell[i].id = id

Before(kind, id, i) == \E j \in DOMAIN toShell : j < i /\ Is(j, kind, id)

\* The windows the shell has, or has heard of
Here == known \cup (DOMAIN arriving \ gone)

\* The shell will have heard of window w, or popup p, when it comes to message i; and
\* of its end.
Came(w, i)   == w \in Here \/ Before("created", w, i)
Left(w, i)   == Before("removed", w, i)
Opened(p, i) == p \in DOMAIN shown \/ Before("popup", p, i)
Ended(p, i)  == Before("popupRemoved", p, i)
OpensOver(i, p, w) == Is(i, "popup", p) /\ toShell[i].parent = w
Child(p, w, i) ==
    \/ p \in DOMAIN shown /\ shown[p] = w
    \/ \E j \in DOMAIN toShell : j < i /\ OpensOver(j, p, w)
End == Len(toShell) + 1

\* The window a message is about
Concerns(i, w) ==
    \/ \E kind \in {"mapped", "game", "removed"} : Is(i, kind, w)
    \/ \E p \in Ids : OpensOver(i, p, w)

\* Nothing is said of a window before its creation or after its removal.
WindowOrder ==
    /\ \A i \in DOMAIN toShell, w \in Ids : Concerns(i, w) => Came(w, i) /\ ~Left(w, i)
    /\ \A i \in DOMAIN toShell, w \in Ids : Is(i, "created", w) =>
          w \notin known \cup DOMAIN arriving /\ ~Before("created", w, i)

\* A popup is shown and ended once, and ended before its window is.
PopupOrder ==
    /\ \A i \in DOMAIN toShell, p \in Ids : Is(i, "popup", p) =>
          ~Opened(p, i) /\ toShell[i].parent \in Ids
    /\ \A i \in DOMAIN toShell, p \in Ids : Is(i, "popupRemoved", p) =>
          Opened(p, i) /\ ~Ended(p, i)
    /\ \A i \in DOMAIN toShell, w, p \in Ids :
          Is(i, "removed", w) /\ Child(p, w, i) => Ended(p, i)
    /\ \A p \in DOMAIN shown : shown[p] \in Here

\* What the shell has, and is yet to hear, is what the embedder has.
Books ==
    /\ \A w \in Ids : w \in DOMAIN windows <=> Came(w, End) /\ ~Left(w, End)
    /\ \A p \in Ids : p \in DOMAIN popups <=> Opened(p, End) /\ ~Ended(p, End)
    /\ \A p \in DOMAIN popups, w \in Ids : Child(p, w, End) => popups[p].parent = w
    /\ gone \subseteq DOMAIN arriving /\ known \cap DOMAIN arriving = {}
    /\ DOMAIN mirror = known
    /\ \A w \in known : mirror[w] \in [mapped : BOOLEAN, game : BOOLEAN]
    /\ \A w \in DOMAIN arriving : arriving[w] \in BOOLEAN

\* Message i says whether window w is mapped.
Says(i, w) == Is(i, "created", w) \/ Is(i, "mapped", w)

\* The last that is said of a window is so.
MappedTold ==
    \A w \in DOMAIN windows \ missed :
        /\ \A i \in DOMAIN toShell :
              Says(i, w) /\ (\A j \in DOMAIN toShell : Says(j, w) => j <= i) =>
                  toShell[i].flag = windows[w].mapped
        /\ (\A i \in DOMAIN toShell : ~Says(i, w)) =>
              /\ w \in known => mirror[w].mapped = windows[w].mapped
              /\ w \in DOMAIN arriving => arriving[w] = windows[w].mapped

\* There is one takeover, and it is in one place: asked for, had, or given up.
Asked(w)   == toEmbedder # <<>> /\ Head(toEmbedder) = w
GivenUp(w) == \E i \in DOMAIN toShell : Is(i, "game", w)
Takeover ==
    /\ Len(toEmbedder) <= 1
    /\ \A i \in DOMAIN toShell, w \in Ids : Is(i, "game", w) =>
          /\ \A v \in Ids : ~Before("game", v, i)
          /\ gaming = None /\ toEmbedder = <<>>
    /\ gaming # None => toEmbedder = <<>>
    /\ \A w \in Ids : Asked(w) \/ gaming = w \/ GivenUp(w) =>
          /\ route = [of |-> w, zooming |-> FALSE]
          /\ w \in known => mirror[w].game
    /\ \A w \in known : mirror[w].game =>
          /\ route = [of |-> w, zooming |-> FALSE]
          /\ Asked(w) \/ gaming = w \/ GivenUp(w) \/ w \notin DOMAIN windows
    /\ route.of \notin DOMAIN arriving
    /\ \A i \in DOMAIN toShell : ~Is(i, "created", route.of)
    /\ route \in [of : Ids \cup {None}, zooming : BOOLEAN]
    /\ route.zooming => route.of # None

WindowsInv ==
    Types /\ Led /\ Spent /\ RegistryAgrees
    /\ WindowOrder /\ PopupOrder /\ Books /\ MappedTold /\ Takeover

----------------------------------------------------------------------------
(* The queue *)

\* What is appended comes after what was there.
LEMMA Appending ==
    ASSUME toShell \in Seq(Events), NEW es \in Seq(Events), toShell' = toShell \o es
    PROVE  /\ toShell' \in Seq(Events)
           /\ Len(toShell) \in Nat /\ Len(es) \in Nat /\ Len(toShell') = Len(toShell) + Len(es)
           /\ DOMAIN toShell = 1 .. Len(toShell)
           /\ DOMAIN toShell' = 1 .. Len(toShell) + Len(es)
           /\ \A i \in DOMAIN toShell : toShell'[i] = toShell[i]
           /\ \A k \in 1 .. Len(es) : toShell'[Len(toShell) + k] = es[k]
<1>1. /\ toShell \o es \in Seq(Events)
      /\ Len(toShell \o es) = Len(toShell) + Len(es)
      /\ \A i \in 1 .. Len(toShell) : (toShell \o es)[i] = toShell[i]
      /\ \A i \in 1 .. Len(es) : (toShell \o es)[Len(toShell) + i] = es[i]
  BY ConcatProperties
<1>2. Len(toShell) \in Nat /\ Len(es) \in Nat /\ DOMAIN toShell = 1 .. Len(toShell)
  BY LenProperties
<1>3. DOMAIN toShell' = 1 .. Len(toShell')
  BY <1>1, LenProperties
<1>4. QED
  BY <1>1, <1>2, <1>3

\* What one more message changes of what comes before what.
LEMMA Telling ==
    ASSUME toShell \in Seq(Events), NEW e \in Events, toShell' = toShell \o <<e>>
    PROVE  /\ toShell' \in Seq(Events) /\ End \in Nat
           /\ DOMAIN toShell' = DOMAIN toShell \cup {End} /\ End \notin DOMAIN toShell
           /\ \A i \in DOMAIN toShell : toShell'[i] = toShell[i] /\ i < End
           /\ toShell'[End] = e
           /\ \A i \in DOMAIN toShell \cup {End} : \A kind, id :
                 Before(kind, id, i)' <=> Before(kind, id, i)
           /\ \A i \in DOMAIN toShell \cup {End} : \A p, w :
                 (\E j \in DOMAIN toShell' : j < i /\ OpensOver(j, p, w)')
                    <=> (\E j \in DOMAIN toShell : j < i /\ OpensOver(j, p, w))
           /\ \A kind, id : Before(kind, id, End)'
                               <=> Before(kind, id, End) \/ (e.kind = kind /\ e.id = id)
           /\ End' = End + 1
<1>1. <<e>> \in Seq(Events) /\ Len(<<e>>) = 1 /\ <<e>>[1] = e
  OBVIOUS
<1>2. /\ toShell' \in Seq(Events) /\ Len(toShell) \in Nat /\ Len(toShell') = Len(toShell) + 1
      /\ DOMAIN toShell = 1 .. Len(toShell) /\ DOMAIN toShell' = 1 .. Len(toShell) + 1
      /\ \A i \in DOMAIN toShell : toShell'[i] = toShell[i]
      /\ toShell'[Len(toShell) + 1] = e
  <2>1. /\ \A k \in 1 .. Len(<<e>>) : toShell'[Len(toShell) + k] = <<e>>[k]
        /\ toShell' \in Seq(Events) /\ Len(toShell) \in Nat
        /\ Len(toShell') = Len(toShell) + Len(<<e>>)
        /\ DOMAIN toShell = 1 .. Len(toShell)
        /\ DOMAIN toShell' = 1 .. Len(toShell) + Len(<<e>>)
        /\ \A i \in DOMAIN toShell : toShell'[i] = toShell[i]
    BY <1>1, Appending
  <2>2. 1 \in 1 .. Len(<<e>>)
    BY <1>1
  <2>3. QED
    BY <1>1, <2>1, <2>2
<1>3. /\ End \in Nat /\ DOMAIN toShell' = DOMAIN toShell \cup {End} /\ End \notin DOMAIN toShell
      /\ \A i \in DOMAIN toShell : i < End
      /\ toShell'[End] = e /\ End' = End + 1
  BY <1>2 DEF End
<1>4. \A i \in DOMAIN toShell : \A kind, id : Is(i, kind, id)' <=> Is(i, kind, id)
  BY <1>2, <1>3 DEF Is
<1>5. \A i \in DOMAIN toShell : \A p, w : OpensOver(i, p, w)' <=> OpensOver(i, p, w)
  BY <1>2, <1>4 DEF OpensOver
<1>6. \A i \in DOMAIN toShell \cup {End}, j \in DOMAIN toShell' : j < i => j \in DOMAIN toShell
  BY <1>2 DEF End
<1>7. \A i \in DOMAIN toShell \cup {End} : \A kind, id : Before(kind, id, i)' <=> Before(kind, id, i)
  BY <1>3, <1>4, <1>6 DEF Before
<1>8. \A i \in DOMAIN toShell \cup {End} : \A p, w :
         (\E j \in DOMAIN toShell' : j < i /\ OpensOver(j, p, w)')
            <=> (\E j \in DOMAIN toShell : j < i /\ OpensOver(j, p, w))
  BY <1>3, <1>5, <1>6
<1>9. \A kind, id : Before(kind, id, End)'
                       <=> Before(kind, id, End) \/ (e.kind = kind /\ e.id = id)
  <2>1. \A j \in DOMAIN toShell' : j < End'
    BY <1>2 DEF End
  <2>2. \A j \in DOMAIN toShell : j < End
    BY <1>3
  <2>3. \A kind, id : Before(kind, id, End)' <=> \E j \in DOMAIN toShell' : Is(j, kind, id)'
    BY <2>1 DEF Before
  <2>4. \A kind, id : Before(kind, id, End) <=> \E j \in DOMAIN toShell : Is(j, kind, id)
    BY <2>2 DEF Before
  <2>5. ASSUME NEW n, n = End PROVE \A kind, id : Is(n, kind, id)' <=> e.kind = kind /\ e.id = id
    BY <1>3, <2>5 DEF Is
  <2>6. QED
    BY <1>3, <1>4, <2>3, <2>4, <2>5
<1>10. QED
  BY <1>2, <1>3, <1>7, <1>8, <1>9

\* What the first message, once read, leaves of what comes before what.
ReadOff(e) ==
    /\ toShell' \in Seq(Events) /\ e \in Events /\ End \in Nat /\ End = End' + 1
    /\ 1 \in DOMAIN toShell /\ toShell[1] = e
    /\ DOMAIN toShell \subseteq Nat \ {0} /\ DOMAIN toShell' \subseteq Nat \ {0}
    /\ \A i \in DOMAIN toShell' : i + 1 \in DOMAIN toShell /\ toShell'[i] = toShell[i + 1]
    /\ \A i \in DOMAIN toShell : i # 1 => i - 1 \in DOMAIN toShell'
    /\ \A i \in DOMAIN toShell' \cup {End'} : \A kind, id :
          Before(kind, id, i + 1) <=> (e.kind = kind /\ e.id = id) \/ Before(kind, id, i)'
    /\ \A i \in DOMAIN toShell' \cup {End'} : \A p, w :
          (\E j \in DOMAIN toShell : j < i + 1 /\ OpensOver(j, p, w))
             <=> \/ e.kind = "popup" /\ e.id = p /\ e.parent = w
                 \/ \E j \in DOMAIN toShell' : j < i /\ OpensOver(j, p, w)'
    /\ \A kind, id : ~Before(kind, id, 1)
    /\ \A p, w : ~\E j \in DOMAIN toShell : j < 1 /\ OpensOver(j, p, w)

LEMMA Reading ==
    ASSUME toShell \in Seq(Events), toShell # <<>>, NEW e, e = Head(toShell),
           toShell' = Tail(toShell)
    PROVE  ReadOff(e)
<1>1. /\ toShell' \in Seq(Events) /\ Len(toShell') = Len(toShell) - 1 /\ e \in Events
      /\ \A i \in 1 .. Len(toShell') : toShell'[i] = toShell[i + 1]
  BY HeadTailProperties
<1>2. /\ Len(toShell) \in Nat /\ Len(toShell) > 0
      /\ DOMAIN toShell = 1 .. Len(toShell)
  BY EmptySeq, LenProperties
<1>3. DOMAIN toShell' = 1 .. Len(toShell) - 1
  BY <1>1, LenProperties
<1>4. toShell[1] = e
  OBVIOUS
<1>5. /\ 1 \in DOMAIN toShell
      /\ DOMAIN toShell \subseteq Nat \ {0} /\ DOMAIN toShell' \subseteq Nat \ {0}
      /\ \A i \in DOMAIN toShell' : i + 1 \in DOMAIN toShell /\ toShell'[i] = toShell[i + 1]
      /\ \A i \in DOMAIN toShell : i # 1 => i - 1 \in DOMAIN toShell' /\ i - 1 + 1 = i
  BY <1>1, <1>2, <1>3
<1>6. End \in Nat /\ End = End' + 1 /\ End' \in Nat
  BY <1>1, <1>2 DEF End
<1>7. \A j \in DOMAIN toShell' : \A kind, id : Is(j, kind, id)' <=> Is(j + 1, kind, id)
  BY <1>5 DEF Is
<1>8. \A j \in DOMAIN toShell' : \A p, w : OpensOver(j, p, w)' <=> OpensOver(j + 1, p, w)
  BY <1>5, <1>7 DEF OpensOver
<1>9. ASSUME NEW i \in DOMAIN toShell' \cup {End'}, NEW kind, NEW id
      PROVE  Before(kind, id, i + 1) <=> (e.kind = kind /\ e.id = id) \/ Before(kind, id, i)'
  <2>1. i \in Nat /\ i > 0
    BY <1>1, <1>2, <1>3, <1>6, <1>9 DEF End
  <2>2. Is(1, kind, id) <=> e.kind = kind /\ e.id = id
    BY <1>4, <1>5 DEF Is
  <2>3. ASSUME NEW j \in DOMAIN toShell, j < i + 1, Is(j, kind, id), j # 1
        PROVE  j - 1 \in DOMAIN toShell' /\ j - 1 < i /\ Is(j - 1, kind, id)'
    BY <1>5, <1>7, <2>1, <2>3
  <2>4. ASSUME NEW j \in DOMAIN toShell', j < i, Is(j, kind, id)'
        PROVE  j + 1 \in DOMAIN toShell /\ j + 1 < i + 1 /\ Is(j + 1, kind, id)
    BY <1>5, <1>7, <2>1, <2>4
  <2>5. 1 < i + 1
    BY <2>1
  <2>6. QED
    BY <1>5, <2>2, <2>3, <2>4, <2>5 DEF Before
<1>10. ASSUME NEW i \in DOMAIN toShell' \cup {End'}, NEW p, NEW w
       PROVE  (\E j \in DOMAIN toShell : j < i + 1 /\ OpensOver(j, p, w))
                 <=> \/ e.kind = "popup" /\ e.id = p /\ e.parent = w
                     \/ \E j \in DOMAIN toShell' : j < i /\ OpensOver(j, p, w)'
  <2>1. i \in Nat /\ i > 0
    BY <1>1, <1>2, <1>3, <1>6, <1>10 DEF End
  <2>2. OpensOver(1, p, w) <=> e.kind = "popup" /\ e.id = p /\ e.parent = w
    BY <1>4, <1>5 DEF Is, OpensOver
  <2>3. ASSUME NEW j \in DOMAIN toShell, j < i + 1, OpensOver(j, p, w), j # 1
        PROVE  j - 1 \in DOMAIN toShell' /\ j - 1 < i /\ OpensOver(j - 1, p, w)'
    BY <1>5, <1>8, <2>1, <2>3
  <2>4. ASSUME NEW j \in DOMAIN toShell', j < i, OpensOver(j, p, w)'
        PROVE  j + 1 \in DOMAIN toShell /\ j + 1 < i + 1 /\ OpensOver(j + 1, p, w)
    BY <1>5, <1>8, <2>1, <2>4
  <2>5. 1 < i + 1
    BY <2>1
  <2>6. QED
    BY <1>5, <2>2, <2>3, <2>4, <2>5
<1>11. \A j \in DOMAIN toShell : ~(j < 1)
  BY <1>5
<1>12. QED
  BY <1>1, <1>4, <1>5, <1>6, <1>9, <1>10, <1>11 DEF Before, ReadOff

heard == <<known, arriving, gone, shown>>

\* One more message, as long as the shell has read nothing
LEMMA Told ==
    ASSUME toShell \in Seq(Events), NEW e \in Events, toShell' = toShell \o <<e>>,
           UNCHANGED heard
    PROVE  /\ toShell' \in Seq(Events) /\ Here' = Here
           /\ \A i \in DOMAIN toShell : i \in DOMAIN toShell' /\ toShell'[i] = toShell[i]
           /\ \A i \in DOMAIN toShell : \A kind, id : Is(i, kind, id)' <=> Is(i, kind, id)
           /\ \A i \in DOMAIN toShell : \A p, w : OpensOver(i, p, w)' <=> OpensOver(i, p, w)
           /\ \A i \in DOMAIN toShell : \A w : Concerns(i, w)' <=> Concerns(i, w)
           /\ \A i \in DOMAIN toShell : \A id : /\ Came(id, i)' <=> Came(id, i)
                                                /\ Left(id, i)' <=> Left(id, i)
                                                /\ Opened(id, i)' <=> Opened(id, i)
                                                /\ Ended(id, i)' <=> Ended(id, i)
           /\ \A i \in DOMAIN toShell : \A p, w : Child(p, w, i)' <=> Child(p, w, i)
           /\ \A i \in DOMAIN toShell : \A kind, id : Before(kind, id, i)' <=> Before(kind, id, i)
           /\ \A i \in DOMAIN toShell' : i \notin DOMAIN toShell =>
                 /\ toShell'[i] = e /\ \A j \in DOMAIN toShell : j < i
                 /\ \A kind, id : Is(i, kind, id)' <=> e.kind = kind /\ e.id = id
                 /\ \A p, w : OpensOver(i, p, w)'
                                 <=> e.kind = "popup" /\ e.id = p /\ e.parent = w
                 /\ \A kind, id : Before(kind, id, i)' <=> Before(kind, id, End)
                 /\ \A id : /\ Came(id, i)' <=> Came(id, End)
                            /\ Left(id, i)' <=> Left(id, End)
                            /\ Opened(id, i)' <=> Opened(id, End)
                            /\ Ended(id, i)' <=> Ended(id, End)
                 /\ \A p, w : Child(p, w, i)' <=> Child(p, w, End)
           /\ \E i \in DOMAIN toShell' : i \notin DOMAIN toShell
           /\ \A i, j \in DOMAIN toShell' : i \notin DOMAIN toShell /\ j \notin DOMAIN toShell => i = j
           /\ \A id : /\ Came(id, End)' <=> Came(id, End) \/ (e.kind = "created" /\ e.id = id)
                      /\ Left(id, End)' <=> Left(id, End) \/ (e.kind = "removed" /\ e.id = id)
                      /\ Opened(id, End)' <=> Opened(id, End) \/ (e.kind = "popup" /\ e.id = id)
                      /\ Ended(id, End)' <=> Ended(id, End) \/ (e.kind = "popupRemoved" /\ e.id = id)
           /\ \A p, w : Child(p, w, End)' <=> Child(p, w, End)
                                              \/ (e.kind = "popup" /\ e.id = p /\ e.parent = w)
<1>1. /\ toShell' \in Seq(Events) /\ End \in Nat
      /\ DOMAIN toShell' = DOMAIN toShell \cup {End} /\ End \notin DOMAIN toShell
      /\ \A i \in DOMAIN toShell : toShell'[i] = toShell[i] /\ i < End
      /\ toShell'[End] = e
      /\ \A i \in DOMAIN toShell \cup {End} : \A kind, id :
            Before(kind, id, i)' <=> Before(kind, id, i)
      /\ \A i \in DOMAIN toShell \cup {End} : \A p, w :
            (\E j \in DOMAIN toShell' : j < i /\ OpensOver(j, p, w)')
               <=> (\E j \in DOMAIN toShell : j < i /\ OpensOver(j, p, w))
      /\ \A kind, id : Before(kind, id, End)'
                          <=> Before(kind, id, End) \/ (e.kind = kind /\ e.id = id)
      /\ End' = End + 1
  BY Telling
<1>2. Here' = Here /\ known' = known /\ shown' = shown
  BY DEF Here, heard
<1>3. \A i \in DOMAIN toShell : i \in DOMAIN toShell' /\ toShell'[i] = toShell[i] /\ i # End
  BY <1>1
<1>4. \A i \in DOMAIN toShell : \A kind, id : Is(i, kind, id)' <=> Is(i, kind, id)
  BY <1>3 DEF Is
<1>5. \A i \in DOMAIN toShell : \A p, w : OpensOver(i, p, w)' <=> OpensOver(i, p, w)
  BY <1>3, <1>4 DEF OpensOver
<1>6. \A i \in DOMAIN toShell : \A w : Concerns(i, w)' <=> Concerns(i, w)
  <2>1. Ids' = Ids
    BY DEF Ids
  <2>2. QED
    BY <1>4, <1>5, <2>1 DEF Concerns
<1>7. \A i \in DOMAIN toShell \cup {End} : \A id : /\ Came(id, i)' <=> Came(id, i)
                                                   /\ Left(id, i)' <=> Left(id, i)
                                                   /\ Opened(id, i)' <=> Opened(id, i)
                                                   /\ Ended(id, i)' <=> Ended(id, i)
  BY <1>1, <1>2 DEF Came, Left, Opened, Ended
<1>8. \A i \in DOMAIN toShell \cup {End} : \A p, w : Child(p, w, i)' <=> Child(p, w, i)
  BY <1>1, <1>2 DEF Child
<1>9. ASSUME NEW i \in DOMAIN toShell', i \notin DOMAIN toShell
      PROVE  /\ i = End /\ toShell'[i] = e /\ \A j \in DOMAIN toShell : j < i
             /\ \A kind, id : Is(i, kind, id)' <=> e.kind = kind /\ e.id = id
             /\ \A p, w : OpensOver(i, p, w)' <=> e.kind = "popup" /\ e.id = p /\ e.parent = w
  <2>1. i = End /\ toShell'[i] = e
    BY <1>1, <1>9
  <2>2. \A kind, id : Is(i, kind, id)' <=> e.kind = kind /\ e.id = id
    BY <2>1 DEF Is
  <2>3. QED
    BY <1>1, <2>1, <2>2 DEF OpensOver
<1>10. \A id : /\ Came(id, End)' <=> Came(id, End) \/ (e.kind = "created" /\ e.id = id)
               /\ Left(id, End)' <=> Left(id, End) \/ (e.kind = "removed" /\ e.id = id)
               /\ Opened(id, End)' <=> Opened(id, End) \/ (e.kind = "popup" /\ e.id = id)
               /\ Ended(id, End)' <=> Ended(id, End) \/ (e.kind = "popupRemoved" /\ e.id = id)
  BY <1>1, <1>2 DEF Came, Left, Opened, Ended
<1>11. ASSUME NEW p, NEW w
       PROVE  Child(p, w, End)' <=> Child(p, w, End)
                                    \/ (e.kind = "popup" /\ e.id = p /\ e.parent = w)
  <2>1. \A j \in DOMAIN toShell' : j < End'
    BY <1>1
  <2>2. Child(p, w, End)' <=> \/ p \in DOMAIN shown /\ shown[p] = w
                              \/ \E j \in DOMAIN toShell' : OpensOver(j, p, w)'
    BY <1>2, <2>1 DEF Child
  <2>3. Child(p, w, End) <=> \/ p \in DOMAIN shown /\ shown[p] = w
                             \/ \E j \in DOMAIN toShell : OpensOver(j, p, w)
    BY <1>1 DEF Child
  <2>4. PICK n \in DOMAIN toShell' : n = End /\ n \notin DOMAIN toShell
    BY <1>1
  <2>5. OpensOver(n, p, w)' <=> e.kind = "popup" /\ e.id = p /\ e.parent = w
    BY <1>9, <2>4
  <2>6. QED
    BY <1>1, <1>5, <2>2, <2>3, <2>4, <2>5
<1>12. QED
  <2>1. End \in DOMAIN toShell' /\ End \notin DOMAIN toShell
    BY <1>1
  <2>2. \A i \in DOMAIN toShell' : i \notin DOMAIN toShell =>
           /\ \A kind, id : Before(kind, id, i)' <=> Before(kind, id, End)
           /\ \A id : /\ Came(id, i)' <=> Came(id, End)
                      /\ Left(id, i)' <=> Left(id, End)
                      /\ Opened(id, i)' <=> Opened(id, End)
                      /\ Ended(id, i)' <=> Ended(id, End)
           /\ \A p, w : Child(p, w, i)' <=> Child(p, w, End)
    BY <1>1, <1>7, <1>8, <1>9
  <2>3. QED
    BY <1>1, <1>2, <1>3, <1>4, <1>5, <1>6, <1>7, <1>8, <1>9, <1>10, <1>11, <2>1, <2>2

\* A message that comes in its turn leaves every message in its turn.
LEMMA OrderTold ==
    ASSUME toShell \in Seq(Events), WindowOrder, PopupOrder,
           NEW e \in Events, toShell' = toShell \o <<e>>, UNCHANGED heard,
           e.kind \in {"mapped", "game", "removed"} => Came(e.id, End) /\ ~Left(e.id, End),
           e.kind = "popup" =>
               /\ Came(e.parent, End) /\ ~Left(e.parent, End) /\ e.parent \in Ids
               /\ ~Opened(e.id, End),
           e.kind = "created" =>
               e.id \notin known \cup DOMAIN arriving /\ ~Before("created", e.id, End),
           e.kind = "popupRemoved" => Opened(e.id, End) /\ ~Ended(e.id, End),
           e.kind = "removed" => \A p \in Ids : Child(p, e.id, End) => Ended(p, End)
    PROVE  WindowOrder' /\ PopupOrder'
<1>1. /\ \A i \in DOMAIN toShell : \A kind, id : Is(i, kind, id)' <=> Is(i, kind, id)
      /\ \A i \in DOMAIN toShell : \A w : Concerns(i, w)' <=> Concerns(i, w)
      /\ \A i \in DOMAIN toShell : \A id : /\ Came(id, i)' <=> Came(id, i)
                                           /\ Left(id, i)' <=> Left(id, i)
                                           /\ Opened(id, i)' <=> Opened(id, i)
                                           /\ Ended(id, i)' <=> Ended(id, i)
      /\ \A i \in DOMAIN toShell : \A p, w : Child(p, w, i)' <=> Child(p, w, i)
      /\ \A i \in DOMAIN toShell : \A kind, id : Before(kind, id, i)' <=> Before(kind, id, i)
  BY Told
<1>2. \A i \in DOMAIN toShell' : i \notin DOMAIN toShell =>
         /\ \A kind, id : Is(i, kind, id)' <=> e.kind = kind /\ e.id = id
         /\ \A p, w : OpensOver(i, p, w)' <=> e.kind = "popup" /\ e.id = p /\ e.parent = w
         /\ \A kind, id : Before(kind, id, i)' <=> Before(kind, id, End)
         /\ \A id : /\ Came(id, i)' <=> Came(id, End)
                    /\ Left(id, i)' <=> Left(id, End)
                    /\ Opened(id, i)' <=> Opened(id, End)
                    /\ Ended(id, i)' <=> Ended(id, End)
         /\ \A p, w : Child(p, w, i)' <=> Child(p, w, End)
  BY Told
<1>3. Here' = Here /\ known' = known /\ arriving' = arriving /\ shown' = shown /\ Ids' = Ids
  BY DEF Here, heard, Ids
<1>4. ASSUME NEW i \in DOMAIN toShell', NEW w \in Ids, Concerns(i, w)'
      PROVE  Came(w, i)' /\ ~Left(w, i)'
  <2>1. CASE i \in DOMAIN toShell
    BY <1>1, <1>4, <2>1 DEF WindowOrder
  <2>2. CASE i \notin DOMAIN toShell
    <3>1. \/ e.kind \in {"mapped", "game", "removed"} /\ e.id = w
          \/ e.kind = "popup" /\ e.parent = w
      BY <1>2, <1>4, <2>2 DEF Concerns
    <3>2. Came(w, End) /\ ~Left(w, End)
      BY <3>1
    <3>3. QED
      BY <1>2, <2>2, <3>2
  <2>3. QED
    BY <2>1, <2>2
<1>5. ASSUME NEW i \in DOMAIN toShell', NEW w \in Ids, Is(i, "created", w)'
      PROVE  w \notin known \cup DOMAIN arriving /\ ~Before("created", w, i)'
  BY <1>1, <1>2, <1>5 DEF WindowOrder
<1>6. WindowOrder'
  BY <1>3, <1>4, <1>5 DEF WindowOrder
<1>7. ASSUME NEW i \in DOMAIN toShell', NEW p \in Ids, Is(i, "popup", p)'
      PROVE  ~Opened(p, i)' /\ toShell'[i].parent \in Ids
  <2>1. /\ \A j \in DOMAIN toShell : toShell'[j] = toShell[j]
        /\ \A j \in DOMAIN toShell' : j \notin DOMAIN toShell => toShell'[j] = e
    BY Told
  <2>2. QED
    BY <1>1, <1>2, <1>7, <2>1 DEF PopupOrder
<1>8. ASSUME NEW i \in DOMAIN toShell', NEW p \in Ids, Is(i, "popupRemoved", p)'
      PROVE  Opened(p, i)' /\ ~Ended(p, i)'
  BY <1>1, <1>2, <1>8 DEF PopupOrder
<1>9. ASSUME NEW i \in DOMAIN toShell', NEW w \in Ids, NEW p \in Ids,
             Is(i, "removed", w)', Child(p, w, i)'
      PROVE  Ended(p, i)'
  BY <1>1, <1>2, <1>9 DEF PopupOrder
<1>10. PopupOrder'
  BY <1>3, <1>7, <1>8, <1>9 DEF PopupOrder
<1>11. QED
  BY <1>6, <1>10

\* Messages that do not say whether a window is mapped
LEMMA MappedKept ==
    ASSUME MappedTold, UNCHANGED <<known, arriving, mirror, missed>>,
           DOMAIN windows' \subseteq DOMAIN windows,
           \A w \in DOMAIN windows' : windows'[w].mapped = windows[w].mapped,
           \A i \in DOMAIN toShell : i \in DOMAIN toShell' /\ toShell'[i] = toShell[i],
           \A i \in DOMAIN toShell' : i \notin DOMAIN toShell =>
               toShell'[i].kind \notin {"created", "mapped"}
    PROVE  MappedTold'
<1>1. \A i \in DOMAIN toShell' : \A w : Says(i, w)' <=> i \in DOMAIN toShell /\ Says(i, w)
  BY DEF Says, Is
<1>2. ASSUME NEW w \in DOMAIN windows' \ missed'
      PROVE  /\ \A i \in DOMAIN toShell' :
                   Says(i, w)' /\ (\A j \in DOMAIN toShell' : Says(j, w)' => j <= i) =>
                       toShell'[i].flag = windows'[w].mapped
             /\ (\A i \in DOMAIN toShell' : ~Says(i, w)') =>
                   /\ w \in known' => mirror'[w].mapped = windows'[w].mapped
                   /\ w \in DOMAIN arriving' => arriving'[w] = windows'[w].mapped
  <2>1. w \in DOMAIN windows \ missed /\ windows'[w].mapped = windows[w].mapped
    OBVIOUS
  <2>2. ASSUME NEW i \in DOMAIN toShell', Says(i, w)',
               \A j \in DOMAIN toShell' : Says(j, w)' => j <= i
        PROVE  toShell'[i].flag = windows'[w].mapped
    <3>1. i \in DOMAIN toShell /\ Says(i, w) /\ toShell'[i] = toShell[i]
      BY <1>1, <2>2
    <3>2. \A j \in DOMAIN toShell : Says(j, w) => j <= i
      BY <1>1, <2>2
    <3>3. QED
      BY <2>1, <3>1, <3>2 DEF MappedTold
  <2>3. ASSUME \A i \in DOMAIN toShell' : ~Says(i, w)'
        PROVE  /\ w \in known' => mirror'[w].mapped = windows'[w].mapped
               /\ w \in DOMAIN arriving' => arriving'[w] = windows'[w].mapped
    <3>1. \A i \in DOMAIN toShell : ~Says(i, w)
      BY <1>1, <2>3
    <3>2. QED
      BY <2>1, <3>1 DEF MappedTold
  <2>4. QED
    BY <2>2, <2>3
<1>3. QED
  BY <1>2 DEF MappedTold

\* Messages that do not end a takeover
LEMMA TakeoverKept ==
    ASSUME Takeover, UNCHANGED <<known, arriving, mirror, route, toEmbedder, gaming>>,
           \A w \in known : w \in DOMAIN windows' => w \in DOMAIN windows,
           \A i \in DOMAIN toShell : i \in DOMAIN toShell' /\ toShell'[i] = toShell[i],
           \A i \in DOMAIN toShell' : i \notin DOMAIN toShell =>
               /\ toShell'[i].kind # "game"
               /\ toShell'[i].kind = "created" => toShell'[i].id # route.of
               /\ \A j \in DOMAIN toShell : j < i
    PROVE  Takeover'
<1>1. \A i \in DOMAIN toShell' : \A w : Is(i, "game", w)' <=> i \in DOMAIN toShell /\ Is(i, "game", w)
  BY DEF Is
<1>2. \A w : GivenUp(w)' <=> GivenUp(w)
  BY <1>1 DEF GivenUp
<1>3. \A w : Asked(w)' <=> Asked(w)
  BY DEF Asked
<1>4. Ids' = Ids
  BY DEF Ids
<1>5. ASSUME NEW i \in DOMAIN toShell', NEW w \in Ids, Is(i, "game", w)'
      PROVE  (\A v \in Ids : ~Before("game", v, i)') /\ gaming' = None /\ toEmbedder' = <<>>
  <2>1. i \in DOMAIN toShell /\ Is(i, "game", w)
    BY <1>1, <1>5
  <2>2. \A v \in Ids : Before("game", v, i)' => Before("game", v, i)
    BY <1>1 DEF Before
  <2>3. QED
    BY <2>1, <2>2 DEF Takeover
<1>6. \A i \in DOMAIN toShell' : ~Is(i, "created", route.of)'
  BY DEF Is, Takeover
<1>7. QED
  BY <1>2, <1>3, <1>4, <1>5, <1>6 DEF Takeover

\* An id that is not given out yet, nothing knows of.
LEMMA Unused ==
    ASSUME WindowsInv, NEW n, n = Fresh
    PROVE  /\ n \notin DOMAIN windows /\ n \notin DOMAIN popups
           /\ n \notin known /\ n \notin DOMAIN arriving /\ n \notin DOMAIN shown
           /\ n \in Nat \ {0}
           /\ n <= MaxIds => n # route.of /\ n # gaming /\ n # None
           /\ \A i \in DOMAIN toShell : \A kind : ~Is(i, kind, n)
           /\ \A i, kind : ~Before(kind, n, i)
           /\ \A i : ~Came(n, i) /\ ~Left(n, i) /\ ~Opened(n, i) /\ ~Ended(n, i)
           /\ n <= MaxIds => n \in Ids /\ \A i \in DOMAIN toShell : ~Concerns(i, n)
           /\ n <= MaxIds => \A p \in Ids, i \in DOMAIN toShell : ~OpensOver(i, p, n)
<1>1. n \notin Given /\ n \in Nat \ {0} /\ MaxIds \in Nat
  BY WindowsAssumption DEF WindowsInv, Types, Given, Fresh
<1>2. /\ n \notin DOMAIN windows /\ n \notin DOMAIN popups
      /\ n \notin known /\ n \notin DOMAIN arriving /\ n \notin DOMAIN shown
      /\ \A i \in DOMAIN toShell : toShell[i].id # n
  BY <1>1 DEF WindowsInv, Spent
<1>3. n <= MaxIds => n # route.of /\ n # gaming /\ n # None
  <2>1. n <= MaxIds => n # None
    BY <1>1, WindowsAssumption DEF Ids
  <2>2. gaming \in Given \cup {None} /\ route.of \in Given \cup {None}
    BY DEF WindowsInv, Spent, RegistryAgrees
  <2>3. QED
    BY <1>1, <2>1, <2>2
<1>5. \A i \in DOMAIN toShell : \A kind : ~Is(i, kind, n)
  BY <1>2 DEF Is
<1>6. \A i, kind : ~Before(kind, n, i)
  BY <1>5 DEF Before
<1>7. \A i : ~Came(n, i) /\ ~Left(n, i) /\ ~Opened(n, i) /\ ~Ended(n, i)
  BY <1>2, <1>6 DEF Came, Left, Opened, Ended, Here
<1>8. n <= MaxIds => n \in Ids
  BY <1>1 DEF Ids
<1>9. n <= MaxIds => \A i \in DOMAIN toShell : ~Concerns(i, n)
  BY <1>7, <1>8 DEF WindowsInv, WindowOrder
<1>10. n <= MaxIds => \A p \in Ids, i \in DOMAIN toShell : ~OpensOver(i, p, n)
  BY <1>9 DEF Concerns
<1>11. QED
  BY <1>1, <1>2, <1>3, <1>5, <1>6, <1>7, <1>8, <1>9, <1>10

----------------------------------------------------------------------------
(* The embedder *)

LEMMA CreateKeeps ==
    ASSUME WindowsInv, NEW s \in (live \cap (Toplevels \cup X11Surfaces)) \ roles,
           NEW m \in BOOLEAN, roles' = roles \cup {s}, CreateMetaWindow(s, m),
           UNCHANGED <<live, popups, popupOf, gaming, toEmbedder, shell>>
    PROVE  WindowsInv'
<1> DEFINE n == Fresh
           e == Event("created", n, m, None)
<1>1. /\ used < MaxIds /\ used' = n
      /\ windows' = With(windows, n, [surface |-> s, mapped |-> m, game |-> FALSE])
      /\ windowOf' = With(windowOf, s, n)
      /\ toShell' = toShell \o <<e>>
  BY DEF CreateMetaWindow, Tell
<1>2. used \in Nat /\ MaxIds \in Nat /\ n = used + 1 /\ n <= MaxIds
  BY <1>1, WindowsAssumption DEF WindowsInv, Types, Fresh
<1>3. /\ n \notin DOMAIN windows /\ n \notin DOMAIN popups
      /\ n \notin known /\ n \notin DOMAIN arriving /\ n \notin DOMAIN shown
      /\ n # route.of /\ n # gaming /\ n \in Ids /\ n # None
      /\ \A i \in DOMAIN toShell : \A kind : ~Is(i, kind, n)
      /\ \A i, kind : ~Before(kind, n, i)
      /\ \A i : ~Came(n, i) /\ ~Left(n, i) /\ ~Opened(n, i) /\ ~Ended(n, i)
  BY <1>2, Unused
<1>4. /\ e \in Events /\ e.kind = "created" /\ e.id = n /\ e.flag = m
      /\ toShell \in Seq(Events)
  BY <1>3 DEF Event, Events, Kinds, WindowsInv, Types
<1> HIDE DEF n, e
<1>5. UNCHANGED heard /\ UNCHANGED <<mirror, route, missed>>
  BY DEF shell, heard
<1>6. /\ s \in Surfaces /\ s \notin DOMAIN windowOf /\ s \in live /\ s \in roles'
      /\ s \in Toplevels \cup X11Surfaces
  BY DEF WindowsInv, Led, Surfaces
<1>7. /\ DOMAIN windows' = DOMAIN windows \cup {n}
      /\ windows'[n] = [surface |-> s, mapped |-> m, game |-> FALSE]
      /\ \A w \in DOMAIN windows : windows'[w] = windows[w]
  BY <1>1, <1>3 DEF With
<1>8. /\ DOMAIN windowOf' = DOMAIN windowOf \cup {s} /\ windowOf'[s] = n
      /\ \A t \in DOMAIN windowOf : windowOf'[t] = windowOf[t]
  BY <1>1, <1>6 DEF With
<1>9. toShell' \in Seq(Events)
  BY <1>1, <1>4, Told
<1>10. Types'
  <2>1. [surface |-> s, mapped |-> m, game |-> FALSE]
           \in [surface : Surfaces, mapped : BOOLEAN, game : BOOLEAN]
    BY <1>6
  <2>2. \A w \in DOMAIN windows' :
           windows'[w] \in [surface : Surfaces, mapped : BOOLEAN, game : BOOLEAN]
    BY <1>7, <2>1 DEF WindowsInv, Types
  <2>3. used' \in 0 .. MaxIds
    BY <1>1, <1>2
  <2>4. Events' = Events /\ Ids' = Ids /\ Surfaces' = Surfaces
    BY DEF Events, Ids, Surfaces
  <2>5. QED
    BY <1>6, <1>8, <1>9, <2>2, <2>3, <2>4 DEF WindowsInv, Types
<1>11. Led'
  BY <1>6, <1>8 DEF WindowsInv, Led
<1>12. \A i \in DOMAIN toShell' : toShell'[i].id \in Given \cup {n}
  BY <1>1, <1>4, Told DEF WindowsInv, Spent
<1>13. Spent'
  <2>1. Given' = Given \cup {n}
    BY <1>1, <1>2 DEF Given
  <2>2. QED
    BY <1>5, <1>7, <1>12, <2>1 DEF WindowsInv, Spent, heard
<1>14. RegistryAgrees'
  BY <1>3, <1>6, <1>7, <1>8 DEF WindowsInv, RegistryAgrees
<1>15. WindowOrder' /\ PopupOrder'
  BY <1>1, <1>3, <1>4, <1>5, OrderTold DEF WindowsInv
<1>16. Books'
  <2>1. /\ \A id : /\ Came(id, End)' <=> Came(id, End) \/ id = n
                   /\ Left(id, End)' <=> Left(id, End)
                   /\ Opened(id, End)' <=> Opened(id, End)
                   /\ Ended(id, End)' <=> Ended(id, End)
        /\ \A p, w : Child(p, w, End)' <=> Child(p, w, End)
    BY <1>1, <1>4, <1>5, Told
  <2>2. Ids' = Ids
    BY DEF Ids
  <2>3. \A w \in Ids : (w \in DOMAIN windows)' <=> Came(w, End)' /\ ~Left(w, End)'
    BY <1>3, <1>7, <2>1 DEF WindowsInv, Books
  <2>4. \A p \in Ids : (p \in DOMAIN popups)' <=> Opened(p, End)' /\ ~Ended(p, End)'
    BY <2>1 DEF WindowsInv, Books
  <2>5. \A p \in DOMAIN popups, w \in Ids : Child(p, w, End)' => popups[p].parent = w
    BY <2>1 DEF WindowsInv, Books
  <2>6. QED
    BY <1>5, <2>2, <2>3, <2>4, <2>5 DEF WindowsInv, Books, heard, shell
<1>17. MappedTold'
  <2>1. /\ \A i \in DOMAIN toShell : i \in DOMAIN toShell' /\ toShell'[i] = toShell[i]
        /\ \A i \in DOMAIN toShell : \A kind, id : Is(i, kind, id)' <=> Is(i, kind, id)
        /\ \A i \in DOMAIN toShell' : i \notin DOMAIN toShell =>
              /\ toShell'[i] = e
              /\ \A kind, id : Is(i, kind, id)' <=> e.kind = kind /\ e.id = id
        /\ \E i \in DOMAIN toShell' : i \notin DOMAIN toShell
    BY <1>1, <1>4, <1>5, Told
  <2>2. \A i \in DOMAIN toShell : \A w : Says(i, w)' <=> Says(i, w)
    BY <2>1 DEF Says
  <2>3. \A i \in DOMAIN toShell' : i \notin DOMAIN toShell => \A w : Says(i, w)' <=> w = n
    BY <1>4, <2>1 DEF Says
  <2>4. \A i \in DOMAIN toShell : ~Says(i, n)
    BY <1>3 DEF Says
  <2>5. ASSUME NEW w \in DOMAIN windows' \ missed', w = n,
               NEW i \in DOMAIN toShell', Says(i, w)'
        PROVE  toShell'[i].flag = windows'[w].mapped
    <3>1. i \notin DOMAIN toShell
      BY <2>2, <2>4, <2>5
    <3>2. QED
      BY <1>4, <1>7, <2>1, <2>5, <3>1
  <2>6. ASSUME NEW w \in DOMAIN windows' \ missed', w # n
        PROVE  /\ \A i \in DOMAIN toShell' : Says(i, w)' => i \in DOMAIN toShell
               /\ w \in DOMAIN windows \ missed /\ windows'[w] = windows[w]
    BY <1>5, <1>7, <2>3, <2>6
  <2>7. ASSUME NEW w \in DOMAIN windows' \ missed'
        PROVE  /\ \A i \in DOMAIN toShell' :
                     Says(i, w)' /\ (\A j \in DOMAIN toShell' : Says(j, w)' => j <= i) =>
                         toShell'[i].flag = windows'[w].mapped
               /\ (\A i \in DOMAIN toShell' : ~Says(i, w)') =>
                     /\ w \in known' => mirror'[w].mapped = windows'[w].mapped
                     /\ w \in DOMAIN arriving' => arriving'[w] = windows'[w].mapped
    <3>1. CASE w = n
      BY <1>3, <1>5, <2>5, <3>1 DEF heard
    <3>2. CASE w # n
      <4>1. ASSUME NEW i \in DOMAIN toShell', Says(i, w)',
                   \A j \in DOMAIN toShell' : Says(j, w)' => j <= i
            PROVE  toShell'[i].flag = windows'[w].mapped
        <5>1. i \in DOMAIN toShell /\ Says(i, w) /\ toShell'[i] = toShell[i]
          BY <2>1, <2>2, <2>6, <3>2, <4>1
        <5>2. \A j \in DOMAIN toShell : Says(j, w) => j <= i
          BY <2>1, <2>2, <4>1
        <5>3. QED
          BY <2>6, <3>2, <5>1, <5>2 DEF WindowsInv, MappedTold
      <4>2. ASSUME \A i \in DOMAIN toShell' : ~Says(i, w)'
            PROVE  /\ w \in known' => mirror'[w].mapped = windows'[w].mapped
                   /\ w \in DOMAIN arriving' => arriving'[w] = windows'[w].mapped
        <5>1. \A i \in DOMAIN toShell : ~Says(i, w)
          BY <2>1, <2>2, <4>2
        <5>2. QED
          BY <1>5, <2>6, <3>2, <5>1 DEF WindowsInv, MappedTold, heard
      <4>3. QED
        BY <4>1, <4>2
    <3>3. QED
      BY <3>1, <3>2
  <2>8. QED
    BY <2>7 DEF MappedTold
<1>18. Takeover'
  <2>1. /\ \A i \in DOMAIN toShell : i \in DOMAIN toShell' /\ toShell'[i] = toShell[i]
        /\ \A i \in DOMAIN toShell' : i \notin DOMAIN toShell =>
              toShell'[i] = e /\ \A j \in DOMAIN toShell : j < i
    BY <1>1, <1>4, <1>5, Told
  <2>2. \A w \in known : w \in DOMAIN windows' => w \in DOMAIN windows
    BY <1>3, <1>7
  <2>3. QED
    BY <1>3, <1>4, <1>5, <2>1, <2>2, TakeoverKept DEF WindowsInv, heard
<1>19. QED
  BY <1>10, <1>11, <1>13, <1>14, <1>15, <1>16, <1>17, <1>18 DEF WindowsInv

LEMMA IdsOf ==
    ASSUME WindowsInv
    PROVE  /\ DOMAIN windows \subseteq Ids /\ DOMAIN popups \subseteq Ids
           /\ known \subseteq Ids /\ DOMAIN arriving \subseteq Ids /\ DOMAIN shown \subseteq Ids
<1>1. Given \subseteq Ids
  BY WindowsAssumption DEF WindowsInv, Types, Given, Ids
<1>2. QED
  BY <1>1 DEF WindowsInv, Spent

\* A popup belongs to a window that is registered, whose end is not on its way.
LEMMA RootIs ==
    ASSUME WindowsInv, NEW parent \in (DOMAIN windowOf \cap Toplevels) \cup DOMAIN popupOf
    PROVE  RootOf(parent) \in DOMAIN windows /\ RootOf(parent) \in Ids
<1>1. CASE parent \in DOMAIN windowOf
  <2>1. RootOf(parent) = windowOf[parent]
    BY <1>1 DEF RootOf
  <2>2. windowOf[parent] \in DOMAIN windows
    BY <1>1 DEF WindowsInv, RegistryAgrees
  <2>3. QED
    BY <2>1, <2>2, IdsOf
<1>2. CASE parent \notin DOMAIN windowOf
  <2>1. RootOf(parent) = popups[popupOf[parent]].parent /\ popupOf[parent] \in DOMAIN popups
    BY <1>2 DEF RootOf, WindowsInv, RegistryAgrees
  <2>2. QED
    BY <2>1 DEF WindowsInv, RegistryAgrees, Types
<1>3. QED
  BY <1>1, <1>2

LEMMA NewPopupKeeps ==
    ASSUME WindowsInv, NEW s \in Surfaces, NEW parent \in Surfaces, NewPopup(s, parent)
    PROVE  WindowsInv'
<1> DEFINE n == Fresh
           r == RootOf(parent)
           e == Event("popup", n, FALSE, r)
<1>1. /\ used < MaxIds /\ used' = n /\ roles' = roles \cup {s}
      /\ s \in (live \cap PopupSurfaces) \ roles
      /\ popups' = With(popups, n, [surface |-> s, parent |-> r])
      /\ popupOf' = With(popupOf, s, n)
      /\ toShell' = toShell \o <<e>>
      /\ UNCHANGED <<live, windows, windowOf, gaming, toEmbedder>>
      /\ UNCHANGED heard /\ UNCHANGED <<mirror, route, missed>>
      /\ parent \in (DOMAIN windowOf \cap Toplevels) \cup DOMAIN popupOf
  BY DEF NewPopup, CreateMetaPopup, Tell, heard, shell
<1>2. used \in Nat /\ MaxIds \in Nat /\ n = used + 1 /\ n <= MaxIds
  BY <1>1, WindowsAssumption DEF WindowsInv, Types, Fresh
<1>3. /\ n \notin DOMAIN windows /\ n \notin DOMAIN popups
      /\ n \notin DOMAIN shown /\ n \in Ids
      /\ \A i \in DOMAIN toShell : \A kind : ~Is(i, kind, n)
      /\ \A i : ~Came(n, i) /\ ~Left(n, i) /\ ~Opened(n, i) /\ ~Ended(n, i)
  BY <1>2, Unused
<1>4. r \in DOMAIN windows /\ r \in Ids
  BY <1>1, RootIs
<1>5. /\ e \in Events /\ e.kind = "popup" /\ e.id = n /\ e.parent = r
      /\ toShell \in Seq(Events)
  BY <1>3, <1>4 DEF Event, Events, Kinds, WindowsInv, Types
<1> HIDE DEF n, r, e
<1>6. s \notin DOMAIN popupOf
  BY <1>1 DEF WindowsInv, Led
<1>7. /\ DOMAIN popups' = DOMAIN popups \cup {n}
      /\ popups'[n] = [surface |-> s, parent |-> r]
      /\ \A p \in DOMAIN popups : popups'[p] = popups[p]
  BY <1>1, <1>3 DEF With
<1>8. /\ DOMAIN popupOf' = DOMAIN popupOf \cup {s} /\ popupOf'[s] = n
      /\ \A t \in DOMAIN popupOf : popupOf'[t] = popupOf[t]
  BY <1>1, <1>6 DEF With
<1>9. toShell' \in Seq(Events)
  BY <1>1, <1>5, Told
<1>10. Types'
  <2>1. [surface |-> s, parent |-> r] \in [surface : Surfaces, parent : Ids]
    BY <1>4
  <2>2. \A p \in DOMAIN popups' : popups'[p] \in [surface : Surfaces, parent : Ids]
    BY <1>7, <2>1 DEF WindowsInv, Types
  <2>3. used' \in 0 .. MaxIds
    BY <1>1, <1>2
  <2>4. Events' = Events /\ Ids' = Ids /\ Surfaces' = Surfaces
    BY DEF Events, Ids, Surfaces
  <2>5. QED
    BY <1>1, <1>8, <1>9, <2>2, <2>3, <2>4 DEF WindowsInv, Types
<1>11. Led'
  BY <1>1, <1>8 DEF WindowsInv, Led
<1>12. Spent'
  <2>1. Given' = Given \cup {n}
    BY <1>1, <1>2 DEF Given
  <2>2. \A i \in DOMAIN toShell' : toShell'[i].id \in Given \cup {n}
    BY <1>1, <1>5, Told DEF WindowsInv, Spent
  <2>3. QED
    BY <1>1, <1>7, <2>1, <2>2 DEF WindowsInv, Spent, heard
<1>13. RegistryAgrees'
  BY <1>1, <1>3, <1>4, <1>6, <1>7, <1>8 DEF WindowsInv, RegistryAgrees
<1>14. WindowOrder' /\ PopupOrder'
  <2>1. Came(r, End) /\ ~Left(r, End) /\ ~Opened(n, End)
    BY <1>3, <1>4 DEF WindowsInv, Books
  <2>2. QED
    BY <1>1, <1>4, <1>5, <2>1, OrderTold DEF WindowsInv
<1>15. Books'
  <2>1. /\ \A id : /\ Came(id, End)' <=> Came(id, End)
                   /\ Left(id, End)' <=> Left(id, End)
                   /\ Opened(id, End)' <=> Opened(id, End) \/ id = n
                   /\ Ended(id, End)' <=> Ended(id, End)
        /\ \A p, w : Child(p, w, End)' <=> Child(p, w, End) \/ (p = n /\ w = r)
    BY <1>1, <1>5, Told
  <2>2. Ids' = Ids
    BY DEF Ids
  <2>3. \A w \in Ids : (w \in DOMAIN windows)' <=> Came(w, End)' /\ ~Left(w, End)'
    BY <1>1, <2>1 DEF WindowsInv, Books
  <2>4. \A p \in Ids : (p \in DOMAIN popups)' <=> Opened(p, End)' /\ ~Ended(p, End)'
    BY <1>3, <1>7, <2>1 DEF WindowsInv, Books
  <2>5. \A w : ~Child(n, w, End)
    BY <1>3 DEF Child, OpensOver
  <2>6. \A p \in DOMAIN popups', w \in Ids : Child(p, w, End)' => popups'[p].parent = w
    BY <1>7, <2>1, <2>5 DEF WindowsInv, Books
  <2>7. QED
    BY <1>1, <2>2, <2>3, <2>4, <2>6 DEF WindowsInv, Books, heard
<1>16. /\ \A i \in DOMAIN toShell : i \in DOMAIN toShell' /\ toShell'[i] = toShell[i]
       /\ \A i \in DOMAIN toShell' : i \notin DOMAIN toShell =>
             toShell'[i] = e /\ \A j \in DOMAIN toShell : j < i
  BY <1>1, <1>5, Told
<1>17. MappedTold'
  BY <1>1, <1>5, <1>16, MappedKept DEF WindowsInv, heard
<1>18. Takeover'
  BY <1>1, <1>5, <1>16, TakeoverKept DEF WindowsInv, heard
<1>19. QED
  BY <1>10, <1>11, <1>12, <1>13, <1>14, <1>15, <1>17, <1>18 DEF WindowsInv

\* The end of a popup, by its role or its surface
LEMMA EndPopupKeeps ==
    ASSUME WindowsInv, NEW s \in DOMAIN popupOf, RemoveMetaPopup(popupOf[s]),
           roles' \in {roles, roles \ {s}}, live' \in {live, live \ {s}},
           UNCHANGED <<used, toEmbedder, shell>>
    PROVE  WindowsInv'
<1> DEFINE p == popupOf[s]
           e == Event("popupRemoved", p, FALSE, None)
<1>1. /\ p \in DOMAIN popups /\ popups[p].surface = s /\ p \in Ids /\ p \in Given
      /\ \A t \in DOMAIN popupOf : popupOf[t] = p <=> t = s
      /\ s \notin DOMAIN windowOf
  <2>1. p \in DOMAIN popups /\ popups[p].surface = s /\ p \in Ids /\ p \in Given
    BY IdsOf DEF WindowsInv, RegistryAgrees, Spent
  <2>2. \A t \in DOMAIN popupOf : popupOf[t] = p <=> t = s
    BY <2>1 DEF WindowsInv, RegistryAgrees
  <2>3. s \notin DOMAIN windowOf
    BY WindowsAssumption DEF WindowsInv, Led
  <2>4. QED
    BY <2>1, <2>2, <2>3
<1>2. /\ popupOf' = Without(popupOf, {t \in DOMAIN popupOf : popupOf[t] = p})
      /\ popups' = Without(popups, {p}) /\ toShell' = toShell \o <<e>>
      /\ UNCHANGED <<windows, windowOf, gaming>>
  BY <1>1 DEF RemoveMetaPopup, Tell
<1>3. UNCHANGED heard /\ UNCHANGED <<mirror, route, missed>>
  BY DEF heard, shell
<1>4. /\ e \in Events /\ e.kind = "popupRemoved" /\ e.id = p
      /\ toShell \in Seq(Events)
  BY <1>1 DEF Event, Events, Kinds, WindowsInv, Types
<1> HIDE DEF p, e
<1>5. /\ DOMAIN popups' = DOMAIN popups \ {p}
      /\ \A q \in DOMAIN popups' : popups'[q] = popups[q]
  BY <1>2 DEF Without
<1>6. /\ DOMAIN popupOf' = DOMAIN popupOf \ {s}
      /\ \A t \in DOMAIN popupOf' : popupOf'[t] = popupOf[t]
  <2>1. {t \in DOMAIN popupOf : popupOf[t] = p} = {s}
    BY <1>1
  <2>2. QED
    BY <1>2, <2>1 DEF Without
<1>7. toShell' \in Seq(Events)
  BY <1>2, <1>3, <1>4, Told
<1>8. Types'
  <2>1. \A q \in DOMAIN popups' : popups'[q] \in [surface : Surfaces, parent : Ids]
    BY <1>5 DEF WindowsInv, Types
  <2>2. Events' = Events /\ Ids' = Ids /\ Surfaces' = Surfaces
    BY DEF Events, Ids, Surfaces
  <2>3. QED
    BY <1>2, <1>6, <1>7, <2>1, <2>2 DEF WindowsInv, Types
<1>9. Led'
  BY <1>1, <1>2, <1>6 DEF WindowsInv, Led
<1>10. Spent'
  <2>1. Given' = Given
    BY DEF Given
  <2>2. \A i \in DOMAIN toShell' : toShell'[i].id \in Given
    BY <1>1, <1>2, <1>3, <1>4, Told DEF WindowsInv, Spent
  <2>3. QED
    BY <1>2, <1>3, <1>5, <2>1, <2>2 DEF WindowsInv, Spent, heard
<1>11. RegistryAgrees'
  <2>1. \A t \in DOMAIN popupOf' : popupOf'[t] \in DOMAIN popups' /\ popups'[popupOf'[t]].surface = t
    BY <1>1, <1>5, <1>6 DEF WindowsInv, RegistryAgrees
  <2>2. \A w \in DOMAIN windows : windows[w].surface \in live'
    BY <1>1 DEF WindowsInv, RegistryAgrees
  <2>3. \A q \in DOMAIN popups' : /\ popups'[q].parent \in DOMAIN windows
                                  /\ popups'[q].surface \in DOMAIN popupOf'
                                  /\ popupOf'[popups'[q].surface] = q
    BY <1>1, <1>5, <1>6 DEF WindowsInv, RegistryAgrees
  <2>4. QED
    BY <1>2, <2>1, <2>2, <2>3 DEF WindowsInv, RegistryAgrees
<1>12. WindowOrder' /\ PopupOrder'
  <2>1. Opened(p, End) /\ ~Ended(p, End)
    BY <1>1 DEF WindowsInv, Books
  <2>2. QED
    BY <1>2, <1>3, <1>4, <2>1, OrderTold DEF WindowsInv
<1>13. Books'
  <2>1. /\ \A id : /\ Came(id, End)' <=> Came(id, End)
                   /\ Left(id, End)' <=> Left(id, End)
                   /\ Opened(id, End)' <=> Opened(id, End)
                   /\ Ended(id, End)' <=> Ended(id, End) \/ id = p
        /\ \A q, w : Child(q, w, End)' <=> Child(q, w, End)
    BY <1>2, <1>3, <1>4, Told
  <2>2. Ids' = Ids
    BY DEF Ids
  <2>3. \A w \in Ids : (w \in DOMAIN windows)' <=> Came(w, End)' /\ ~Left(w, End)'
    BY <1>2, <2>1 DEF WindowsInv, Books
  <2>4. \A q \in Ids : (q \in DOMAIN popups)' <=> Opened(q, End)' /\ ~Ended(q, End)'
    BY <1>5, <2>1 DEF WindowsInv, Books
  <2>5. \A q \in DOMAIN popups', w \in Ids : Child(q, w, End)' => popups'[q].parent = w
    BY <1>5, <2>1 DEF WindowsInv, Books
  <2>6. QED
    BY <1>2, <1>3, <2>2, <2>3, <2>4, <2>5 DEF WindowsInv, Books, heard
<1>14. /\ \A i \in DOMAIN toShell : i \in DOMAIN toShell' /\ toShell'[i] = toShell[i]
       /\ \A i \in DOMAIN toShell' : i \notin DOMAIN toShell =>
             toShell'[i] = e /\ \A j \in DOMAIN toShell : j < i
  BY <1>2, <1>3, <1>4, Told
<1>15. MappedTold'
  BY <1>2, <1>3, <1>4, <1>14, MappedKept DEF WindowsInv, heard
<1>16. Takeover'
  BY <1>2, <1>3, <1>4, <1>14, TakeoverKept DEF WindowsInv, heard
<1>17. QED
  BY <1>8, <1>9, <1>10, <1>11, <1>12, <1>13, <1>15, <1>16 DEF WindowsInv

\* What depends only on what the shell has and is yet to hear
LEMMA QueueStays ==
    ASSUME UNCHANGED <<toShell, known, arriving, gone, shown>>
    PROVE  /\ WindowOrder => WindowOrder'
           /\ PopupOrder => PopupOrder'
           /\ \A i, w : Says(i, w)' <=> Says(i, w)
           /\ \A w : GivenUp(w)' <=> GivenUp(w)
<1>1. WindowOrder => WindowOrder'
  BY DEF WindowOrder, Concerns, Came, Left, Here, OpensOver, Before, Is, Ids
<1>2. PopupOrder => PopupOrder'
  BY DEF PopupOrder, Child, Opened, Ended, Here, OpensOver, Before, Is, Ids
<1>3. \A i, w : Says(i, w)' <=> Says(i, w)
  BY DEF Says, Is
<1>4. \A w : GivenUp(w)' <=> GivenUp(w)
  BY DEF GivenUp, Is
<1>5. QED
  BY <1>1, <1>2, <1>3, <1>4

\* The end of a surface, or of a role, that leads to nothing any more
LEMMA EndNothingKeeps ==
    ASSUME WindowsInv, NEW s \in Surfaces, s \notin DOMAIN windowOf, s \notin DOMAIN popupOf,
           roles' \in {roles, roles \ {s}}, live' \in {live, live \ {s}},
           UNCHANGED <<registry, used, toShell, toEmbedder, shell>>
    PROVE  WindowsInv'
<1>1. /\ UNCHANGED <<windows, windowOf, popups, popupOf, gaming, used, toShell, toEmbedder>>
      /\ UNCHANGED <<known, arriving, gone, mirror, shown, route, missed>>
  BY DEF registry, shell
<1>2. Types' /\ Led'
  BY <1>1 DEF WindowsInv, Types, Led, Events, Ids, Surfaces
<1>3. Spent'
  BY <1>1 DEF WindowsInv, Spent, Given
<1>4. RegistryAgrees'
  <2>1. \A w \in DOMAIN windows : windows[w].surface \in live'
    BY DEF WindowsInv, RegistryAgrees
  <2>2. QED
    BY <1>1, <2>1 DEF WindowsInv, RegistryAgrees
<1>5. WindowOrder' /\ PopupOrder'
  BY <1>1, QueueStays DEF WindowsInv
<1>6. Books'
  BY <1>1 DEF WindowsInv, Books, Ids, Came, Left, Opened, Ended, Child, Here, OpensOver, End,
              Before, Is
<1>7. MappedTold'
  BY <1>1, QueueStays DEF WindowsInv, MappedTold
<1>8. Takeover'
  BY <1>1 DEF WindowsInv, Takeover, Asked, GivenUp, Is, Before, Ids
<1>9. QED
  BY <1>2, <1>3, <1>4, <1>5, <1>6, <1>7, <1>8 DEF WindowsInv

LEMMA CommitKeeps == ASSUME WindowsInv, NEW s \in Surfaces, Commit(s) PROVE WindowsInv'
<1>0. PICK w : w = windowOf[s]
  OBVIOUS
<1> DEFINE m == ~ windows[w].mapped
           e == Event("mapped", w, m, None)
<1>1. /\ w \in DOMAIN windows /\ windows' = [windows EXCEPT ![w].mapped = m]
      /\ toShell' = toShell \o <<e>>
      /\ UNCHANGED <<live, roles, windowOf, popups, popupOf, gaming, used, toEmbedder>>
      /\ UNCHANGED heard /\ UNCHANGED <<mirror, route, missed>>
  BY <1>0 DEF Commit, Tell, heard, shell, client
<1>2. /\ w \in Ids /\ w \in Given /\ windows[w] \in [surface : Surfaces, mapped : BOOLEAN, game : BOOLEAN]
  BY <1>1, IdsOf DEF WindowsInv, Spent, Types
<1>3. m \in BOOLEAN
  OBVIOUS
<1>4. /\ e \in Events /\ e.kind = "mapped" /\ e.id = w /\ e.flag = m
      /\ toShell \in Seq(Events)
  <2>1. "mapped" \in Kinds
    BY DEF Kinds
  <2> HIDE DEF m
  <2>2. QED
    BY <1>2, <1>3, <2>1 DEF Event, Events, WindowsInv, Types
<1> HIDE DEF m, e
<1>5. /\ DOMAIN windows' = DOMAIN windows
      /\ \A v \in DOMAIN windows : v # w => windows'[v] = windows[v]
      /\ windows'[w].surface = windows[w].surface /\ windows'[w].game = windows[w].game
      /\ windows'[w].mapped = m
      /\ windows'[w] \in [surface : Surfaces, mapped : BOOLEAN, game : BOOLEAN]
  BY <1>1, <1>2, <1>3
<1>6. toShell' \in Seq(Events)
  BY <1>1, <1>4, Told
<1>7. Types' /\ Led'
  <2>1. \A v \in DOMAIN windows' :
           windows'[v] \in [surface : Surfaces, mapped : BOOLEAN, game : BOOLEAN]
    BY <1>5 DEF WindowsInv, Types
  <2>2. Events' = Events /\ Ids' = Ids /\ Surfaces' = Surfaces
    BY DEF Events, Ids, Surfaces
  <2>3. QED
    BY <1>1, <1>6, <2>1, <2>2 DEF WindowsInv, Types, Led
<1>8. Spent'
  <2>1. Given' = Given
    BY <1>1 DEF Given
  <2>2. \A i \in DOMAIN toShell' : toShell'[i].id \in Given
    BY <1>1, <1>2, <1>4, Told DEF WindowsInv, Spent
  <2>3. QED
    BY <1>1, <1>5, <2>1, <2>2 DEF WindowsInv, Spent, heard
<1>9. RegistryAgrees'
  <2>1. \A v \in DOMAIN windows : /\ windows'[v].surface = windows[v].surface
                                  /\ windows'[v].game = windows[v].game
    BY <1>5
  <2>2. /\ \A t \in DOMAIN windowOf :
              windowOf[t] \in DOMAIN windows /\ windows'[windowOf[t]].surface = t
        /\ \A v \in DOMAIN windows :
              /\ windows'[v].game <=> gaming = v
              /\ windows'[v].surface \in live
              /\ windows'[v].surface \in DOMAIN windowOf
              /\ windowOf[windows'[v].surface] = v
    BY <2>1 DEF WindowsInv, RegistryAgrees
  <2>3. QED
    BY <1>1, <1>5, <2>2 DEF WindowsInv, RegistryAgrees
<1>10. WindowOrder' /\ PopupOrder'
  <2>1. Came(w, End) /\ ~Left(w, End)
    BY <1>1, <1>2 DEF WindowsInv, Books
  <2>2. QED
    BY <1>1, <1>4, <2>1, OrderTold DEF WindowsInv
<1>11. Books'
  <2>1. /\ \A id : /\ Came(id, End)' <=> Came(id, End)
                   /\ Left(id, End)' <=> Left(id, End)
                   /\ Opened(id, End)' <=> Opened(id, End)
                   /\ Ended(id, End)' <=> Ended(id, End)
        /\ \A q, v : Child(q, v, End)' <=> Child(q, v, End)
    BY <1>1, <1>4, Told
  <2>2. Ids' = Ids
    BY DEF Ids
  <2>3. QED
    BY <1>1, <1>5, <2>1, <2>2 DEF WindowsInv, Books, heard
<1>12. /\ \A i \in DOMAIN toShell : i \in DOMAIN toShell' /\ toShell'[i] = toShell[i]
       /\ \A i \in DOMAIN toShell' : i \notin DOMAIN toShell =>
             toShell'[i] = e /\ \A j \in DOMAIN toShell : j < i
       /\ \E i \in DOMAIN toShell' : i \notin DOMAIN toShell
  BY <1>1, <1>4, Told
<1>13. MappedTold'
  <2>1. \A i \in DOMAIN toShell : \A v : Says(i, v)' <=> Says(i, v)
    BY <1>12 DEF Says, Is
  <2>2. \A i \in DOMAIN toShell' : i \notin DOMAIN toShell =>
           \A v : Says(i, v)' <=> v = w
    BY <1>4, <1>12 DEF Says, Is
  <2>3. ASSUME NEW i \in DOMAIN toShell', Says(i, w)',
               \A j \in DOMAIN toShell' : Says(j, w)' => j <= i
        PROVE  toShell'[i].flag = m
    <3>1. PICK n \in DOMAIN toShell' : n \notin DOMAIN toShell
      BY <1>12
    <3>2. n <= i
      BY <2>2, <2>3, <3>1
    <3>3. i \notin DOMAIN toShell
      <4>1. SUFFICES ASSUME i \in DOMAIN toShell PROVE FALSE
        OBVIOUS
      <4>2. i < n /\ i \in Nat /\ n \in Nat
        <5>1. i \in 1 .. Len(toShell) /\ n \in 1 .. Len(toShell') /\ Len(toShell) \in Nat
              /\ Len(toShell') \in Nat
          BY <1>4, <1>6, <3>1, <4>1, LenProperties
        <5>2. QED
          BY <1>12, <3>1, <4>1, <5>1
      <4>3. QED
        BY <3>2, <4>2
    <3>4. QED
      BY <1>4, <1>12, <3>3
  <2>4. \E i \in DOMAIN toShell' : Says(i, w)'
    BY <1>12, <2>2
  <2>5. ASSUME NEW v \in DOMAIN windows' \ missed', v # w
        PROVE  /\ \A i \in DOMAIN toShell' :
                     Says(i, v)' /\ (\A j \in DOMAIN toShell' : Says(j, v)' => j <= i) =>
                         toShell'[i].flag = windows'[v].mapped
               /\ (\A i \in DOMAIN toShell' : ~Says(i, v)') =>
                     /\ v \in known' => mirror'[v].mapped = windows'[v].mapped
                     /\ v \in DOMAIN arriving' => arriving'[v] = windows'[v].mapped
    <3>1. v \in DOMAIN windows \ missed /\ windows'[v] = windows[v]
      BY <1>1, <1>5, <2>5
    <3>2. \A i \in DOMAIN toShell' : Says(i, v)' <=> i \in DOMAIN toShell /\ Says(i, v)
      BY <1>12, <2>1, <2>2, <2>5 DEF Says, Is
    <3>3. \A i \in DOMAIN toShell : (\A j \in DOMAIN toShell' : Says(j, v)' => j <= i)
                                    => (\A j \in DOMAIN toShell : Says(j, v) => j <= i)
      BY <1>12, <2>1
    <3>4. (\A i \in DOMAIN toShell' : ~Says(i, v)') => (\A i \in DOMAIN toShell : ~Says(i, v))
      BY <1>12, <2>1
    <3>5. UNCHANGED <<known, mirror, arriving>>
      BY <1>1 DEF heard
    <3>6. /\ \A i \in DOMAIN toShell :
                Says(i, v) /\ (\A j \in DOMAIN toShell : Says(j, v) => j <= i) =>
                    toShell[i].flag = windows[v].mapped
          /\ (\A i \in DOMAIN toShell : ~Says(i, v)) =>
                /\ v \in known => mirror[v].mapped = windows[v].mapped
                /\ v \in DOMAIN arriving => arriving[v] = windows[v].mapped
      BY <1>1, <3>1 DEF WindowsInv, MappedTold
    <3>7. QED
      BY <1>12, <3>1, <3>2, <3>3, <3>4, <3>5, <3>6
  <2>6. ASSUME NEW v \in DOMAIN windows' \ missed', v = w
        PROVE  /\ \A i \in DOMAIN toShell' :
                     Says(i, v)' /\ (\A j \in DOMAIN toShell' : Says(j, v)' => j <= i) =>
                         toShell'[i].flag = windows'[v].mapped
               /\ (\A i \in DOMAIN toShell' : ~Says(i, v)') =>
                     /\ v \in known' => mirror'[v].mapped = windows'[v].mapped
                     /\ v \in DOMAIN arriving' => arriving'[v] = windows'[v].mapped
    BY <1>5, <2>3, <2>4, <2>6
  <2>7. QED
    BY <2>5, <2>6 DEF MappedTold
<1>14. Takeover'
  BY <1>1, <1>4, <1>5, <1>12, TakeoverKept DEF WindowsInv, heard
<1>15. QED
  BY <1>7, <1>8, <1>9, <1>10, <1>11, <1>13, <1>14 DEF WindowsInv

\* A set is told of one by one, each member once.
LEMMA SetToSeqIs ==
    ASSUME NEW S, IsFiniteSet(S)
    PROVE  /\ Cardinality(S) \in Nat
           /\ SetToSeq(S) \in [1 .. Cardinality(S) -> S]
           /\ \A a, b \in 1 .. Cardinality(S) : SetToSeq(S)[a] = SetToSeq(S)[b] => a = b
           /\ \A x \in S : \E a \in 1 .. Cardinality(S) : SetToSeq(S)[a] = x
<1> DEFINE N == Cardinality(S)
<1>1. PICK n \in Nat : ExistsBijection(1 .. n, S)
  BY FS_NatBijection
<1>2. N = n /\ N \in Nat
  BY <1>1, FS_CountingElements
<1>3. \E f \in [1 .. N -> S] : IsInjective(f)
  BY <1>1, <1>2 DEF ExistsBijection, Bijection, Injection
<1>4. SetToSeq(S) \in [1 .. N -> S] /\ IsInjective(SetToSeq(S))
  BY <1>3 DEF SetToSeq
<1>5. SetToSeq(S) \in Injection(1 .. N, S)
  BY <1>4 DEF Injection
<1>6. Cardinality(1 .. N) = N
  <2>1. N \in Int /\ 1 \in Int
    BY <1>2
  <2>2. Cardinality(1 .. N) = IF 1 > N THEN 0 ELSE N - 1 + 1
    BY <2>1, FS_Interval
  <2>3. QED
    BY <1>2, <2>2
<1>7. SetToSeq(S) \in Surjection(1 .. N, S)
  BY <1>5, <1>6, FS_Injection
<1>8. QED
  BY <1>2, <1>4, <1>7 DEF IsInjective, Surjection

LEMMA FunctionAsSeq ==
    ASSUME NEW E, NEW N \in Nat, NEW f \in [1 .. N -> E]
    PROVE  f \in Seq(E) /\ Len(f) = N
<1>1. f \in Seq(E)
  OBVIOUS
<1>2. QED
  BY <1>1

LEMMA ConcatOf ==
    ASSUME NEW E, NEW a \in Seq(E), NEW b \in Seq(E)
    PROVE  /\ a \o b \in Seq(E) /\ Len(a \o b) = Len(a) + Len(b)
           /\ \A k \in 1 .. Len(a) : (a \o b)[k] = a[k]
           /\ \A k \in 1 .. Len(b) : (a \o b)[Len(a) + k] = b[k]
BY ConcatProperties

\* The messages about the end of window w: its takeover if it has one, its popups, itself
TeardownOf(es, w, orphans) ==
    /\ es \in Seq(Events) /\ Len(es) > 0
    /\ \A k \in 1 .. Len(es) :
          /\ es[k].kind \in {"game", "popupRemoved", "removed"}
          /\ es[k].kind = "game" => k = 1 /\ es[k].id = w /\ gaming = w
          /\ es[k].kind = "popupRemoved" => es[k].id \in orphans
          /\ es[k].kind = "removed" <=> k = Len(es)
    /\ es[Len(es)].id = w
    /\ \A k, l \in 1 .. Len(es) :
          /\ es[k].kind = "popupRemoved" /\ es[l].kind = "popupRemoved" /\ es[k].id = es[l].id
          => k = l
    /\ \A p \in orphans : \E k \in 1 .. Len(es) : es[k].kind = "popupRemoved" /\ es[k].id = p
    /\ gaming = w => es[1].kind = "game" /\ es[1].id = w

LEMMA TeardownIs ==
    ASSUME WindowsInv, NEW w \in DOMAIN windows, NEW orphans \in SUBSET DOMAIN popups,
           RegistryRemove(w, orphans)
    PROVE  \E es : TeardownOf(es, w, orphans) /\ toShell' = toShell \o es
<1> DEFINE N == Cardinality(orphans)
           S == SetToSeq(orphans)
           D == Deactivated(w)
           ended == [i \in 1 .. N |-> Event("popupRemoved", S[i], FALSE, None)]
           R == Event("removed", w, FALSE, None)
           es == D \o ended \o <<R>>
<1>1. toShell' = toShell \o es
  BY DEF RegistryRemove, Tell
<1>2. w \in Ids /\ orphans \subseteq Ids
  BY IdsOf
<1>3. IsFiniteSet(orphans)
  <2>1. MaxIds \in Int /\ 1 \in Int
    BY WindowsAssumption
  <2>2. IsFiniteSet(Ids)
    BY <2>1, FS_Interval DEF Ids
  <2>3. QED
    BY <1>2, <2>2, FS_Subset
<1>4. /\ N \in Nat /\ S \in [1 .. N -> orphans]
      /\ \A a, b \in 1 .. N : S[a] = S[b] => a = b
      /\ \A p \in orphans : \E a \in 1 .. N : S[a] = p
  BY <1>3, SetToSeqIs
<1> HIDE DEF N, S
<1>5. R \in Events /\ R.kind = "removed" /\ R.id = w
  BY <1>2 DEF Event, Events, Kinds
<1> HIDE DEF R
<1>6. \A k \in 1 .. N : /\ ended[k] \in Events /\ ended[k].kind = "popupRemoved"
                        /\ ended[k].id = S[k]
  BY <1>2, <1>4 DEF Event, Events, Kinds
<1>7. ended \in Seq(Events) /\ Len(ended) = N
  <2>1. ended \in [1 .. N -> Events]
    BY <1>6
  <2> HIDE DEF ended
  <2>2. QED
    BY <1>4, <2>1, FunctionAsSeq
<1> HIDE DEF ended
<1>8. /\ D \in Seq(Events) /\ Len(D) \in {0, 1}
      /\ Len(D) = 1 <=> gaming = w
      /\ gaming = w => D[1].kind = "game" /\ D[1].id = w
  <2>1. windows[w].game <=> gaming = w
    BY DEF WindowsInv, RegistryAgrees
  <2>2. CASE gaming = w
    <3>1. D = <<Event("game", w, FALSE, None)>>
      BY <2>1, <2>2 DEF Deactivated
    <3>2. Event("game", w, FALSE, None) \in Events
      BY <1>2 DEF Event, Events, Kinds
    <3>3. QED
      BY <2>2, <3>1, <3>2 DEF Event
  <2>3. CASE gaming # w
    <3>1. D = <<>>
      BY <2>3 DEF Deactivated
    <3>2. QED
      BY <2>3, <3>1
  <2>4. QED
    BY <2>2, <2>3
<1> HIDE DEF D
<1> DEFINE d == Len(D)
           head == D \o ended
<1>9. /\ head \in Seq(Events) /\ Len(head) = d + N
      /\ \A k \in 1 .. d : head[k] = D[k]
      /\ \A k \in 1 .. N : head[d + k] = ended[k]
  <2>1. QED
    BY <1>7, <1>8, ConcatOf
<1> HIDE DEF head
<1>10. <<R>> \in Seq(Events) /\ Len(<<R>>) = 1 /\ <<R>>[1] = R
  BY <1>5
<1>11. /\ es \in Seq(Events) /\ Len(es) = d + N + 1
       /\ \A k \in 1 .. d + N : es[k] = head[k]
       /\ es[d + N + 1] = R
  <2>1. /\ head \o <<R>> \in Seq(Events) /\ Len(head \o <<R>>) = Len(head) + 1
        /\ \A k \in 1 .. Len(head) : (head \o <<R>>)[k] = head[k]
        /\ \A k \in 1 .. 1 : (head \o <<R>>)[Len(head) + k] = <<R>>[k]
    BY <1>9, <1>10, ConcatProperties
  <2>2. es = head \o <<R>>
    BY DEF head
  <2>3. (head \o <<R>>)[Len(head) + 1] = R
    BY <1>10, <2>1
  <2>4. QED
    BY <1>9, <2>1, <2>2, <2>3
<1> HIDE DEF es
<1>12. d \in {0, 1} /\ (d = 1 <=> gaming = w)
  BY <1>8
<1> HIDE DEF d
<1>13. /\ \A k \in 1 .. d : es[k].kind = "game" /\ es[k].id = w
       /\ \A k \in d + 1 .. d + N : /\ es[k].kind = "popupRemoved" /\ es[k].id = S[k - d]
                                    /\ k - d \in 1 .. N
  <2>1. ASSUME NEW k \in 1 .. d PROVE es[k].kind = "game" /\ es[k].id = w
    <3>1. k = 1 /\ d = 1 /\ k \in 1 .. d + N
      BY <1>4, <1>12, <2>1
    <3>2. es[k] = D[1]
      BY <1>9, <1>11, <3>1
    <3>3. QED
      BY <1>8, <1>12, <3>1, <3>2
  <2>2. ASSUME NEW k \in d + 1 .. d + N
        PROVE  es[k].kind = "popupRemoved" /\ es[k].id = S[k - d] /\ k - d \in 1 .. N
    <3>1. k - d \in 1 .. N /\ d + (k - d) = k /\ k \in 1 .. d + N
      BY <1>4, <1>12, <2>2
    <3>2. es[k] = ended[k - d]
      BY <1>9, <1>11, <3>1
    <3>3. QED
      BY <1>6, <3>1, <3>2
  <2>3. QED
    BY <2>1, <2>2
<1>14. \A k \in 1 .. Len(es) : k \in 1 .. d \/ k \in d + 1 .. d + N \/ k = d + N + 1
  BY <1>4, <1>11, <1>12
<1>15. \A k \in 1 .. Len(es) :
          /\ es[k].kind \in {"game", "popupRemoved", "removed"}
          /\ es[k].kind = "game" => k = 1 /\ es[k].id = w /\ gaming = w
          /\ es[k].kind = "popupRemoved" => es[k].id \in orphans /\ k \in d + 1 .. d + N
          /\ es[k].kind = "removed" <=> k = Len(es)
  <2>1. ASSUME NEW k \in 1 .. d
        PROVE  /\ es[k].kind = "game" /\ es[k].id = w /\ k = 1 /\ gaming = w
               /\ k # Len(es)
    BY <1>4, <1>11, <1>12, <1>13, <2>1
  <2>2. ASSUME NEW k \in d + 1 .. d + N
        PROVE  es[k].kind = "popupRemoved" /\ es[k].id \in orphans /\ k # Len(es)
    <3>1. es[k].kind = "popupRemoved" /\ es[k].id = S[k - d] /\ k - d \in 1 .. N
      BY <1>13, <2>2
    <3>2. S[k - d] \in orphans
      BY <1>4, <3>1
    <3>3. k # Len(es)
      BY <1>4, <1>11, <1>12, <2>2
    <3>4. QED
      BY <3>1, <3>2, <3>3
  <2>3. es[d + N + 1].kind = "removed" /\ d + N + 1 = Len(es)
    BY <1>5, <1>11
  <2>4. QED
    BY <1>14, <2>1, <2>2, <2>3
<1>16. \A k, l \in 1 .. Len(es) :
          /\ es[k].kind = "popupRemoved" /\ es[l].kind = "popupRemoved" /\ es[k].id = es[l].id
          => k = l
  <2>1. ASSUME NEW k \in 1 .. Len(es), NEW l \in 1 .. Len(es),
               es[k].kind = "popupRemoved", es[l].kind = "popupRemoved", es[k].id = es[l].id
        PROVE  k = l
    <3>1. /\ S[k - d] = S[l - d] /\ k - d \in 1 .. N /\ l - d \in 1 .. N
      BY <1>13, <1>15, <2>1
    <3>2. k - d = l - d
      BY <1>4, <3>1
    <3>3. QED
      BY <1>12, <3>2
  <2>2. QED
    BY <2>1
<1>17. \A p \in orphans : \E k \in 1 .. Len(es) : es[k].kind = "popupRemoved" /\ es[k].id = p
  <2>1. ASSUME NEW p \in orphans
        PROVE  \E k \in 1 .. Len(es) : es[k].kind = "popupRemoved" /\ es[k].id = p
    <3>1. PICK a \in 1 .. N : S[a] = p
      BY <1>4
    <3>0. PICK k : k = d + a
      OBVIOUS
    <3>2. k \in d + 1 .. d + N /\ k \in 1 .. Len(es) /\ k - d = a
      BY <1>4, <1>11, <1>12, <3>0, <3>1
    <3>3. es[k].kind = "popupRemoved" /\ es[k].id = S[k - d]
      BY <1>13, <3>2
    <3>4. QED
      BY <3>1, <3>2, <3>3
  <2>2. QED
    BY <2>1
<1>18. gaming = w => es[1].kind = "game" /\ es[1].id = w
  <2>1. gaming = w => 1 \in 1 .. d
    BY <1>12
  <2>2. QED
    BY <1>13, <2>1
<1>19. Len(es) > 0 /\ es[Len(es)].id = w
  BY <1>4, <1>5, <1>11, <1>12
<1>20. TeardownOf(es, w, orphans)
  BY <1>11, <1>15, <1>16, <1>17, <1>18, <1>19 DEF TeardownOf
<1>21. QED
  BY <1>1, <1>20

\* What the end of a window, once told, leaves of what comes before what
Tolled(w, orphans, new) ==
    /\ toShell' \in Seq(Events) /\ Here' = Here
    /\ \A i \in DOMAIN toShell : i \in DOMAIN toShell' /\ toShell'[i] = toShell[i]
    /\ \A i \in DOMAIN toShell : \A kind, id : Is(i, kind, id)' <=> Is(i, kind, id)
    /\ \A i \in DOMAIN toShell : \A p, v : OpensOver(i, p, v)' <=> OpensOver(i, p, v)
    /\ \A i \in DOMAIN toShell : \A kind, id : Before(kind, id, i)' <=> Before(kind, id, i)
    /\ \A i \in DOMAIN toShell : \A p, v : Child(p, v, i)' <=> Child(p, v, i)
    /\ \A i \in new :
          /\ \A j \in DOMAIN toShell : j < i
          /\ toShell'[i].kind \in {"game", "popupRemoved", "removed"}
          /\ toShell'[i].kind = "game" => toShell'[i].id = w /\ gaming = w
          /\ toShell'[i].kind = "popupRemoved" => toShell'[i].id \in orphans
          /\ toShell'[i].kind = "removed" => toShell'[i].id = w
          /\ \A kind \in {"created", "popup", "removed"} : \A id :
                Before(kind, id, i)' <=> Before(kind, id, End)
          /\ toShell'[i].kind = "game" =>
                \A id : Before("game", id, i)' <=> Before("game", id, End)
          /\ toShell'[i].kind = "popupRemoved" =>
                \A p : p = toShell'[i].id =>
                    (Before("popupRemoved", p, i)' <=> Before("popupRemoved", p, End))
          /\ toShell'[i].kind = "removed" =>
                \A p \in orphans : Before("popupRemoved", p, i)'
          /\ \A p : Before("popupRemoved", p, End) => Before("popupRemoved", p, i)'
          /\ \A p, v : Child(p, v, i)' <=> Child(p, v, End)
    /\ \A kind \in {"created", "popup"} : \A id :
          Before(kind, id, End)' <=> Before(kind, id, End)
    /\ \A id : Before("removed", id, End)' <=> Before("removed", id, End) \/ id = w
    /\ \A p : Before("popupRemoved", p, End)'
                 <=> Before("popupRemoved", p, End) \/ p \in orphans
    /\ \A p, v : Child(p, v, End)' <=> Child(p, v, End)
    /\ \A v : GivenUp(v)' <=> GivenUp(v) \/ (v = w /\ gaming = w)

LEMMA Torn ==
    ASSUME toShell \in Seq(Events), NEW w, NEW orphans, NEW es, TeardownOf(es, w, orphans),
           toShell' = toShell \o es, UNCHANGED heard,
           NEW new, new = DOMAIN toShell' \ DOMAIN toShell
    PROVE  Tolled(w, orphans, new)
<1> DEFINE L == Len(toShell)
           M == Len(es)
<1>1. /\ es \in Seq(Events) /\ M > 0
      /\ \A k \in 1 .. M :
            /\ es[k].kind \in {"game", "popupRemoved", "removed"}
            /\ es[k].kind = "game" => k = 1 /\ es[k].id = w /\ gaming = w
            /\ es[k].kind = "popupRemoved" => es[k].id \in orphans
            /\ es[k].kind = "removed" <=> k = M
      /\ es[M].id = w
      /\ \A k, l \in 1 .. M :
            /\ es[k].kind = "popupRemoved" /\ es[l].kind = "popupRemoved" /\ es[k].id = es[l].id
            => k = l
      /\ \A p \in orphans : \E k \in 1 .. M : es[k].kind = "popupRemoved" /\ es[k].id = p
      /\ gaming = w => es[1].kind = "game" /\ es[1].id = w
  BY DEF TeardownOf
<1>2. /\ toShell' \in Seq(Events) /\ L \in Nat /\ M \in Nat /\ Len(toShell') = L + M
      /\ DOMAIN toShell = 1 .. L /\ DOMAIN toShell' = 1 .. L + M
      /\ \A i \in DOMAIN toShell : toShell'[i] = toShell[i]
      /\ \A k \in 1 .. M : toShell'[L + k] = es[k]
  BY <1>1, Appending
<1> HIDE DEF L, M
<1>3. ASSUME NEW i \in new
      PROVE  /\ i - L \in 1 .. M /\ toShell'[i] = es[i - L]
             /\ i \in Nat /\ \A j \in DOMAIN toShell : j < i
  <2>1. i \in 1 .. L + M /\ i \notin 1 .. L
    BY <1>2
  <2>2. i - L \in 1 .. M /\ L + (i - L) = i /\ i \in Nat /\ \A j \in 1 .. L : j < i
    BY <1>2, <2>1
  <2>3. toShell'[L + (i - L)] = es[i - L]
    BY <1>2, <2>2
  <2>4. QED
    BY <1>2, <2>2, <2>3
<1>4. ASSUME NEW k \in 1 .. M PROVE \E i \in new : i = L + k /\ toShell'[i] = es[k]
  <2>1. L + k \in new
    BY <1>2
  <2>2. QED
    BY <1>2, <2>1
<1>5. \A i \in new : /\ toShell'[i].kind \in {"game", "popupRemoved", "removed"}
                     /\ toShell'[i].kind = "game" => toShell'[i].id = w /\ gaming = w
                     /\ toShell'[i].kind = "popupRemoved" => toShell'[i].id \in orphans
                     /\ toShell'[i].kind = "removed" => toShell'[i].id = w
  BY <1>1, <1>3
<1>6. \A i \in new : toShell'[i].kind = "game" => \A j \in new : i <= j
  <2>1. ASSUME NEW i \in new, NEW j \in new, toShell'[i].kind = "game" PROVE i <= j
    <3>1. i - L = 1
      BY <1>1, <1>3, <2>1
    <3>2. j - L \in 1 .. M /\ i \in Nat /\ j \in Nat
      BY <1>3
    <3>3. QED
      BY <1>2, <3>1, <3>2
  <2>2. QED
    BY <2>1
<1>7. \A i \in new : toShell'[i].kind = "removed" <=> i = L + M
  <2>1. ASSUME NEW i \in new PROVE toShell'[i].kind = "removed" <=> i = L + M
    <3>0. PICK k : k = i - L
      OBVIOUS
    <3>1. k \in 1 .. M /\ i \in Nat /\ toShell'[i] = es[k]
      BY <1>3, <3>0
    <3>2. es[k].kind = "removed" <=> k = M
      BY <1>1, <3>1
    <3>3. QED
      BY <1>2, <3>0, <3>1, <3>2
  <2>2. QED
    BY <2>1
<1>8. \A i \in new : i <= L + M
  BY <1>2
<1>9. \A i, j \in new :
         /\ toShell'[i].kind = "popupRemoved" /\ toShell'[j].kind = "popupRemoved"
         /\ toShell'[i].id = toShell'[j].id
         => i = j
  <2>1. ASSUME NEW i \in new, NEW j \in new, toShell'[i].kind = "popupRemoved",
               toShell'[j].kind = "popupRemoved", toShell'[i].id = toShell'[j].id
        PROVE  i = j
    <3>0. PICK k, l : k = i - L /\ l = j - L
      OBVIOUS
    <3>1. /\ k \in 1 .. M /\ l \in 1 .. M /\ i \in Nat /\ j \in Nat
          /\ toShell'[i] = es[k] /\ toShell'[j] = es[l]
      BY <1>3, <3>0
    <3>2. k = l
      <4>1. es[k].kind = "popupRemoved" /\ es[l].kind = "popupRemoved" /\ es[k].id = es[l].id
        BY <2>1, <3>1
      <4>2. QED
        BY <1>1, <3>1, <4>1
    <3>3. QED
      BY <1>2, <3>0, <3>1, <3>2
  <2>2. QED
    BY <2>1
<1>10. \A p \in orphans : \E i \in new : toShell'[i].kind = "popupRemoved" /\ toShell'[i].id = p
  <2>1. ASSUME NEW p \in orphans
        PROVE  \E i \in new : toShell'[i].kind = "popupRemoved" /\ toShell'[i].id = p
    <3>1. PICK k \in 1 .. M : es[k].kind = "popupRemoved" /\ es[k].id = p
      BY <1>1
    <3>2. QED
      BY <1>4, <3>1
  <2>2. QED
    BY <2>1
<1>11. \E i \in new : toShell'[i].kind = "removed" /\ toShell'[i].id = w
  <2>1. M \in 1 .. M
    BY <1>1, <1>2
  <2>2. es[M].kind = "removed" /\ es[M].id = w
    BY <1>1, <2>1
  <2>3. QED
    BY <1>4, <2>1, <2>2
<1>12. gaming = w => \E i \in new : toShell'[i].kind = "game" /\ toShell'[i].id = w
  <2>1. 1 \in 1 .. M
    BY <1>1, <1>2
  <2>2. QED
    BY <1>1, <1>4, <2>1
<1>13. DOMAIN toShell' = DOMAIN toShell \cup new
  BY <1>2
<1>14. \A i \in DOMAIN toShell : \A kind, id : Is(i, kind, id)' <=> Is(i, kind, id)
  BY <1>2, <1>13 DEF Is
<1>15. \A i \in new : \A kind, id : Is(i, kind, id)' <=> toShell'[i].kind = kind /\ toShell'[i].id = id
  BY <1>13 DEF Is
<1>16. \A i \in DOMAIN toShell : \A p, v : OpensOver(i, p, v)' <=> OpensOver(i, p, v)
  BY <1>2, <1>14 DEF OpensOver
<1>17. \A i \in new : \A p, v : ~OpensOver(i, p, v)'
  BY <1>5, <1>15 DEF OpensOver
<1>18. /\ \A i \in DOMAIN toShell : i < End
       /\ \A i \in DOMAIN toShell' : i < End'
       /\ \A i \in DOMAIN toShell, j \in new : i < j /\ ~(j < i)
  BY <1>2, <1>3 DEF End
<1>19. Here' = Here /\ known' = known /\ shown' = shown
  BY DEF Here, heard
<1>20. \A kind, id : Before(kind, id, End) <=> \E j \in DOMAIN toShell : Is(j, kind, id)
  BY <1>18 DEF Before
<1>21. \A i \in DOMAIN toShell : \A kind, id : Before(kind, id, i)' <=> Before(kind, id, i)
  BY <1>13, <1>14, <1>18 DEF Before
<1>22. \A i \in new : \A kind, id :
          Before(kind, id, i)' <=> Before(kind, id, End) \/ \E j \in new : j < i /\ Is(j, kind, id)'
  BY <1>13, <1>14, <1>18, <1>20 DEF Before
<1>23. \A kind, id :
          Before(kind, id, End)' <=> Before(kind, id, End) \/ \E j \in new : Is(j, kind, id)'
  <2>1. \A kind, id : Before(kind, id, End)' <=> \E j \in DOMAIN toShell' : Is(j, kind, id)'
    BY <1>18 DEF Before
  <2>2. QED
    BY <1>13, <1>14, <1>20, <2>1
<1>24. \A i \in DOMAIN toShell : \A p, v : Child(p, v, i)' <=> Child(p, v, i)
  BY <1>13, <1>16, <1>18, <1>19 DEF Child
<1>25. \A i \in new : \A p, v : Child(p, v, i)' <=> Child(p, v, End)
  BY <1>13, <1>16, <1>17, <1>18, <1>19 DEF Child
<1>26. \A p, v : Child(p, v, End)' <=> Child(p, v, End)
  <2>1. \A p, v : Child(p, v, End)' <=> \/ p \in DOMAIN shown /\ shown[p] = v
                                        \/ \E j \in DOMAIN toShell' : OpensOver(j, p, v)'
    BY <1>18, <1>19 DEF Child
  <2>2. \A p, v : Child(p, v, End) <=> \/ p \in DOMAIN shown /\ shown[p] = v
                                       \/ \E j \in DOMAIN toShell : OpensOver(j, p, v)
    BY <1>18 DEF Child
  <2>3. QED
    BY <1>13, <1>16, <1>17, <2>1, <2>2
<1>27. \A i \in new, kind \in {"created", "popup", "removed"} : \A id :
          Before(kind, id, i)' <=> Before(kind, id, End)
  <2>1. ASSUME NEW i \in new, NEW j \in new, j < i PROVE toShell'[j].kind # "removed"
    <3>1. j # L + M
      BY <1>2, <1>3, <1>8, <2>1
    <3>2. QED
      BY <1>7, <3>1
  <2>2. ASSUME NEW i \in new, NEW kind \in {"created", "popup", "removed"}, NEW id,
               NEW j \in new, j < i
        PROVE  ~Is(j, kind, id)'
    <3>1. toShell'[j].kind \notin {"created", "popup", "removed"}
      BY <1>5, <2>1, <2>2
    <3>2. QED
      BY <1>15, <3>1
  <2>3. QED
    BY <1>22, <2>2
<1>28. \A i \in new : toShell'[i].kind = "game" =>
          \A id : Before("game", id, i)' <=> Before("game", id, End)
  <2>1. \A i, j \in new : toShell'[i].kind = "game" => ~(j < i)
    BY <1>3, <1>6
  <2>2. QED
    BY <1>22, <2>1
<1>29. \A i \in new : toShell'[i].kind = "popupRemoved" => \A p : p = toShell'[i].id =>
          (Before("popupRemoved", p, i)' <=> Before("popupRemoved", p, End))
  <2>1. \A i, j \in new : j < i => i # j
    BY <1>3
  <2>2. ASSUME NEW i \in new, NEW p, toShell'[i].kind = "popupRemoved", p = toShell'[i].id,
               NEW j \in new, j < i
        PROVE  ~Is(j, "popupRemoved", p)'
    <3>1. ~(toShell'[j].kind = "popupRemoved" /\ toShell'[j].id = p)
      BY <1>9, <2>1, <2>2
    <3>2. QED
      BY <1>15, <3>1
  <2>3. QED
    BY <1>22, <2>2
<1>30. \A i \in new : toShell'[i].kind = "removed" =>
          \A p \in orphans : Before("popupRemoved", p, i)'
  <2>1. ASSUME NEW i \in new, NEW j \in new, toShell'[i].kind = "removed",
               toShell'[j].kind = "popupRemoved"
        PROVE  j < i
    BY <1>2, <1>3, <1>7, <1>8, <2>1
  <2>2. QED
    BY <1>10, <1>15, <1>22, <2>1
<1>31. \A i \in new : \A p : Before("popupRemoved", p, End) => Before("popupRemoved", p, i)'
  BY <1>22
<1>32. /\ \A kind \in {"created", "popup"} : \A id :
             Before(kind, id, End)' <=> Before(kind, id, End)
       /\ \A id : Before("removed", id, End)' <=> Before("removed", id, End) \/ id = w
       /\ \A p : Before("popupRemoved", p, End)'
                    <=> Before("popupRemoved", p, End) \/ p \in orphans
  <2>1. \A j \in new, kind \in {"created", "popup"} : \A id : ~Is(j, kind, id)'
    BY <1>5, <1>15
  <2>2. ASSUME NEW id PROVE (\E j \in new : Is(j, "removed", id)') <=> id = w
    <3>1. \A j \in new : Is(j, "removed", id)' <=> toShell'[j].kind = "removed" /\ toShell'[j].id = id
      BY <1>15
    <3>2. QED
      BY <1>5, <1>11, <3>1
  <2>3. ASSUME NEW p PROVE (\E j \in new : Is(j, "popupRemoved", p)') <=> p \in orphans
    <3>1. \A j \in new : Is(j, "popupRemoved", p)'
                             <=> toShell'[j].kind = "popupRemoved" /\ toShell'[j].id = p
      BY <1>15
    <3>2. ASSUME NEW j \in new, Is(j, "popupRemoved", p)' PROVE p \in orphans
      BY <1>5, <3>1, <3>2
    <3>3. ASSUME p \in orphans PROVE \E j \in new : Is(j, "popupRemoved", p)'
      BY <1>10, <3>1, <3>3
    <3>4. QED
      BY <3>2, <3>3
  <2>4. QED
    BY <1>23, <2>1, <2>2, <2>3
<1>33. \A v : GivenUp(v)' <=> GivenUp(v) \/ (v = w /\ gaming = w)
  <2>1. \A j \in new : \A v : Is(j, "game", v)' => v = w /\ gaming = w
    BY <1>5, <1>15
  <2>2. gaming = w => \E j \in new : Is(j, "game", w)'
    BY <1>12, <1>15
  <2>3. \A v : (\E j \in new : Is(j, "game", v)') <=> v = w /\ gaming = w
    BY <2>1, <2>2
  <2>4. QED
    BY <1>13, <1>14, <2>3 DEF GivenUp
<1>34. QED
  BY <1>2, <1>3, <1>5, <1>13, <1>14, <1>16, <1>19, <1>21, <1>24, <1>25, <1>26, <1>27, <1>28,
     <1>29, <1>30, <1>31, <1>32, <1>33 DEF Tolled

\* The end of a window, by its role, its surface or its unmapping
LEMMA RemoveKeeps ==
    ASSUME WindowsInv, NEW s \in DOMAIN windowOf, RemoveMetaWindow(windowOf[s]),
           roles' \in {roles, roles \ {s}}, live' \in {live, live \ {s}},
           UNCHANGED <<used, toEmbedder, shell>>
    PROVE  WindowsInv'
<1>0. PICK w, orphans : w = windowOf[s] /\ orphans = {p \in DOMAIN popups : popups[p].parent = w}
  OBVIOUS
<1>1. /\ w \in DOMAIN windows /\ w \in Ids /\ w \in Given /\ w # None
      /\ \A t \in DOMAIN windowOf : windowOf[t] = w <=> t = s
      /\ \A v \in DOMAIN windows : v # w => windows[v].surface # s
      /\ s \notin DOMAIN popupOf
      /\ orphans \subseteq DOMAIN popups /\ orphans \subseteq Given /\ orphans \subseteq Ids
  <2>1. w \in DOMAIN windows /\ windows[w].surface = s
    BY <1>0 DEF WindowsInv, RegistryAgrees
  <2>2. w \in Ids /\ w \in Given /\ w # None
    BY <2>1, IdsOf, WindowsAssumption DEF WindowsInv, Spent
  <2>3. \A t \in DOMAIN windowOf : windowOf[t] = w <=> t = s
    BY <1>0, <2>1 DEF WindowsInv, RegistryAgrees
  <2>4. \A v \in DOMAIN windows : v # w => windows[v].surface # s
    BY <1>0 DEF WindowsInv, RegistryAgrees
  <2>5. s \notin DOMAIN popupOf
    BY WindowsAssumption DEF WindowsInv, Led
  <2>6. orphans \subseteq DOMAIN popups /\ orphans \subseteq Given /\ orphans \subseteq Ids
    BY <1>0, IdsOf DEF WindowsInv, Spent
  <2>7. QED
    BY <2>1, <2>2, <2>3, <2>4, <2>5, <2>6
<1>2. /\ windowOf' = Without(windowOf, {t \in DOMAIN windowOf : windowOf[t] = w})
      /\ RegistryRemove(w, orphans)
  BY <1>0, <1>1 DEF RemoveMetaWindow
<1>3. /\ windows' = Without(windows, {w}) /\ popups' = Without(popups, orphans)
      /\ popupOf' = Without(popupOf, {t \in DOMAIN popupOf : popupOf[t] \in orphans})
      /\ gaming' = IF gaming = w THEN None ELSE gaming
  BY <1>2 DEF RegistryRemove
<1>4. UNCHANGED heard /\ UNCHANGED <<mirror, route, missed>> /\ toShell \in Seq(Events)
  BY DEF heard, shell, WindowsInv, Types
<1>5. PICK es : TeardownOf(es, w, orphans) /\ toShell' = toShell \o es
  BY <1>1, <1>2, TeardownIs
<1>6. PICK new : new = DOMAIN toShell' \ DOMAIN toShell
  OBVIOUS
<1>7. /\ toShell' \in Seq(Events) /\ Here' = Here
      /\ \A i \in DOMAIN toShell : i \in DOMAIN toShell' /\ toShell'[i] = toShell[i]
      /\ \A i \in DOMAIN toShell : \A kind, id : Is(i, kind, id)' <=> Is(i, kind, id)
      /\ \A i \in DOMAIN toShell : \A p, v : OpensOver(i, p, v)' <=> OpensOver(i, p, v)
      /\ \A i \in DOMAIN toShell : \A kind, id : Before(kind, id, i)' <=> Before(kind, id, i)
      /\ \A i \in DOMAIN toShell : \A p, v : Child(p, v, i)' <=> Child(p, v, i)
      /\ \A i \in new :
            /\ \A j \in DOMAIN toShell : j < i
            /\ toShell'[i].kind \in {"game", "popupRemoved", "removed"}
            /\ toShell'[i].kind = "game" => toShell'[i].id = w /\ gaming = w
            /\ toShell'[i].kind = "popupRemoved" => toShell'[i].id \in orphans
            /\ toShell'[i].kind = "removed" => toShell'[i].id = w
            /\ \A kind \in {"created", "popup", "removed"} : \A id :
                  Before(kind, id, i)' <=> Before(kind, id, End)
            /\ toShell'[i].kind = "game" =>
                  \A id : Before("game", id, i)' <=> Before("game", id, End)
            /\ toShell'[i].kind = "popupRemoved" =>
                  \A p : p = toShell'[i].id =>
                      (Before("popupRemoved", p, i)' <=> Before("popupRemoved", p, End))
            /\ toShell'[i].kind = "removed" =>
                  \A p \in orphans : Before("popupRemoved", p, i)'
            /\ \A p : Before("popupRemoved", p, End) => Before("popupRemoved", p, i)'
            /\ \A p, v : Child(p, v, i)' <=> Child(p, v, End)
      /\ \A kind \in {"created", "popup"} : \A id :
            Before(kind, id, End)' <=> Before(kind, id, End)
      /\ \A id : Before("removed", id, End)' <=> Before("removed", id, End) \/ id = w
      /\ \A p : Before("popupRemoved", p, End)'
                   <=> Before("popupRemoved", p, End) \/ p \in orphans
      /\ \A p, v : Child(p, v, End)' <=> Child(p, v, End)
      /\ \A v : GivenUp(v)' <=> GivenUp(v) \/ (v = w /\ gaming = w)
  <2>1. Tolled(w, orphans, new)
    BY <1>4, <1>5, <1>6, Torn
  <2>2. QED
    BY <2>1 DEF Tolled
<1>10. \A i \in DOMAIN toShell' : i \in DOMAIN toShell \/ i \in new
  BY <1>6
<1>11. /\ DOMAIN windowOf' = DOMAIN windowOf \ {s}
       /\ \A t \in DOMAIN windowOf' : windowOf'[t] = windowOf[t]
  <2>1. {t \in DOMAIN windowOf : windowOf[t] = w} = {s}
    BY <1>1
  <2>2. QED
    BY <1>2, <2>1 DEF Without
<1>12. /\ DOMAIN windows' = DOMAIN windows \ {w}
       /\ \A v \in DOMAIN windows' : windows'[v] = windows[v]
       /\ DOMAIN popups' = DOMAIN popups \ orphans
       /\ \A p \in DOMAIN popups' : popups'[p] = popups[p]
       /\ DOMAIN popupOf' \subseteq DOMAIN popupOf
       /\ \A t \in DOMAIN popupOf : t \in DOMAIN popupOf' <=> popupOf[t] \notin orphans
       /\ \A t \in DOMAIN popupOf' : popupOf'[t] = popupOf[t]
  BY <1>3 DEF Without
<1>13. gaming' \in Ids \cup {None} /\ (gaming' # None => gaming' = gaming /\ gaming # w)
  BY <1>3 DEF WindowsInv, Types
<1>14. Types'
  <2>1. \A v \in DOMAIN windows' :
           windows'[v] \in [surface : Surfaces, mapped : BOOLEAN, game : BOOLEAN]
    BY <1>12 DEF WindowsInv, Types
  <2>2. \A p \in DOMAIN popups' : popups'[p] \in [surface : Surfaces, parent : Ids]
    BY <1>12 DEF WindowsInv, Types
  <2>3. Events' = Events /\ Ids' = Ids /\ Surfaces' = Surfaces
    BY DEF Events, Ids, Surfaces
  <2>4. QED
    BY <1>7, <1>11, <1>12, <1>13, <2>1, <2>2, <2>3 DEF WindowsInv, Types
<1>15. Led'
  BY <1>1, <1>11, <1>12 DEF WindowsInv, Led
<1>16. Spent'
  <2>1. Given' = Given
    BY DEF Given
  <2>2. \A i \in DOMAIN toShell' : toShell'[i].id \in Given
    <3>1. \A i \in new : toShell'[i].id \in Given
      BY <1>1, <1>7
    <3>2. QED
      BY <1>7, <1>10, <3>1 DEF WindowsInv, Spent
  <2>3. QED
    BY <1>4, <1>12, <2>1, <2>2 DEF WindowsInv, Spent, heard
<1>17. RegistryAgrees'
  <2>1. \A t \in DOMAIN windowOf' :
           windowOf'[t] \in DOMAIN windows' /\ windows'[windowOf'[t]].surface = t
    BY <1>1, <1>11, <1>12 DEF WindowsInv, RegistryAgrees
  <2>2. \A t \in DOMAIN popupOf' :
           popupOf'[t] \in DOMAIN popups' /\ popups'[popupOf'[t]].surface = t
    BY <1>12 DEF WindowsInv, RegistryAgrees
  <2>3. \A v \in DOMAIN windows' :
           /\ windows'[v].surface \in live'
           /\ windows'[v].surface \in DOMAIN windowOf'
           /\ windowOf'[windows'[v].surface] = v
    BY <1>1, <1>11, <1>12 DEF WindowsInv, RegistryAgrees
  <2>4. \A v \in DOMAIN windows' : windows'[v].game <=> gaming' = v
    <3>1. ASSUME NEW v \in DOMAIN windows' PROVE windows'[v].game <=> gaming' = v
      <4>1. v \in DOMAIN windows /\ v # w /\ windows'[v] = windows[v] /\ v # None
        BY <1>12, IdsOf, WindowsAssumption
      <4>2. windows[v].game <=> gaming = v
        BY <4>1 DEF WindowsInv, RegistryAgrees
      <4>3. gaming' = v <=> gaming = v
        BY <1>3, <4>1
      <4>4. QED
        BY <4>1, <4>2, <4>3
    <3>2. QED
      BY <3>1
  <2>5. \A p \in DOMAIN popups' : /\ popups'[p].parent \in DOMAIN windows'
                                  /\ popups'[p].surface \in DOMAIN popupOf'
                                  /\ popupOf'[popups'[p].surface] = p
    BY <1>0, <1>12 DEF WindowsInv, RegistryAgrees
  <2>6. gaming' # None => gaming' \in DOMAIN windows'
    BY <1>12, <1>13 DEF WindowsInv, RegistryAgrees
  <2>7. QED
    BY <2>1, <2>2, <2>3, <2>4, <2>5, <2>6 DEF RegistryAgrees
<1>18. /\ \A i \in DOMAIN toShell : \A id : /\ Came(id, i)' <=> Came(id, i)
                                            /\ Left(id, i)' <=> Left(id, i)
                                            /\ Opened(id, i)' <=> Opened(id, i)
                                            /\ Ended(id, i)' <=> Ended(id, i)
       /\ \A i \in new : \A id : /\ Came(id, i)' <=> Came(id, End)
                                 /\ Left(id, i)' <=> Left(id, End)
                                 /\ Opened(id, i)' <=> Opened(id, End)
                                 /\ Ended(id, End) => Ended(id, i)'
       /\ \A id : /\ Came(id, End)' <=> Came(id, End)
                  /\ Left(id, End)' <=> Left(id, End) \/ id = w
                  /\ Opened(id, End)' <=> Opened(id, End)
                  /\ Ended(id, End)' <=> Ended(id, End) \/ id \in orphans
  <2>1. Here' = Here /\ shown' = shown
    BY <1>4, <1>7 DEF heard
  <2>2. QED
    BY <1>7, <2>1 DEF Came, Left, Opened, Ended
<1>19. /\ \A i \in new : \A kind, id : Is(i, kind, id)' <=> toShell'[i].kind = kind /\ toShell'[i].id = id
       /\ \A i \in new : \A p, v : ~OpensOver(i, p, v)'
  <2>1. \A i \in new : \A kind, id : Is(i, kind, id)' <=> toShell'[i].kind = kind /\ toShell'[i].id = id
    BY <1>6 DEF Is
  <2>2. \A i \in new : toShell'[i].kind # "popup"
    BY <1>7
  <2>3. QED
    BY <2>1, <2>2 DEF OpensOver
<1>20. Ids' = Ids /\ known' = known /\ arriving' = arriving /\ shown' = shown
  BY <1>4 DEF Ids, heard
<1>21. Came(w, End) /\ ~Left(w, End)
  BY <1>1 DEF WindowsInv, Books
<1>22. \A p \in orphans : Opened(p, End) /\ ~Ended(p, End)
  BY <1>1 DEF WindowsInv, Books
<1>23. WindowOrder'
  <2>1. \A i \in DOMAIN toShell : \A v : Concerns(i, v)' <=> Concerns(i, v)
    BY <1>7, <1>20 DEF Concerns
  <2>2. \A i \in new, v \in Ids : Concerns(i, v)' => v = w
    <3>1. ASSUME NEW i \in new, NEW v \in Ids, Concerns(i, v)' PROVE v = w
      <4>1. \E kind \in {"mapped", "game", "removed"} : Is(i, kind, v)'
        BY <1>19, <3>1 DEF Concerns
      <4>2. QED
        BY <1>7, <1>19, <4>1
    <3>2. QED
      BY <3>1
  <2>3. ASSUME NEW i \in DOMAIN toShell', NEW v \in Ids, Concerns(i, v)'
        PROVE  Came(v, i)' /\ ~Left(v, i)'
    <3>1. CASE i \in DOMAIN toShell
      BY <1>18, <2>1, <2>3, <3>1 DEF WindowsInv, WindowOrder
    <3>2. CASE i \in new
      BY <1>18, <1>21, <2>2, <2>3, <3>2
    <3>3. QED
      BY <1>10, <3>1, <3>2
  <2>4. ASSUME NEW i \in DOMAIN toShell', NEW v \in Ids, Is(i, "created", v)'
        PROVE  v \notin known \cup DOMAIN arriving /\ ~Before("created", v, i)'
    <3>1. i \in DOMAIN toShell
      BY <1>7, <1>10, <1>19, <2>4
    <3>2. QED
      BY <1>7, <2>4, <3>1 DEF WindowsInv, WindowOrder
  <2>5. QED
    BY <1>20, <2>3, <2>4 DEF WindowOrder
<1>24. PopupOrder'
  <2>1. ASSUME NEW i \in DOMAIN toShell', NEW p \in Ids, Is(i, "popup", p)'
        PROVE  ~Opened(p, i)' /\ toShell'[i].parent \in Ids
    <3>1. i \in DOMAIN toShell
      BY <1>7, <1>10, <1>19, <2>1
    <3>2. QED
      BY <1>7, <1>18, <2>1, <3>1 DEF WindowsInv, PopupOrder
  <2>2. ASSUME NEW i \in DOMAIN toShell', NEW p \in Ids, Is(i, "popupRemoved", p)'
        PROVE  Opened(p, i)' /\ ~Ended(p, i)'
    <3>1. CASE i \in DOMAIN toShell
      BY <1>7, <1>18, <2>2, <3>1 DEF WindowsInv, PopupOrder
    <3>2. CASE i \in new
      <4>1. toShell'[i].kind = "popupRemoved" /\ toShell'[i].id = p
        BY <1>19, <2>2, <3>2
      <4>2. p \in orphans /\ (Before("popupRemoved", p, i)' <=> Before("popupRemoved", p, End))
        BY <1>7, <3>2, <4>1
      <4>3. QED
        BY <1>18, <1>22, <3>2, <4>2 DEF Ended
    <3>3. QED
      BY <1>10, <3>1, <3>2
  <2>3. ASSUME NEW i \in DOMAIN toShell', NEW v \in Ids, NEW p \in Ids,
               Is(i, "removed", v)', Child(p, v, i)'
        PROVE  Ended(p, i)'
    <3>1. CASE i \in DOMAIN toShell
      BY <1>7, <1>18, <2>3, <3>1 DEF WindowsInv, PopupOrder
    <3>2. CASE i \in new
      <4>1. toShell'[i].kind = "removed" /\ v = w /\ Child(p, w, End)
        BY <1>7, <1>19, <2>3, <3>2
      <4>2. CASE p \in DOMAIN popups
        <5>1. p \in orphans
          BY <1>0, <1>1, <4>1, <4>2 DEF WindowsInv, Books
        <5>2. QED
          BY <1>7, <3>2, <4>1, <5>1 DEF Ended
      <4>3. CASE p \notin DOMAIN popups
        <5>1. Opened(p, End)
          BY <4>1 DEF Child, Opened, OpensOver, Before
        <5>2. Ended(p, End)
          BY <4>3, <5>1 DEF WindowsInv, Books
        <5>3. QED
          BY <1>18, <3>2, <5>2
      <4>4. QED
        BY <4>2, <4>3
    <3>3. QED
      BY <1>10, <3>1, <3>2
  <2>4. \A p \in DOMAIN shown' : shown'[p] \in Here'
    BY <1>7, <1>20 DEF WindowsInv, PopupOrder
  <2>5. QED
    BY <1>20, <2>1, <2>2, <2>3, <2>4 DEF PopupOrder
<1>25. Books'
  <2>1. \A v \in Ids : (v \in DOMAIN windows)' <=> Came(v, End)' /\ ~Left(v, End)'
    BY <1>12, <1>18 DEF WindowsInv, Books
  <2>2. \A p \in Ids : (p \in DOMAIN popups)' <=> Opened(p, End)' /\ ~Ended(p, End)'
    BY <1>12, <1>18 DEF WindowsInv, Books
  <2>3. \A p \in DOMAIN popups', v \in Ids : Child(p, v, End)' => popups'[p].parent = v
    BY <1>7, <1>12 DEF WindowsInv, Books
  <2>4. QED
    BY <1>4, <1>20, <2>1, <2>2, <2>3 DEF WindowsInv, Books, heard
<1>26. MappedTold'
  <2>1. \A i \in DOMAIN toShell' : i \notin DOMAIN toShell =>
           toShell'[i].kind \notin {"created", "mapped"}
    BY <1>7, <1>10
  <2>2. \A v \in DOMAIN windows' : windows'[v].mapped = windows[v].mapped
    BY <1>12
  <2>3. QED
    BY <1>4, <1>7, <1>12, <1>20, <2>1, <2>2, MappedKept DEF WindowsInv
<1>27. Takeover'
  <2>1. \A v : Asked(v)' <=> Asked(v)
    BY DEF Asked
  <2>2. ASSUME NEW i \in DOMAIN toShell', NEW v \in Ids, Is(i, "game", v)'
        PROVE  (\A u \in Ids : ~Before("game", u, i)') /\ gaming' = None /\ toEmbedder' = <<>>
    <3>1. CASE i \in DOMAIN toShell
      BY <1>7, <1>13, <2>2, <3>1 DEF WindowsInv, Takeover
    <3>2. CASE i \in new
      <4>1. toShell'[i].kind = "game" /\ v = w /\ gaming = w
        BY <1>7, <1>19, <2>2, <3>2
      <4>2. \A u \in Ids : ~Before("game", u, End)
        BY <1>1, <4>1 DEF WindowsInv, Takeover, Before
      <4>3. gaming' = None /\ toEmbedder = <<>>
        BY <1>1, <1>3, <4>1 DEF WindowsInv, Takeover
      <4>4. QED
        BY <1>7, <3>2, <4>1, <4>2, <4>3
    <3>3. QED
      BY <1>10, <3>1, <3>2
  <2>3. ASSUME NEW v \in Ids, Asked(v)' \/ gaming' = v \/ GivenUp(v)'
        PROVE  route = [of |-> v, zooming |-> FALSE] /\ (v \in known => mirror[v].game)
    <3>1. v # None
      BY WindowsAssumption
    <3>2. Asked(v) \/ gaming = v \/ GivenUp(v)
      BY <1>7, <1>13, <2>1, <2>3, <3>1
    <3>3. QED
      BY <3>2 DEF WindowsInv, Takeover
  <2>4. ASSUME NEW v \in known, mirror[v].game
        PROVE  /\ route = [of |-> v, zooming |-> FALSE]
               /\ Asked(v)' \/ gaming' = v \/ GivenUp(v)' \/ v \notin DOMAIN windows'
    <3>1. /\ route = [of |-> v, zooming |-> FALSE]
          /\ Asked(v) \/ gaming = v \/ GivenUp(v) \/ v \notin DOMAIN windows
      BY <2>4 DEF WindowsInv, Takeover
    <3>2. QED
      BY <1>3, <1>7, <1>12, <2>1, <3>1
  <2>5. \A i \in DOMAIN toShell' : ~Is(i, "created", route.of)'
    <3>1. \A i \in new : \A id : ~Is(i, "created", id)'
      BY <1>7, <1>19
    <3>2. \A i \in DOMAIN toShell : ~Is(i, "created", route.of)'
      BY <1>4, <1>7 DEF WindowsInv, Takeover
    <3>3. PICK r : r = route'.of /\ r = route.of
      BY <1>4
    <3>4. QED
      BY <1>10, <3>1, <3>2, <3>3 DEF Is
  <2>6. QED
    BY <1>4, <1>13, <1>20, <2>2, <2>3, <2>4, <2>5 DEF WindowsInv, Takeover
<1>28. QED
  BY <1>14, <1>15, <1>16, <1>17, <1>23, <1>24, <1>25, <1>26, <1>27 DEF WindowsInv

LEMMA LeaveGameKeeps == ASSUME WindowsInv, LeaveGame PROVE WindowsInv'
<1>0. PICK w, e : w = gaming /\ e = Event("game", w, FALSE, None)
  OBVIOUS
<1>1. /\ w # None /\ windows' = [windows EXCEPT ![w].game = FALSE] /\ gaming' = None
      /\ toShell' = toShell \o <<e>>
      /\ UNCHANGED <<live, roles, windowOf, popups, popupOf, used, toEmbedder>>
      /\ UNCHANGED heard /\ UNCHANGED <<mirror, route, missed>>
  BY <1>0 DEF LeaveGame, Tell, heard, shell, client
<1>2. /\ w \in DOMAIN windows /\ w \in Ids /\ w \in Given
      /\ windows[w] \in [surface : Surfaces, mapped : BOOLEAN, game : BOOLEAN]
  <2>1. w \in DOMAIN windows
    BY <1>0, <1>1 DEF WindowsInv, RegistryAgrees
  <2>2. QED
    BY <2>1, IdsOf DEF WindowsInv, Spent, Types
<1>3. e \in Events /\ e.kind = "game" /\ e.id = w /\ toShell \in Seq(Events)
  BY <1>0, <1>2 DEF Event, Events, Kinds, WindowsInv, Types
<1>4. /\ DOMAIN windows' = DOMAIN windows
      /\ \A v \in DOMAIN windows : v # w => windows'[v] = windows[v]
      /\ windows'[w].surface = windows[w].surface /\ windows'[w].mapped = windows[w].mapped
      /\ windows'[w].game = FALSE
      /\ windows'[w] \in [surface : Surfaces, mapped : BOOLEAN, game : BOOLEAN]
  BY <1>1, <1>2
<1>5. toShell' \in Seq(Events)
  BY <1>1, <1>3, Told
<1>6. Types' /\ Led'
  <2>1. \A v \in DOMAIN windows' :
           windows'[v] \in [surface : Surfaces, mapped : BOOLEAN, game : BOOLEAN]
    BY <1>4 DEF WindowsInv, Types
  <2>2. Events' = Events /\ Ids' = Ids /\ Surfaces' = Surfaces
    BY DEF Events, Ids, Surfaces
  <2>3. QED
    BY <1>1, <1>5, <2>1, <2>2 DEF WindowsInv, Types, Led
<1>7. Spent'
  <2>1. Given' = Given
    BY <1>1 DEF Given
  <2>2. \A i \in DOMAIN toShell' : toShell'[i].id \in Given
    BY <1>1, <1>2, <1>3, Told DEF WindowsInv, Spent
  <2>3. QED
    BY <1>1, <1>4, <2>1, <2>2 DEF WindowsInv, Spent, heard
<1>8. RegistryAgrees'
  <2>1. \A v \in DOMAIN windows : windows'[v].surface = windows[v].surface
    BY <1>4
  <2>2. \A v \in DOMAIN windows : windows'[v].game <=> gaming' = v
    <3>1. ASSUME NEW v \in DOMAIN windows PROVE ~windows'[v].game /\ gaming' # v
      <4>1. v # None
        BY IdsOf, WindowsAssumption
      <4>2. v # w => ~windows[v].game
        BY <1>0 DEF WindowsInv, RegistryAgrees
      <4>3. QED
        BY <1>1, <1>4, <4>1, <4>2
    <3>2. QED
      BY <3>1
  <2>3. /\ \A t \in DOMAIN windowOf :
              windowOf[t] \in DOMAIN windows /\ windows'[windowOf[t]].surface = t
        /\ \A v \in DOMAIN windows : /\ windows'[v].surface \in live
                                     /\ windows'[v].surface \in DOMAIN windowOf
                                     /\ windowOf[windows'[v].surface] = v
    BY <2>1 DEF WindowsInv, RegistryAgrees
  <2>4. QED
    BY <1>1, <1>4, <2>2, <2>3 DEF WindowsInv, RegistryAgrees
<1>9. WindowOrder' /\ PopupOrder'
  <2>1. Came(w, End) /\ ~Left(w, End)
    BY <1>2 DEF WindowsInv, Books
  <2>2. QED
    BY <1>1, <1>3, <2>1, OrderTold DEF WindowsInv
<1>10. Books'
  <2>1. /\ \A id : /\ Came(id, End)' <=> Came(id, End)
                   /\ Left(id, End)' <=> Left(id, End)
                   /\ Opened(id, End)' <=> Opened(id, End)
                   /\ Ended(id, End)' <=> Ended(id, End)
        /\ \A q, v : Child(q, v, End)' <=> Child(q, v, End)
    BY <1>1, <1>3, Told
  <2>2. Ids' = Ids
    BY DEF Ids
  <2>3. QED
    BY <1>1, <1>4, <2>1, <2>2 DEF WindowsInv, Books, heard
<1>11. /\ \A i \in DOMAIN toShell : i \in DOMAIN toShell' /\ toShell'[i] = toShell[i]
       /\ \A i \in DOMAIN toShell : \A kind, id : Is(i, kind, id)' <=> Is(i, kind, id)
       /\ \A i \in DOMAIN toShell : \A kind, id : Before(kind, id, i)' <=> Before(kind, id, i)
       /\ \A i \in DOMAIN toShell' : i \notin DOMAIN toShell =>
             /\ toShell'[i] = e
             /\ \A kind, id : Is(i, kind, id)' <=> e.kind = kind /\ e.id = id
             /\ \A kind, id : Before(kind, id, i)' <=> Before(kind, id, End)
       /\ \E i \in DOMAIN toShell' : i \notin DOMAIN toShell
  BY <1>1, <1>3, Told
<1>12. MappedTold'
  <2>1. \A v \in DOMAIN windows' : windows'[v].mapped = windows[v].mapped
    BY <1>4
  <2>2. QED
    BY <1>1, <1>3, <1>4, <1>11, <2>1, MappedKept DEF WindowsInv, heard
<1>13. Takeover'
  <2>1. /\ \A v : Asked(v)' <=> Asked(v)
        /\ Ids' = Ids /\ known' = known /\ arriving' = arriving
    BY <1>1 DEF Asked, Ids, heard
  <2>2. toEmbedder = <<>> /\ \A i \in DOMAIN toShell, v \in Ids : ~Is(i, "game", v)
    BY <1>0, <1>1 DEF WindowsInv, Takeover
  <2>3. \A v \in Ids : GivenUp(v)' <=> v = w
    BY <1>3, <1>11, <2>2 DEF GivenUp
  <2>4. \A i \in DOMAIN toShell', v \in Ids : Is(i, "game", v)' =>
           \A u \in Ids : ~Before("game", u, i)'
    <3>1. ASSUME NEW i \in DOMAIN toShell', NEW v \in Ids, Is(i, "game", v)', NEW u \in Ids
          PROVE  ~Before("game", u, i)'
      <4>1. i \notin DOMAIN toShell
        BY <1>11, <2>2, <3>1
      <4>2. ~Before("game", u, End)
        BY <2>2 DEF Before
      <4>3. QED
        BY <1>11, <4>1, <4>2
    <3>2. QED
      BY <3>1
  <2>5. \A v \in Ids : Asked(v)' \/ gaming' = v \/ GivenUp(v)' => v = w
    BY <1>1, <2>1, <2>2, <2>3, WindowsAssumption DEF Asked
  <2>6. route = [of |-> w, zooming |-> FALSE] /\ (w \in known => mirror[w].game)
    BY <1>0, <1>2 DEF WindowsInv, Takeover
  <2>7. \A v \in known : mirror[v].game => v = w
    BY <2>6 DEF WindowsInv, Takeover
  <2>8. \A i \in DOMAIN toShell' : ~Is(i, "created", w)'
    BY <1>3, <1>11, <2>6 DEF WindowsInv, Takeover
  <2>9. route'.of = w /\ route' = route
    BY <1>1, <2>6
  <2>10. \A i \in DOMAIN toShell' : ~Is(i, "created", route.of)'
    BY <2>8, <2>9 DEF Is
  <2>11. QED
    BY <1>1, <1>2, <2>1, <2>2, <2>3, <2>4, <2>5, <2>6, <2>7, <2>10 DEF WindowsInv, Takeover
<1>14. QED
  BY <1>6, <1>7, <1>8, <1>9, <1>10, <1>12, <1>13 DEF WindowsInv

LEMMA ActivateGameKeeps == ASSUME WindowsInv, ActivateGame PROVE WindowsInv'
<1>0. PICK w : w = Head(toEmbedder)
  OBVIOUS
<1>1. /\ toEmbedder # <<>> /\ toEmbedder' = Tail(toEmbedder)
      /\ UNCHANGED <<live, roles, windowOf, popups, popupOf, used, toShell>>
      /\ UNCHANGED heard /\ UNCHANGED <<mirror, route, missed>>
      /\ IF w \in DOMAIN windows /\ ~ windows[w].game
         THEN windows' = [windows EXCEPT ![w].game = TRUE] /\ gaming' = w
         ELSE UNCHANGED <<windows, gaming>>
  BY <1>0 DEF ActivateGame, heard, shell, client
<1>2. toEmbedder' = <<>> /\ w \in Ids
  <2>1. toEmbedder \in Seq(Ids) /\ Len(toEmbedder) <= 1
    BY DEF WindowsInv, Types, Takeover
  <2>2. Head(toEmbedder) \in Ids /\ Len(Tail(toEmbedder)) = Len(toEmbedder) - 1
        /\ Tail(toEmbedder) \in Seq(Ids)
    BY <1>1, <2>1, HeadTailProperties
  <2>3. Len(toEmbedder) \in Nat /\ Len(toEmbedder) # 0
    BY <1>1, <2>1, EmptySeq, LenProperties
  <2>4. Len(Tail(toEmbedder)) = 0
    BY <2>1, <2>2, <2>3
  <2>5. QED
    BY <1>0, <1>1, <2>2, <2>4, EmptySeq
<1>3. /\ gaming = None /\ Asked(w) /\ \A v \in Ids : ~GivenUp(v)
      /\ \A i \in DOMAIN toShell, v \in Ids : ~Is(i, "game", v)
  BY <1>0, <1>1 DEF WindowsInv, Takeover, Asked, GivenUp
<1>4. route = [of |-> w, zooming |-> FALSE] /\ (w \in known => mirror[w].game)
  BY <1>2, <1>3 DEF WindowsInv, Takeover
<1>5. \A v \in known : mirror[v].game => v = w
  BY <1>4 DEF WindowsInv, Takeover
<1>6. \A v \in DOMAIN windows : ~windows[v].game
  BY <1>3, IdsOf, WindowsAssumption DEF WindowsInv, RegistryAgrees
<1>7. /\ DOMAIN windows' = DOMAIN windows
      /\ \A v \in DOMAIN windows : /\ windows'[v].surface = windows[v].surface
                                   /\ windows'[v].mapped = windows[v].mapped
                                   /\ windows'[v].game <=> v = w
                                   /\ windows'[v] \in [surface : Surfaces, mapped : BOOLEAN, game : BOOLEAN]
      /\ gaming' = IF w \in DOMAIN windows THEN w ELSE None
  <2>1. \A v \in DOMAIN windows :
           windows[v] \in [surface : Surfaces, mapped : BOOLEAN, game : BOOLEAN]
    BY DEF WindowsInv, Types
  <2>2. CASE w \in DOMAIN windows
    <3>1. windows' = [windows EXCEPT ![w].game = TRUE] /\ gaming' = w
      BY <1>1, <1>6, <2>2
    <3>2. /\ DOMAIN windows' = DOMAIN windows
          /\ \A v \in DOMAIN windows : v # w => windows'[v] = windows[v]
          /\ windows'[w].surface = windows[w].surface /\ windows'[w].mapped = windows[w].mapped
          /\ windows'[w].game = TRUE
          /\ windows'[w] \in [surface : Surfaces, mapped : BOOLEAN, game : BOOLEAN]
      BY <2>1, <2>2, <3>1
    <3>3. QED
      BY <1>6, <2>1, <2>2, <3>1, <3>2
  <2>3. CASE w \notin DOMAIN windows
    BY <1>1, <1>3, <1>6, <2>1, <2>3
  <2>4. QED
    BY <2>2, <2>3
<1>8. Types' /\ Led'
  <2>1. Events' = Events /\ Ids' = Ids /\ Surfaces' = Surfaces
    BY DEF Events, Ids, Surfaces
  <2>2. gaming' \in Ids \cup {None} /\ toEmbedder' \in Seq(Ids)
    BY <1>2, <1>7
  <2>3. QED
    BY <1>1, <1>7, <2>1, <2>2 DEF WindowsInv, Types, Led
<1>9. Spent'
  BY <1>1, <1>7 DEF WindowsInv, Spent, Given, heard
<1>10. RegistryAgrees'
  <2>1. \A v \in DOMAIN windows : windows'[v].game <=> gaming' = v
    BY <1>7, IdsOf, WindowsAssumption
  <2>2. /\ \A t \in DOMAIN windowOf :
              windowOf[t] \in DOMAIN windows /\ windows'[windowOf[t]].surface = t
        /\ \A v \in DOMAIN windows : /\ windows'[v].surface \in live
                                     /\ windows'[v].surface \in DOMAIN windowOf
                                     /\ windowOf[windows'[v].surface] = v
    BY <1>7 DEF WindowsInv, RegistryAgrees
  <2>3. gaming' # None => gaming' \in DOMAIN windows
    BY <1>7
  <2>4. QED
    BY <1>1, <1>7, <2>1, <2>2, <2>3 DEF WindowsInv, RegistryAgrees
<1>11. WindowOrder' /\ PopupOrder'
  BY <1>1, QueueStays DEF WindowsInv, heard
<1>12. Books'
  BY <1>1, <1>7 DEF WindowsInv, Books, Ids, Came, Left, Opened, Ended, Child, Here, OpensOver,
                    End, Before, Is, heard
<1>13. MappedTold'
  BY <1>1, <1>7, QueueStays DEF WindowsInv, MappedTold, heard
<1>14. Takeover'
  <2>1. \A v : ~Asked(v)'
    BY <1>2 DEF Asked
  <2>2. \A v : GivenUp(v)' <=> GivenUp(v)
    BY <1>1 DEF GivenUp, Is
  <2>3. \A i, v : Is(i, "game", v)' <=> Is(i, "game", v)
    BY <1>1 DEF Is
  <2>4. \A i \in DOMAIN toShell : ~Is(i, "created", route.of)'
    BY <1>1 DEF Is, WindowsInv, Takeover
  <2>0. Len(toEmbedder') <= 1
    BY <1>2
  <2>5. Ids' = Ids /\ known' = known /\ arriving' = arriving
    BY <1>1 DEF Ids, heard
  <2>6. \A v \in Ids : gaming' = v => v = w
    BY <1>7, WindowsAssumption
  <2>7. \A v \in known : mirror[v].game =>
           /\ route = [of |-> v, zooming |-> FALSE]
           /\ gaming' = v \/ v \notin DOMAIN windows'
    BY <1>4, <1>5, <1>7
  <2>8. QED
    BY <1>1, <1>2, <1>3, <1>4, <2>0, <2>1, <2>2, <2>3, <2>4, <2>5, <2>6, <2>7
       DEF WindowsInv, Takeover
<1>15. QED
  BY <1>8, <1>9, <1>10, <1>11, <1>12, <1>13, <1>14 DEF WindowsInv

----------------------------------------------------------------------------
(* The shell *)

\* A message that is read in its turn leaves every message in its turn, and the books true.
LEMMA ReadKeeps ==
    ASSUME WindowsInv, NEW e, toShell # <<>>, e = Head(toShell), toShell' = Tail(toShell),
           UNCHANGED <<windows, popups>>,
           \A w : w \in Here' <=> /\ w \in Here \/ (e.kind = "created" /\ e.id = w)
                                  /\ ~(e.kind = "removed" /\ e.id = w),
           \A w : w \in known' \cup DOMAIN arriving' =>
               w \in known \cup DOMAIN arriving \/ (e.kind = "created" /\ e.id = w),
           \A p : p \in DOMAIN shown' <=> /\ p \in DOMAIN shown \/ (e.kind = "popup" /\ e.id = p)
                                          /\ ~(e.kind = "popupRemoved" /\ e.id = p),
           \A p \in DOMAIN shown' :
               shown'[p] = IF e.kind = "popup" /\ e.id = p THEN e.parent ELSE shown[p]
    PROVE  /\ WindowOrder' /\ PopupOrder'
           /\ \A w \in Ids : (w \in DOMAIN windows)' <=> Came(w, End)' /\ ~Left(w, End)'
           /\ \A p \in Ids : (p \in DOMAIN popups)' <=> Opened(p, End)' /\ ~Ended(p, End)'
           /\ \A p \in DOMAIN popups', w \in Ids : Child(p, w, End)' => popups'[p].parent = w
<1>1. toShell \in Seq(Events)
  BY DEF WindowsInv, Types
<1>2. /\ toShell' \in Seq(Events) /\ e \in Events /\ End \in Nat /\ End = End' + 1
      /\ 1 \in DOMAIN toShell /\ toShell[1] = e
      /\ DOMAIN toShell \subseteq Nat \ {0} /\ DOMAIN toShell' \subseteq Nat \ {0}
      /\ \A i \in DOMAIN toShell' : i + 1 \in DOMAIN toShell /\ toShell'[i] = toShell[i + 1]
      /\ \A i \in DOMAIN toShell : i # 1 => i - 1 \in DOMAIN toShell'
      /\ \A i \in DOMAIN toShell' \cup {End'} : \A kind, id :
            Before(kind, id, i + 1) <=> (e.kind = kind /\ e.id = id) \/ Before(kind, id, i)'
      /\ \A i \in DOMAIN toShell' \cup {End'} : \A p, w :
            (\E j \in DOMAIN toShell : j < i + 1 /\ OpensOver(j, p, w))
               <=> \/ e.kind = "popup" /\ e.id = p /\ e.parent = w
                   \/ \E j \in DOMAIN toShell' : j < i /\ OpensOver(j, p, w)'
      /\ \A kind, id : ~Before(kind, id, 1)
      /\ \A p, w : ~\E j \in DOMAIN toShell : j < 1 /\ OpensOver(j, p, w)
  <2>1. ReadOff(e)
    BY <1>1, Reading
  <2>2. QED
    BY <2>1 DEF ReadOff
<1>3. e.id \in Ids /\ e.kind \in Kinds
  BY <1>2 DEF Events
<1>4. \A kind, id : Is(1, kind, id) <=> e.kind = kind /\ e.id = id
  BY <1>2 DEF Is
<1>5. \A i \in DOMAIN toShell' : \A kind, id : Is(i, kind, id)' <=> Is(i + 1, kind, id)
  BY <1>2 DEF Is
<1>6. \A i \in DOMAIN toShell' : \A p, w : OpensOver(i, p, w)' <=> OpensOver(i + 1, p, w)
  BY <1>2, <1>5 DEF OpensOver
<1>7. Ids' = Ids
  BY DEF Ids
<1>8. \A i \in DOMAIN toShell' : \A w : Concerns(i, w)' <=> Concerns(i + 1, w)
  BY <1>5, <1>6, <1>7 DEF Concerns
\* What the first message may be
<1>9. /\ e.kind = "removed" => e.id \in Here
      /\ e.kind = "popup" => e.id \notin DOMAIN shown /\ e.parent \in Here
      /\ e.kind = "popupRemoved" => e.id \in DOMAIN shown
      /\ e.kind = "created" => e.id \notin known \cup DOMAIN arriving
  <2>1. e.kind = "removed" => e.id \in Here
    BY <1>2, <1>3, <1>4 DEF WindowsInv, WindowOrder, Concerns, Came
  <2>2. e.kind = "popup" => e.id \notin DOMAIN shown /\ e.parent \in Here
    <3>1. SUFFICES ASSUME e.kind = "popup" PROVE e.id \notin DOMAIN shown /\ e.parent \in Here
      OBVIOUS
    <3>2. Is(1, "popup", e.id) /\ OpensOver(1, e.id, e.parent)
      BY <1>2, <1>4, <3>1 DEF OpensOver
    <3>3. e.id \notin DOMAIN shown /\ e.parent \in Ids
      BY <1>2, <1>3, <3>2 DEF WindowsInv, PopupOrder, Opened
    <3>4. PICK r : r = e.parent
      OBVIOUS
    <3>5. Concerns(1, r) /\ r \in Ids
      BY <1>3, <3>2, <3>3, <3>4 DEF Concerns
    <3>6. Came(r, 1)
      BY <1>2, <3>5 DEF WindowsInv, WindowOrder
    <3>7. QED
      BY <1>2, <3>3, <3>4, <3>6 DEF Came
  <2>3. e.kind = "popupRemoved" => e.id \in DOMAIN shown
    BY <1>2, <1>3, <1>4 DEF WindowsInv, PopupOrder, Opened
  <2>4. e.kind = "created" => e.id \notin known \cup DOMAIN arriving
    BY <1>2, <1>3, <1>4 DEF WindowsInv, WindowOrder
  <2>5. QED
    BY <2>1, <2>2, <2>3, <2>4
\* What is known of message i is known of it still, one place nearer.
<1>10. /\ \A i \in DOMAIN toShell' \cup {End'} : \A w :
             /\ Came(w, i + 1) /\ ~Left(w, i + 1) => Came(w, i)' /\ ~Left(w, i)'
             /\ Left(w, i + 1) <=> (e.kind = "removed" /\ e.id = w) \/ Left(w, i)'
             /\ Came(w, i)' => Came(w, i + 1)
       /\ \A i \in DOMAIN toShell' \cup {End'} : \A p :
             /\ Opened(p, i)' => Opened(p, i + 1)
             /\ Opened(p, i + 1) /\ ~Ended(p, i + 1) => Opened(p, i)' /\ ~Ended(p, i)'
             /\ Ended(p, i + 1) <=> (e.kind = "popupRemoved" /\ e.id = p) \/ Ended(p, i)'
       /\ \A i \in DOMAIN toShell' \cup {End'} : \A p, w : Child(p, w, i)' => Child(p, w, i + 1)
  <2>1. \A i \in DOMAIN toShell' \cup {End'} : \A w :
           /\ Came(w, i + 1) /\ ~Left(w, i + 1) => Came(w, i)' /\ ~Left(w, i)'
           /\ Left(w, i + 1) <=> (e.kind = "removed" /\ e.id = w) \/ Left(w, i)'
           /\ Came(w, i)' => Came(w, i + 1)
    <3>1. \A i \in DOMAIN toShell' \cup {End'} : \A w :
             /\ Left(w, i + 1) <=> (e.kind = "removed" /\ e.id = w) \/ Left(w, i)'
             /\ Before("created", w, i + 1)
                   <=> (e.kind = "created" /\ e.id = w) \/ Before("created", w, i)'
      BY <1>2 DEF Left
    <3>2. QED
      BY <3>1 DEF Came
  <2>2. \A i \in DOMAIN toShell' \cup {End'} : \A p :
           /\ Opened(p, i)' => Opened(p, i + 1)
           /\ Opened(p, i + 1) /\ ~Ended(p, i + 1) => Opened(p, i)' /\ ~Ended(p, i)'
           /\ Ended(p, i + 1) <=> (e.kind = "popupRemoved" /\ e.id = p) \/ Ended(p, i)'
    <3>1. \A i \in DOMAIN toShell' \cup {End'} : \A p :
             /\ Ended(p, i + 1) <=> (e.kind = "popupRemoved" /\ e.id = p) \/ Ended(p, i)'
             /\ Before("popup", p, i + 1) <=> (e.kind = "popup" /\ e.id = p) \/ Before("popup", p, i)'
      BY <1>2 DEF Ended
    <3>2. QED
      BY <3>1 DEF Opened
  <2>3. ASSUME NEW i \in DOMAIN toShell' \cup {End'}, NEW p, NEW w, Child(p, w, i)'
        PROVE  Child(p, w, i + 1)
    <3>1. CASE p \in DOMAIN shown' /\ shown'[p] = w
      <4>1. CASE e.kind = "popup" /\ e.id = p
        BY <1>2, <3>1, <4>1 DEF Child
      <4>2. CASE ~(e.kind = "popup" /\ e.id = p)
        BY <3>1, <4>2 DEF Child
      <4>3. QED
        BY <4>1, <4>2
    <3>2. CASE \E j \in DOMAIN toShell' : j < i /\ OpensOver(j, p, w)'
      BY <1>2, <3>2 DEF Child
    <3>3. QED
      BY <2>3, <3>1, <3>2 DEF Child
  <2>4. QED
    BY <2>1, <2>2, <2>3
<1>11. WindowOrder'
  <2>1. ASSUME NEW i \in DOMAIN toShell', NEW w \in Ids, Concerns(i, w)'
        PROVE  Came(w, i)' /\ ~Left(w, i)'
    <3>1. Came(w, i + 1) /\ ~Left(w, i + 1)
      BY <1>2, <1>8, <2>1 DEF WindowsInv, WindowOrder
    <3>2. QED
      BY <1>10, <3>1
  <2>2. ASSUME NEW i \in DOMAIN toShell', NEW w \in Ids, Is(i, "created", w)'
        PROVE  w \notin known' \cup DOMAIN arriving' /\ ~Before("created", w, i)'
    <3>1. w \notin known \cup DOMAIN arriving /\ ~Before("created", w, i + 1)
      BY <1>2, <1>5, <2>2 DEF WindowsInv, WindowOrder
    <3>2. QED
      BY <1>2, <3>1
  <2>3. QED
    BY <1>7, <2>1, <2>2 DEF WindowOrder
<1>12. \A j \in DOMAIN toShell', p \in Ids :
          ~(e.kind = "popupRemoved" /\ e.id = p /\ Is(j, "popup", p)')
  <2>1. ASSUME NEW j \in DOMAIN toShell', NEW p \in Ids, Is(j, "popup", p)'
        PROVE  p \notin DOMAIN shown
    BY <1>2, <1>5, <2>1 DEF WindowsInv, PopupOrder, Opened
  <2>2. QED
    BY <1>9, <2>1
<1>13. PopupOrder'
  <2>1. ASSUME NEW i \in DOMAIN toShell', NEW p \in Ids, Is(i, "popup", p)'
        PROVE  ~Opened(p, i)' /\ toShell'[i].parent \in Ids
    BY <1>2, <1>5, <1>10, <2>1 DEF WindowsInv, PopupOrder
  <2>2. ASSUME NEW i \in DOMAIN toShell', NEW p \in Ids, Is(i, "popupRemoved", p)'
        PROVE  Opened(p, i)' /\ ~Ended(p, i)'
    BY <1>2, <1>5, <1>10, <2>2 DEF WindowsInv, PopupOrder
  <2>3. ASSUME NEW i \in DOMAIN toShell', NEW w \in Ids, NEW p \in Ids,
               Is(i, "removed", w)', Child(p, w, i)'
        PROVE  Ended(p, i)'
    <3>1. Ended(p, i + 1)
      BY <1>2, <1>5, <1>10, <2>3 DEF WindowsInv, PopupOrder
    <3>2. CASE e.kind = "popupRemoved" /\ e.id = p
      <4>1. p \notin DOMAIN shown'
        BY <3>2
      <4>2. PICK j \in DOMAIN toShell' : OpensOver(j, p, w)'
        BY <2>3, <4>1 DEF Child
      <4>3. Is(j, "popup", p)'
        BY <4>2 DEF OpensOver
      <4>4. QED
        BY <1>12, <3>2, <4>3
    <3>3. QED
      BY <1>10, <3>1, <3>2
  <2>4. ASSUME NEW p \in DOMAIN shown' PROVE shown'[p] \in Here'
    <3>1. CASE e.kind = "popup" /\ e.id = p
      BY <1>9, <3>1
    <3>2. CASE ~(e.kind = "popup" /\ e.id = p)
      <4>1. p \in DOMAIN shown /\ shown'[p] = shown[p] /\ p \in Ids /\ shown[p] \in Here
        BY <3>2, IdsOf DEF WindowsInv, PopupOrder
      <4>2. PICK w : w = shown[p]
        OBVIOUS
      <4>3. ~Is(1, "removed", w)
        <5>1. SUFFICES ASSUME Is(1, "removed", w) PROVE FALSE
          OBVIOUS
        <5>2. w \in Ids
          BY <1>3, <1>4, <5>1
        <5>3. Child(p, w, 1)
          BY <4>1, <4>2 DEF Child
        <5>4. QED
          BY <1>2, <4>1, <5>1, <5>2, <5>3 DEF WindowsInv, PopupOrder, Ended
      <4>4. QED
        BY <1>4, <4>1, <4>2, <4>3
    <3>3. QED
      BY <3>1, <3>2
  <2>5. QED
    BY <1>7, <2>1, <2>2, <2>3, <2>4 DEF PopupOrder
<1>14. ASSUME NEW w \in Ids PROVE w \in DOMAIN windows <=> Came(w, End)' /\ ~Left(w, End)'
  <2>0. PICK n : n = End'
    OBVIOUS
  <2>1. w \in DOMAIN windows <=> Came(w, n + 1) /\ ~Left(w, n + 1)
    BY <1>2, <2>0 DEF WindowsInv, Books
  <2>2. /\ Came(w, n + 1) /\ ~Left(w, n + 1) => Came(w, End)' /\ ~Left(w, End)'
        /\ Left(w, n + 1) <=> (e.kind = "removed" /\ e.id = w) \/ Left(w, End)'
        /\ Came(w, End)' => Came(w, n + 1)
    <3>1. /\ Came(w, n + 1) /\ ~Left(w, n + 1) => Came(w, n)' /\ ~Left(w, n)'
          /\ Left(w, n + 1) <=> (e.kind = "removed" /\ e.id = w) \/ Left(w, n)'
          /\ Came(w, n)' => Came(w, n + 1)
      BY <1>10, <2>0
    <3>2. (Came(w, End)' <=> Came(w, n)') /\ (Left(w, End)' <=> Left(w, n)')
      BY <2>0 DEF Came, Left, Before
    <3>3. QED
      BY <3>1, <3>2
  <2>3. CASE e.kind = "removed" /\ e.id = w
    <3>1. w \in Here /\ w \notin Here'
      BY <1>9, <2>3
    <3>2. \A j \in DOMAIN toShell' : ~Is(j, "created", w)'
      BY <1>2, <1>5, <3>1 DEF WindowsInv, WindowOrder, Here
    <3>3. ~Came(w, End)'
      BY <3>1, <3>2 DEF Came, Before
    <3>4. QED
      BY <2>1, <2>2, <2>3, <3>3
  <2>4. QED
    BY <2>1, <2>2, <2>3
<1>15. ASSUME NEW p \in Ids PROVE p \in DOMAIN popups <=> Opened(p, End)' /\ ~Ended(p, End)'
  <2>0. PICK n : n = End'
    OBVIOUS
  <2>1. p \in DOMAIN popups <=> Opened(p, n + 1) /\ ~Ended(p, n + 1)
    BY <1>2, <2>0 DEF WindowsInv, Books
  <2>2. /\ Opened(p, n + 1) /\ ~Ended(p, n + 1) => Opened(p, End)' /\ ~Ended(p, End)'
        /\ Ended(p, n + 1) <=> (e.kind = "popupRemoved" /\ e.id = p) \/ Ended(p, End)'
        /\ Opened(p, End)' => Opened(p, n + 1)
    <3>1. /\ Opened(p, n + 1) /\ ~Ended(p, n + 1) => Opened(p, n)' /\ ~Ended(p, n)'
          /\ Ended(p, n + 1) <=> (e.kind = "popupRemoved" /\ e.id = p) \/ Ended(p, n)'
          /\ Opened(p, n)' => Opened(p, n + 1)
      BY <1>10, <2>0
    <3>2. (Opened(p, End)' <=> Opened(p, n)') /\ (Ended(p, End)' <=> Ended(p, n)')
      BY <2>0 DEF Opened, Ended, Before
    <3>3. QED
      BY <3>1, <3>2
  <2>3. CASE e.kind = "popupRemoved" /\ e.id = p
    <3>1. p \notin DOMAIN shown'
      BY <2>3
    <3>2. ~Opened(p, End)'
      BY <1>12, <2>3, <3>1 DEF Opened, Before
    <3>3. QED
      BY <2>1, <2>2, <2>3, <3>2
  <2>4. QED
    BY <2>1, <2>2, <2>3
<1>16. ASSUME NEW p \in DOMAIN popups, NEW w \in Ids, Child(p, w, End)'
       PROVE  popups[p].parent = w
  <2>0. PICK n : n = End'
    OBVIOUS
  <2>1. Child(p, w, n)'
    BY <1>16, <2>0 DEF Child
  <2>2. Child(p, w, n + 1)
    BY <1>10, <2>0, <2>1
  <2>3. QED
    BY <1>2, <2>0, <2>2 DEF WindowsInv, Books
<1>17. QED
  BY <1>7, <1>11, <1>13, <1>14, <1>15, <1>16

\* A message that is read changes nothing of the embedder.
LEMMA ReadRest ==
    ASSUME WindowsInv, NEW e, toShell # <<>>, e = Head(toShell), toShell' = Tail(toShell),
           UNCHANGED <<embedder, toEmbedder>>,
           known' \cup DOMAIN arriving' \subseteq known \cup DOMAIN arriving \cup {e.id},
           DOMAIN shown' \subseteq DOMAIN shown \cup {e.id},
           route'.of \in {route.of, None}
    PROVE  Types' /\ Led' /\ Spent' /\ RegistryAgrees'
<1>1. toShell \in Seq(Events)
  BY DEF WindowsInv, Types
<1>2. ReadOff(e)
  BY <1>1, Reading
<1>3. /\ toShell' \in Seq(Events) /\ 1 \in DOMAIN toShell /\ toShell[1] = e
      /\ \A i \in DOMAIN toShell' : i + 1 \in DOMAIN toShell /\ toShell'[i] = toShell[i + 1]
  BY <1>2 DEF ReadOff
<1>4. UNCHANGED <<live, roles, windows, windowOf, popups, popupOf, gaming, used, toEmbedder>>
  BY DEF embedder, client, registry
<1>5. Types' /\ Led'
  <2>1. Events' = Events /\ Ids' = Ids /\ Surfaces' = Surfaces
    BY DEF Events, Ids, Surfaces
  <2>2. QED
    BY <1>3, <1>4, <2>1 DEF WindowsInv, Types, Led
<1>6. Spent'
  <2>1. Given' = Given /\ e.id \in Given
    BY <1>3, <1>4 DEF Given, WindowsInv, Spent
  <2>2. \A i \in DOMAIN toShell' : toShell'[i].id \in Given
    BY <1>3 DEF WindowsInv, Spent
  <2>3. QED
    BY <1>4, <2>1, <2>2 DEF WindowsInv, Spent
<1>7. RegistryAgrees'
  BY <1>4 DEF WindowsInv, RegistryAgrees
<1>8. QED
  BY <1>5, <1>6, <1>7

\* What is read of whether a window is mapped is noted, or missed.
LEMMA MappedRead ==
    ASSUME WindowsInv, NEW e, toShell # <<>>, e = Head(toShell), toShell' = Tail(toShell),
           UNCHANGED windows, missed \subseteq missed',
           \A w \in DOMAIN windows \ missed' :
              IF e.kind \in {"created", "mapped"} /\ e.id = w
              THEN /\ w \in known' => mirror'[w].mapped = e.flag
                   /\ w \in DOMAIN arriving' => arriving'[w] = e.flag
              ELSE /\ w \in known' => w \in known /\ mirror'[w].mapped = mirror[w].mapped
                   /\ w \in DOMAIN arriving' => w \in DOMAIN arriving /\ arriving'[w] = arriving[w]
    PROVE  MappedTold'
<1>1. toShell \in Seq(Events)
  BY DEF WindowsInv, Types
<1>2. ReadOff(e)
  BY <1>1, Reading
<1>3. /\ 1 \in DOMAIN toShell /\ toShell[1] = e
      /\ DOMAIN toShell \subseteq Nat \ {0} /\ DOMAIN toShell' \subseteq Nat \ {0}
      /\ \A i \in DOMAIN toShell' : i + 1 \in DOMAIN toShell /\ toShell'[i] = toShell[i + 1]
      /\ \A i \in DOMAIN toShell : i # 1 => i - 1 \in DOMAIN toShell'
  BY <1>2 DEF ReadOff
<1>4. \A i \in DOMAIN toShell' : \A w : Says(i, w)' <=> Says(i + 1, w)
  BY <1>3 DEF Says, Is
<1>5. \A w : Says(1, w) <=> e.kind \in {"created", "mapped"} /\ e.id = w
  BY <1>3 DEF Says, Is
<1>6. ASSUME NEW w \in DOMAIN windows \ missed', NEW i \in DOMAIN toShell', Says(i, w)',
             \A j \in DOMAIN toShell' : Says(j, w)' => j <= i
      PROVE  toShell'[i].flag = windows[w].mapped
  <2>1. i + 1 \in DOMAIN toShell /\ Says(i + 1, w) /\ toShell'[i] = toShell[i + 1]
    BY <1>3, <1>4, <1>6
  <2>2. ASSUME NEW j \in DOMAIN toShell, Says(j, w) PROVE j <= i + 1
    <3>1. j \in Nat /\ i \in Nat
      BY <1>3
    <3>2. CASE j = 1
      BY <3>1, <3>2
    <3>3. CASE j # 1
      <4>1. PICK k \in DOMAIN toShell' : k = j - 1 /\ k + 1 = j
        BY <1>3, <3>1, <3>3
      <4>2. k <= i
        BY <1>4, <1>6, <2>2, <4>1
      <4>3. QED
        BY <3>1, <4>1, <4>2
    <3>4. QED
      BY <3>2, <3>3
  <2>3. QED
    BY <2>1, <2>2 DEF WindowsInv, MappedTold
<1>7. ASSUME NEW w \in DOMAIN windows \ missed', \A i \in DOMAIN toShell' : ~Says(i, w)'
      PROVE  /\ w \in known' => mirror'[w].mapped = windows[w].mapped
             /\ w \in DOMAIN arriving' => arriving'[w] = windows[w].mapped
  <2>1. ASSUME NEW j \in DOMAIN toShell, Says(j, w) PROVE j = 1
    <3>1. SUFFICES ASSUME j # 1 PROVE FALSE
      OBVIOUS
    <3>2. PICK k \in DOMAIN toShell' : k = j - 1 /\ k + 1 = j
      BY <1>3, <3>1
    <3>3. QED
      BY <1>4, <1>7, <2>1, <3>2
  <2>2. CASE Says(1, w)
    <3>1. toShell[1].flag = windows[w].mapped
      <4>1. \A j \in DOMAIN toShell : Says(j, w) => j <= 1
        BY <2>1
      <4>2. QED
        BY <1>3, <2>2, <4>1 DEF WindowsInv, MappedTold
    <3>2. QED
      BY <1>3, <1>5, <2>2, <3>1
  <2>3. CASE ~Says(1, w)
    <3>1. \A j \in DOMAIN toShell : ~Says(j, w)
      BY <2>1, <2>3
    <3>2. ~(e.kind \in {"created", "mapped"} /\ e.id = w)
      BY <1>5, <2>3
    <3>3. /\ w \in known => mirror[w].mapped = windows[w].mapped
          /\ w \in DOMAIN arriving => arriving[w] = windows[w].mapped
      BY <3>1 DEF WindowsInv, MappedTold
    <3>4. QED
      BY <3>2, <3>3
  <2>4. QED
    BY <2>2, <2>3
<1>8. QED
  BY <1>6, <1>7 DEF MappedTold

\* What is read, but for the end of a takeover, leaves the takeover where it is.
LEMMA TakeoverRead ==
    ASSUME WindowsInv, NEW e, toShell # <<>>, e = Head(toShell), toShell' = Tail(toShell),
           e.kind # "game",
           UNCHANGED <<windows, gaming, toEmbedder, route>>, known' \subseteq known,
           \A w \in known' : mirror'[w].game = mirror[w].game,
           route.of \notin DOMAIN arriving'
    PROVE  Takeover'
<1>1. toShell \in Seq(Events)
  BY DEF WindowsInv, Types
<1>2. ReadOff(e)
  BY <1>1, Reading
<1>3. /\ 1 \in DOMAIN toShell /\ toShell[1] = e
      /\ DOMAIN toShell \subseteq Nat \ {0} /\ DOMAIN toShell' \subseteq Nat \ {0}
      /\ \A i \in DOMAIN toShell' : i + 1 \in DOMAIN toShell /\ toShell'[i] = toShell[i + 1]
      /\ \A i \in DOMAIN toShell : i # 1 => i - 1 \in DOMAIN toShell'
      /\ \A i \in DOMAIN toShell' : \A kind, id :
            Before(kind, id, i + 1) <=> (e.kind = kind /\ e.id = id) \/ Before(kind, id, i)'
  BY <1>2 DEF ReadOff
<1>4. \A i \in DOMAIN toShell' : \A kind, id : Is(i, kind, id)' <=> Is(i + 1, kind, id)
  BY <1>3 DEF Is
<1>5. \A v : GivenUp(v)' <=> GivenUp(v)
  <2>1. ASSUME NEW v, GivenUp(v) PROVE GivenUp(v)'
    <3>1. PICK i \in DOMAIN toShell : Is(i, "game", v)
      BY <2>1 DEF GivenUp
    <3>2. i # 1
      BY <1>3, <3>1 DEF Is
    <3>3. PICK k \in DOMAIN toShell' : k + 1 = i
      <4>1. i - 1 \in DOMAIN toShell' /\ i \in Nat /\ i - 1 + 1 = i
        BY <1>3, <3>2
      <4>2. QED
        BY <4>1
    <3>4. QED
      BY <1>4, <3>1, <3>3 DEF GivenUp
  <2>2. ASSUME NEW v, GivenUp(v)' PROVE GivenUp(v)
    BY <1>3, <1>4, <2>2 DEF GivenUp
  <2>3. QED
    BY <2>1, <2>2
<1>6. \A v : Asked(v)' <=> Asked(v)
  BY DEF Asked
<1>7. Ids' = Ids /\ route' = route
  BY DEF Ids
<1>8. ASSUME NEW i \in DOMAIN toShell', NEW w \in Ids, Is(i, "game", w)'
      PROVE  (\A v \in Ids : ~Before("game", v, i)') /\ gaming' = None /\ toEmbedder' = <<>>
  <2>1. i + 1 \in DOMAIN toShell /\ Is(i + 1, "game", w)
    BY <1>3, <1>4, <1>8
  <2>2. (\A v \in Ids : ~Before("game", v, i + 1)) /\ gaming = None /\ toEmbedder = <<>>
    BY <2>1 DEF WindowsInv, Takeover
  <2>3. QED
    BY <1>3, <2>2
<1>9. \A i \in DOMAIN toShell' : ~Is(i, "created", route.of)'
  BY <1>3, <1>7 DEF WindowsInv, Takeover, Is
<1>10. QED
  BY <1>5, <1>6, <1>7, <1>8, <1>9 DEF WindowsInv, Takeover

LEMMA OnNewMetaWindowKeeps == ASSUME WindowsInv, OnNewMetaWindow PROVE WindowsInv'
<1>0. PICK e : e = Head(toShell)
  OBVIOUS
<1>1. /\ toShell # <<>> /\ e.kind = "created" /\ toShell' = Tail(toShell)
      /\ arriving' = With(arriving, e.id, e.flag)
      /\ UNCHANGED <<embedder, toEmbedder>>
      /\ UNCHANGED <<known, gone, mirror, shown, route, missed>>
      /\ UNCHANGED <<windows, popups, gaming>>
  BY <1>0 DEF OnNewMetaWindow, Next1, embedder, registry
<1>2. ReadOff(e)
  BY <1>0, <1>1, Reading DEF WindowsInv, Types
<1>3. Is(1, "created", e.id) /\ e.id \in Ids /\ e.flag \in BOOLEAN /\ 1 \in DOMAIN toShell
  BY <1>1, <1>2 DEF ReadOff, Events, Is
<1>4. e.id \notin known \cup DOMAIN arriving /\ e.id # route.of
  BY <1>3 DEF WindowsInv, WindowOrder, Takeover
<1>5. /\ DOMAIN arriving' = DOMAIN arriving \cup {e.id} /\ arriving'[e.id] = e.flag
      /\ \A w \in DOMAIN arriving : arriving'[w] = arriving[w]
  BY <1>1, <1>4 DEF With
<1>6. \A w : w \in Here' <=> w \in Here \/ e.id = w
  BY <1>1, <1>4, <1>5 DEF Here, WindowsInv, Books
<1>7. Types' /\ Led' /\ Spent' /\ RegistryAgrees'
  BY <1>0, <1>1, <1>5, ReadRest
<1>8. /\ WindowOrder' /\ PopupOrder'
      /\ \A w \in Ids : (w \in DOMAIN windows)' <=> Came(w, End)' /\ ~Left(w, End)'
      /\ \A p \in Ids : (p \in DOMAIN popups)' <=> Opened(p, End)' /\ ~Ended(p, End)'
      /\ \A p \in DOMAIN popups', w \in Ids : Child(p, w, End)' => popups'[p].parent = w
  BY <1>0, <1>1, <1>5, <1>6, ReadKeeps
<1>9. Books'
  <2>1. Ids' = Ids
    BY DEF Ids
  <2>2. QED
    BY <1>1, <1>3, <1>4, <1>5, <1>8, <2>1 DEF WindowsInv, Books
<1>10. MappedTold'
  BY <1>0, <1>1, <1>4, <1>5, MappedRead
<1>11. Takeover'
  <2>1. route.of \notin DOMAIN arriving'
    BY <1>4, <1>5 DEF WindowsInv, Takeover
  <2>2. QED
    BY <1>0, <1>1, <2>1, TakeoverRead
<1>12. QED
  BY <1>7, <1>8, <1>9, <1>10, <1>11 DEF WindowsInv

LEMMA OnMappedKeeps == ASSUME WindowsInv, OnMapped PROVE WindowsInv'
<1>0. PICK e : e = Head(toShell)
  OBVIOUS
<1>1. /\ toShell # <<>> /\ e.kind = "mapped" /\ toShell' = Tail(toShell)
      /\ IF e.id \in known
         THEN mirror' = [mirror EXCEPT ![e.id].mapped = e.flag] /\ UNCHANGED missed
         ELSE missed' = missed \cup {e.id} /\ UNCHANGED mirror
      /\ UNCHANGED <<embedder, toEmbedder>> /\ UNCHANGED <<known, arriving, gone, shown, route>>
      /\ UNCHANGED <<windows, popups, gaming>>
  BY <1>0 DEF OnMapped, Next1, embedder, registry
<1>2. ReadOff(e)
  BY <1>0, <1>1, Reading DEF WindowsInv, Types
<1>3. e.flag \in BOOLEAN
  BY <1>2 DEF ReadOff, Events
<1>4. DOMAIN mirror = known /\ known \cap DOMAIN arriving = {}
      /\ \A w \in known : mirror[w] \in [mapped : BOOLEAN, game : BOOLEAN]
  BY DEF WindowsInv, Books
<1>5. /\ DOMAIN mirror' = known
      /\ \A w \in known : mirror'[w] \in [mapped : BOOLEAN, game : BOOLEAN]
      /\ \A w \in known : mirror'[w].game = mirror[w].game
      /\ \A w \in known : w # e.id => mirror'[w].mapped = mirror[w].mapped
      /\ e.id \in known => mirror'[e.id].mapped = e.flag
      /\ missed \subseteq missed' /\ (e.id \notin known => e.id \in missed')
  <2>1. CASE e.id \in known
    <3>1. mirror' = [mirror EXCEPT ![e.id].mapped = e.flag] /\ missed' = missed
      BY <1>1, <2>1
    <3>2. \A w \in known : w # e.id => mirror'[w] = mirror[w]
      BY <1>4, <2>1, <3>1
    <3>3. /\ mirror'[e.id].mapped = e.flag /\ mirror'[e.id].game = mirror[e.id].game
          /\ mirror'[e.id] \in [mapped : BOOLEAN, game : BOOLEAN]
      BY <1>3, <1>4, <2>1, <3>1
    <3>4. QED
      BY <1>4, <2>1, <3>1, <3>2, <3>3
  <2>2. CASE e.id \notin known
    BY <1>1, <1>4, <2>2
  <2>3. QED
    BY <2>1, <2>2
<1>6. Here' = Here
  BY <1>1 DEF Here
<1>7. Types' /\ Led' /\ Spent' /\ RegistryAgrees'
  BY <1>0, <1>1, ReadRest
<1>8. /\ WindowOrder' /\ PopupOrder'
      /\ \A w \in Ids : (w \in DOMAIN windows)' <=> Came(w, End)' /\ ~Left(w, End)'
      /\ \A p \in Ids : (p \in DOMAIN popups)' <=> Opened(p, End)' /\ ~Ended(p, End)'
      /\ \A p \in DOMAIN popups', w \in Ids : Child(p, w, End)' => popups'[p].parent = w
  BY <1>0, <1>1, <1>6, ReadKeeps
<1>9. Books'
  <2>1. Ids' = Ids
    BY DEF Ids
  <2>2. QED
    BY <1>1, <1>5, <1>8, <2>1 DEF WindowsInv, Books
<1>10. MappedTold'
  BY <1>0, <1>1, <1>4, <1>5, MappedRead
<1>11. Takeover'
  <2>1. route.of \notin DOMAIN arriving'
    BY <1>1 DEF WindowsInv, Takeover
  <2>2. QED
    BY <1>0, <1>1, <1>5, <2>1, TakeoverRead
<1>12. QED
  BY <1>7, <1>8, <1>9, <1>10, <1>11 DEF WindowsInv

LEMMA OnMetaWindowRemovedKeeps == ASSUME WindowsInv, OnMetaWindowRemoved PROVE WindowsInv'
<1>0. PICK e : e = Head(toShell)
  OBVIOUS
<1>1. /\ toShell # <<>> /\ e.kind = "removed" /\ toShell' = Tail(toShell)
      /\ known' = known \ {e.id}
      /\ gone' = IF e.id \in DOMAIN arriving THEN gone \cup {e.id} ELSE gone
      /\ mirror' = Without(mirror, {e.id})
      /\ UNCHANGED <<embedder, toEmbedder>> /\ UNCHANGED <<arriving, shown, route, missed>>
      /\ UNCHANGED <<windows, popups, gaming>>
  BY <1>0 DEF OnMetaWindowRemoved, Next1, embedder, registry
<1>2. DOMAIN mirror = known /\ known \cap DOMAIN arriving = {} /\ gone \subseteq DOMAIN arriving
      /\ \A w \in known : mirror[w] \in [mapped : BOOLEAN, game : BOOLEAN]
  BY DEF WindowsInv, Books
<1>3. DOMAIN mirror' = known' /\ \A w \in known' : mirror'[w] = mirror[w] /\ w \in known
  BY <1>1, <1>2 DEF Without
<1>4. \A w : w \in Here' <=> w \in Here /\ e.id # w
  BY <1>1, <1>2 DEF Here
<1>5. Types' /\ Led' /\ Spent' /\ RegistryAgrees'
  BY <1>0, <1>1, ReadRest
<1>6. /\ WindowOrder' /\ PopupOrder'
      /\ \A w \in Ids : (w \in DOMAIN windows)' <=> Came(w, End)' /\ ~Left(w, End)'
      /\ \A p \in Ids : (p \in DOMAIN popups)' <=> Opened(p, End)' /\ ~Ended(p, End)'
      /\ \A p \in DOMAIN popups', w \in Ids : Child(p, w, End)' => popups'[p].parent = w
  BY <1>0, <1>1, <1>4, ReadKeeps
<1>7. Books'
  <2>1. Ids' = Ids
    BY DEF Ids
  <2>2. QED
    BY <1>1, <1>2, <1>3, <1>6, <2>1 DEF WindowsInv, Books
<1>8. MappedTold'
  BY <1>0, <1>1, <1>3, MappedRead
<1>9. Takeover'
  <2>1. route.of \notin DOMAIN arriving'
    BY <1>1 DEF WindowsInv, Takeover
  <2>2. QED
    BY <1>0, <1>1, <1>3, <2>1, TakeoverRead
<1>10. QED
  BY <1>5, <1>6, <1>7, <1>8, <1>9 DEF WindowsInv

LEMMA OnNewMetaPopupKeeps == ASSUME WindowsInv, OnNewMetaPopup PROVE WindowsInv'
<1>0. PICK e : e = Head(toShell)
  OBVIOUS
<1>1. /\ toShell # <<>> /\ e.kind = "popup" /\ toShell' = Tail(toShell)
      /\ shown' = With(shown, e.id, e.parent)
      /\ UNCHANGED <<embedder, toEmbedder>>
      /\ UNCHANGED <<known, arriving, gone, mirror, route, missed>>
      /\ UNCHANGED <<windows, popups, gaming>>
  BY <1>0 DEF OnNewMetaPopup, Next1, embedder, registry
<1>2. /\ DOMAIN shown' = DOMAIN shown \cup {e.id}
      /\ \A p \in DOMAIN shown' : shown'[p] = IF e.id = p THEN e.parent ELSE shown[p]
  BY <1>1 DEF With
<1>3. Here' = Here
  BY <1>1 DEF Here
<1>4. Types' /\ Led' /\ Spent' /\ RegistryAgrees'
  BY <1>0, <1>1, <1>2, ReadRest
<1>5. /\ WindowOrder' /\ PopupOrder'
      /\ \A w \in Ids : (w \in DOMAIN windows)' <=> Came(w, End)' /\ ~Left(w, End)'
      /\ \A p \in Ids : (p \in DOMAIN popups)' <=> Opened(p, End)' /\ ~Ended(p, End)'
      /\ \A p \in DOMAIN popups', w \in Ids : Child(p, w, End)' => popups'[p].parent = w
  BY <1>0, <1>1, <1>2, <1>3, ReadKeeps
<1>6. Books'
  <2>1. Ids' = Ids
    BY DEF Ids
  <2>2. QED
    BY <1>1, <1>5, <2>1 DEF WindowsInv, Books
<1>7. MappedTold'
  BY <1>0, <1>1, MappedRead
<1>8. Takeover'
  <2>1. route.of \notin DOMAIN arriving'
    BY <1>1 DEF WindowsInv, Takeover
  <2>2. QED
    BY <1>0, <1>1, <2>1, TakeoverRead
<1>9. QED
  BY <1>4, <1>5, <1>6, <1>7, <1>8 DEF WindowsInv

LEMMA OnMetaPopupRemovedKeeps == ASSUME WindowsInv, OnMetaPopupRemoved PROVE WindowsInv'
<1>0. PICK e : e = Head(toShell)
  OBVIOUS
<1>1. /\ toShell # <<>> /\ e.kind = "popupRemoved" /\ toShell' = Tail(toShell)
      /\ shown' = Without(shown, {e.id})
      /\ UNCHANGED <<embedder, toEmbedder>>
      /\ UNCHANGED <<known, arriving, gone, mirror, route, missed>>
      /\ UNCHANGED <<windows, popups, gaming>>
  BY <1>0 DEF OnMetaPopupRemoved, Next1, embedder, registry
<1>2. /\ DOMAIN shown' = DOMAIN shown \ {e.id}
      /\ \A p \in DOMAIN shown' : shown'[p] = shown[p]
  BY <1>1 DEF Without
<1>3. Here' = Here
  BY <1>1 DEF Here
<1>4. Types' /\ Led' /\ Spent' /\ RegistryAgrees'
  BY <1>0, <1>1, <1>2, ReadRest
<1>5. /\ WindowOrder' /\ PopupOrder'
      /\ \A w \in Ids : (w \in DOMAIN windows)' <=> Came(w, End)' /\ ~Left(w, End)'
      /\ \A p \in Ids : (p \in DOMAIN popups)' <=> Opened(p, End)' /\ ~Ended(p, End)'
      /\ \A p \in DOMAIN popups', w \in Ids : Child(p, w, End)' => popups'[p].parent = w
  BY <1>0, <1>1, <1>2, <1>3, ReadKeeps
<1>6. Books'
  <2>1. Ids' = Ids
    BY DEF Ids
  <2>2. QED
    BY <1>1, <1>5, <2>1 DEF WindowsInv, Books
<1>7. MappedTold'
  BY <1>0, <1>1, MappedRead
<1>8. Takeover'
  <2>1. route.of \notin DOMAIN arriving'
    BY <1>1 DEF WindowsInv, Takeover
  <2>2. QED
    BY <1>0, <1>1, <2>1, TakeoverRead
<1>9. QED
  BY <1>4, <1>5, <1>6, <1>7, <1>8 DEF WindowsInv

LEMMA OnGameLeftKeeps == ASSUME WindowsInv, OnGameLeft PROVE WindowsInv'
<1>0. PICK e, w : e = Head(toShell) /\ w = e.id
  OBVIOUS
<1>1. /\ toShell # <<>> /\ e.kind = "game" /\ toShell' = Tail(toShell)
      /\ IF w \in known
         THEN /\ mirror' = [mirror EXCEPT ![w].game = FALSE]
              /\ route' = IF route.of = w /\ mirror[w].game THEN NoRoute ELSE route
              /\ UNCHANGED missed
         ELSE missed' = missed \cup {w} /\ UNCHANGED <<mirror, route>>
      /\ UNCHANGED <<embedder, toEmbedder>> /\ UNCHANGED <<known, arriving, gone, shown>>
      /\ UNCHANGED <<windows, popups, gaming>>
  BY <1>0 DEF OnGameLeft, Next1, embedder, registry
<1>2. ReadOff(e)
  BY <1>0, <1>1, Reading DEF WindowsInv, Types
<1>3. Is(1, "game", w) /\ w \in Ids /\ 1 \in DOMAIN toShell
  BY <1>0, <1>1, <1>2 DEF ReadOff, Events, Is
<1>4. DOMAIN mirror = known /\ known \cap DOMAIN arriving = {}
      /\ \A v \in known : mirror[v] \in [mapped : BOOLEAN, game : BOOLEAN]
  BY DEF WindowsInv, Books
<1>5. GivenUp(w)
  BY <1>3 DEF GivenUp
<1>6. /\ route = [of |-> w, zooming |-> FALSE] /\ (w \in known => mirror[w].game)
      /\ gaming = None /\ toEmbedder = <<>>
  BY <1>3, <1>5 DEF WindowsInv, Takeover
<1>7. \A v \in known : mirror[v].game => v = w
  BY <1>6 DEF WindowsInv, Takeover
<1>8. /\ DOMAIN mirror' = known
      /\ \A v \in known : mirror'[v] \in [mapped : BOOLEAN, game : BOOLEAN]
      /\ \A v \in known : mirror'[v].mapped = mirror[v].mapped
      /\ \A v \in known : ~mirror'[v].game
      /\ missed \subseteq missed' /\ route' \in {NoRoute, route}
  <2>1. CASE w \in known
    <3>1. mirror' = [mirror EXCEPT ![w].game = FALSE] /\ missed' = missed /\ route' = NoRoute
      BY <1>1, <1>6, <2>1
    <3>2. \A v \in known : v # w => mirror'[v] = mirror[v]
      BY <1>4, <2>1, <3>1
    <3>3. /\ mirror'[w].mapped = mirror[w].mapped /\ mirror'[w].game = FALSE
          /\ mirror'[w] \in [mapped : BOOLEAN, game : BOOLEAN] /\ DOMAIN mirror' = known
      BY <1>4, <2>1, <3>1
    <3>4. QED
      BY <1>4, <1>7, <3>1, <3>2, <3>3
  <2>2. CASE w \notin known
    BY <1>1, <1>4, <1>7, <2>2
  <2>3. QED
    BY <2>1, <2>2
<1>9. Here' = Here
  BY <1>1 DEF Here
<1>10. Types' /\ Led' /\ Spent' /\ RegistryAgrees'
  <2>1. route'.of \in {route.of, None}
    BY <1>8 DEF NoRoute
  <2>2. QED
    BY <1>0, <1>1, <2>1, ReadRest
<1>11. /\ WindowOrder' /\ PopupOrder'
       /\ \A v \in Ids : (v \in DOMAIN windows)' <=> Came(v, End)' /\ ~Left(v, End)'
       /\ \A p \in Ids : (p \in DOMAIN popups)' <=> Opened(p, End)' /\ ~Ended(p, End)'
       /\ \A p \in DOMAIN popups', v \in Ids : Child(p, v, End)' => popups'[p].parent = v
  BY <1>0, <1>1, <1>9, ReadKeeps
<1>12. Books'
  <2>1. Ids' = Ids
    BY DEF Ids
  <2>2. QED
    BY <1>1, <1>8, <1>11, <2>1 DEF WindowsInv, Books
<1>13. MappedTold'
  BY <1>0, <1>1, <1>8, MappedRead
<1>14. Takeover'
  <2>1. Ids' = Ids /\ gaming' = None /\ toEmbedder' = <<>> /\ arriving' = arriving /\ known' = known
    BY <1>1, <1>6 DEF Ids
  <2>2. ASSUME NEW i \in DOMAIN toShell', NEW v \in Ids, Is(i, "game", v)' PROVE FALSE
    <3>1. i + 1 \in DOMAIN toShell /\ Is(i + 1, "game", v)
      BY <1>2, <2>2 DEF ReadOff, Is
    <3>2. ~Before("game", w, i + 1)
      BY <1>3, <3>1 DEF WindowsInv, Takeover
    <3>3. i + 1 > 1
      BY <1>2 DEF ReadOff
    <3>4. QED
      BY <1>3, <3>2, <3>3 DEF Before
  <2>3. \A v \in Ids : ~Asked(v)' /\ ~GivenUp(v)' /\ gaming' # v
    BY <2>1, <2>2, WindowsAssumption DEF Asked, GivenUp
  <2>4. route' \in [of : Ids \cup {None}, zooming : BOOLEAN] /\ (route'.zooming => route'.of # None)
    <3>1. NoRoute \in [of : Ids \cup {None}, zooming : BOOLEAN] /\ ~NoRoute.zooming
      BY DEF NoRoute
    <3>2. route \in [of : Ids \cup {None}, zooming : BOOLEAN] /\ ~route.zooming
      BY <1>3, <1>6
    <3>3. QED
      BY <1>8, <3>1, <3>2
  <2>5. route'.of \notin DOMAIN arriving
    <3>1. None \notin DOMAIN arriving
      BY IdsOf, WindowsAssumption
    <3>2. QED
      BY <1>8, <3>1 DEF NoRoute, WindowsInv, Takeover
  <2>6. ASSUME NEW i \in DOMAIN toShell' PROVE ~Is(i, "created", route.of)'
    <3>1. i + 1 \in DOMAIN toShell /\ toShell'[i] = toShell[i + 1]
      BY <1>2 DEF ReadOff
    <3>2. ~Is(i + 1, "created", w)
      BY <1>6, <3>1 DEF WindowsInv, Takeover
    <3>3. toShell[i + 1].id # None
      BY <3>1, WindowsAssumption DEF WindowsInv, Spent, Given, Types, Ids
    <3>4. route'.of \in {w, None}
      BY <1>6, <1>8 DEF NoRoute
    <3>5. QED
      BY <3>1, <3>2, <3>3, <3>4 DEF Is
  <2>7. Len(toEmbedder') <= 1
    BY <2>1
  <2>8. QED
    BY <1>8, <2>1, <2>2, <2>3, <2>4, <2>5, <2>6, <2>7 DEF Takeover
<1>15. QED
  BY <1>10, <1>11, <1>12, <1>13, <1>14 DEF WindowsInv

\* What the shell does of its own
LEMMA ShellRest ==
    ASSUME WindowsInv, UNCHANGED <<embedder, toShell>>, toEmbedder' \in Seq(Ids),
           known' \cup DOMAIN arriving' \subseteq known \cup DOMAIN arriving, shown' = shown,
           Here' = Here, route'.of \in Given \cup {None}
    PROVE  /\ Types' /\ Led' /\ Spent' /\ RegistryAgrees' /\ WindowOrder' /\ PopupOrder'
           /\ \A w \in Ids : (w \in DOMAIN windows)' <=> Came(w, End)' /\ ~Left(w, End)'
           /\ \A p \in Ids : (p \in DOMAIN popups)' <=> Opened(p, End)' /\ ~Ended(p, End)'
           /\ \A p \in DOMAIN popups', w \in Ids : Child(p, w, End)' => popups'[p].parent = w
           /\ \A i, w : Says(i, w)' <=> Says(i, w)
           /\ \A w : GivenUp(w)' <=> GivenUp(w)
           /\ Ids' = Ids
<1>1. /\ UNCHANGED <<live, roles, windows, windowOf, popups, popupOf, gaming, used, toShell>>
      /\ Ids' = Ids
  BY DEF embedder, client, registry, Ids
<1>2. /\ \A i, kind, id : /\ Is(i, kind, id)' <=> Is(i, kind, id)
                          /\ Before(kind, id, i)' <=> Before(kind, id, i)
      /\ \A i, p, w : OpensOver(i, p, w)' <=> OpensOver(i, p, w)
      /\ End' = End
  BY <1>1 DEF Is, Before, OpensOver, End
<1>3. \A i, id : /\ Came(id, i)' <=> Came(id, i)
                 /\ Left(id, i)' <=> Left(id, i)
                 /\ Opened(id, i)' <=> Opened(id, i)
                 /\ Ended(id, i)' <=> Ended(id, i)
  BY <1>2 DEF Came, Left, Opened, Ended
<1>4. \A i, p, w : Child(p, w, i)' <=> Child(p, w, i)
  BY <1>1, <1>2 DEF Child
<1>5. Types' /\ Led'
  <2>1. Events' = Events /\ Surfaces' = Surfaces
    BY DEF Events, Surfaces
  <2>2. QED
    BY <1>1, <2>1 DEF WindowsInv, Types, Led
<1>6. Spent'
  <2>1. Given' = Given
    BY <1>1 DEF Given
  <2>2. QED
    BY <1>1, <2>1 DEF WindowsInv, Spent
<1>7. RegistryAgrees'
  BY <1>1 DEF WindowsInv, RegistryAgrees
<1>8. WindowOrder'
  <2>1. \A i, w : Concerns(i, w)' <=> Concerns(i, w)
    BY <1>1, <1>2 DEF Concerns
  <2>2. QED
    BY <1>1, <1>2, <1>3, <2>1 DEF WindowsInv, WindowOrder
<1>9. PopupOrder'
  BY <1>1, <1>2, <1>3, <1>4 DEF WindowsInv, PopupOrder
<1>10. \A i, w : Says(i, w)' <=> Says(i, w)
  BY <1>2 DEF Says
<1>11. \A w : GivenUp(w)' <=> GivenUp(w)
  BY <1>1, <1>2 DEF GivenUp
<1>12. /\ \A w \in Ids : (w \in DOMAIN windows)' <=> Came(w, End)' /\ ~Left(w, End)'
       /\ \A p \in Ids : (p \in DOMAIN popups)' <=> Opened(p, End)' /\ ~Ended(p, End)'
       /\ \A p \in DOMAIN popups', w \in Ids : Child(p, w, End)' => popups'[p].parent = w
  <2>1. /\ \A id : /\ Came(id, End)' <=> Came(id, End)
                   /\ Left(id, End)' <=> Left(id, End)
                   /\ Opened(id, End)' <=> Opened(id, End)
                   /\ Ended(id, End)' <=> Ended(id, End)
        /\ \A p, w : Child(p, w, End)' <=> Child(p, w, End)
    BY <1>1 DEF Came, Left, Opened, Ended, Child, OpensOver, Before, Is, End
  <2>2. QED
    BY <1>1, <2>1 DEF WindowsInv, Books
<1>13. QED
  BY <1>1, <1>5, <1>6, <1>7, <1>8, <1>9, <1>10, <1>11, <1>12

LEMMA CreatedKeeps == ASSUME WindowsInv, NEW w \in Ids, Created(w) PROVE WindowsInv'
<1>1. /\ w \in DOMAIN arriving /\ arriving' = Without(arriving, {w}) /\ gone' = gone \ {w}
      /\ IF w \in gone THEN UNCHANGED <<known, mirror>>
         ELSE /\ known' = known \cup {w}
              /\ mirror' = With(mirror, w, [mapped |-> arriving[w], game |-> FALSE])
      /\ UNCHANGED <<embedder, toShell, toEmbedder>> /\ UNCHANGED <<shown, route, missed>>
      /\ UNCHANGED <<windows, popups, gaming>>
  BY DEF Created, embedder, registry
<1>2. /\ DOMAIN mirror = known /\ known \cap DOMAIN arriving = {} /\ gone \subseteq DOMAIN arriving
      /\ \A v \in known : mirror[v] \in [mapped : BOOLEAN, game : BOOLEAN]
  BY DEF WindowsInv, Books
<1>3. /\ DOMAIN arriving' = DOMAIN arriving \ {w}
      /\ \A v \in DOMAIN arriving' : arriving'[v] = arriving[v]
  BY <1>1 DEF Without
<1>4. Here' = Here
  BY <1>1, <1>2, <1>3 DEF Here
<1>5. w \in gone => w \notin DOMAIN windows
  <2>1. SUFFICES ASSUME w \in gone, w \in DOMAIN windows PROVE FALSE
    OBVIOUS
  <2>2. Came(w, End) /\ w \notin Here
    BY <1>1, <1>2, <2>1 DEF WindowsInv, Books, Here
  <2>3. PICK i \in DOMAIN toShell : Is(i, "created", w)
    BY <2>2 DEF Came, Before
  <2>4. QED
    BY <1>1, <2>3 DEF WindowsInv, WindowOrder
<1>6. w # route.of
  BY <1>1 DEF WindowsInv, Takeover
<1>7. \A i \in DOMAIN toShell, kind \in {"created"} : ~Is(i, kind, w)
  BY <1>1 DEF WindowsInv, WindowOrder
<1>8. \A v \in known' : v # w => v \in known /\ mirror'[v] = mirror[v]
  BY <1>1, <1>2 DEF With
<1>9. w \in known' => w \notin gone /\ mirror'[w] = [mapped |-> arriving[w], game |-> FALSE]
  BY <1>1, <1>2 DEF With
<1>10. DOMAIN mirror' = known' /\ known \subseteq known' /\ known' \subseteq known \cup {w}
  BY <1>1, <1>2 DEF With
<1>11. arriving[w] \in BOOLEAN /\ w \notin known
  BY <1>1, <1>2 DEF WindowsInv, Books
<1>12. toEmbedder' = toEmbedder /\ route' = route /\ shown' = shown
  BY <1>1
<1>13. /\ Types' /\ Led' /\ Spent' /\ RegistryAgrees' /\ WindowOrder' /\ PopupOrder'
       /\ \A v \in Ids : (v \in DOMAIN windows)' <=> Came(v, End)' /\ ~Left(v, End)'
       /\ \A p \in Ids : (p \in DOMAIN popups)' <=> Opened(p, End)' /\ ~Ended(p, End)'
       /\ \A p \in DOMAIN popups', v \in Ids : Child(p, v, End)' => popups'[p].parent = v
       /\ \A i, v : Says(i, v)' <=> Says(i, v)
       /\ \A v : GivenUp(v)' <=> GivenUp(v)
       /\ Ids' = Ids
  <2>1. toEmbedder' \in Seq(Ids) /\ route'.of \in Given \cup {None}
    BY <1>12 DEF WindowsInv, Types, Spent
  <2>2. known' \cup DOMAIN arriving' \subseteq known \cup DOMAIN arriving
    BY <1>1, <1>3, <1>10
  <2>3. QED
    BY <1>1, <1>4, <2>1, <2>2, ShellRest
<1>14. Books'
  <2>1. gone' \subseteq DOMAIN arriving' /\ known' \cap DOMAIN arriving' = {}
    BY <1>1, <1>2, <1>3, <1>10
  <2>2. ASSUME NEW v \in known' PROVE mirror'[v] \in [mapped : BOOLEAN, game : BOOLEAN]
    <3>0. \A m \in BOOLEAN :
             [mapped |-> m, game |-> FALSE] \in [mapped : BOOLEAN, game : BOOLEAN]
      OBVIOUS
    <3>1. CASE v = w
      <4>1. mirror'[v] = [mapped |-> arriving[w], game |-> FALSE]
        BY <1>9, <2>2, <3>1
      <4>2. [mapped |-> arriving[w], game |-> FALSE] \in [mapped : BOOLEAN, game : BOOLEAN]
        BY <1>11, <3>0
      <4>3. QED
        BY <4>1, <4>2
    <3>2. CASE v # w
      BY <1>2, <1>8, <2>2, <3>2
    <3>3. QED
      BY <3>1, <3>2
  <2>3. \A v \in DOMAIN arriving' : arriving'[v] \in BOOLEAN
    BY <1>3 DEF WindowsInv, Books
  <2>4. QED
    BY <1>10, <1>13, <2>1, <2>2, <2>3 DEF Books
<1>15. MappedTold'
  <2>1. ASSUME NEW v \in DOMAIN windows \ missed, \A i \in DOMAIN toShell : ~Says(i, v)
        PROVE  /\ v \in known' => mirror'[v].mapped = windows[v].mapped
               /\ v \in DOMAIN arriving' => arriving'[v] = windows[v].mapped
    <3>1. /\ v \in known => mirror[v].mapped = windows[v].mapped
          /\ v \in DOMAIN arriving => arriving[v] = windows[v].mapped
      BY <2>1 DEF WindowsInv, MappedTold
    <3>2. CASE v = w
      BY <1>1, <1>3, <1>9, <3>1, <3>2
    <3>3. CASE v # w
      BY <1>3, <1>8, <3>1, <3>3
    <3>4. QED
      BY <3>2, <3>3
  <2>2. \A v \in DOMAIN windows \ missed : \A i \in DOMAIN toShell :
           Says(i, v) /\ (\A j \in DOMAIN toShell : Says(j, v) => j <= i) =>
               toShell[i].flag = windows[v].mapped
    BY DEF WindowsInv, MappedTold
  <2>3. QED
    BY <1>1, <1>13, <2>1, <2>2 DEF MappedTold
<1>16. Takeover'
  <2>1. \A v : Asked(v)' <=> Asked(v)
    BY <1>12 DEF Asked
  <2>2. \A i, kind, id : /\ Is(i, kind, id)' <=> Is(i, kind, id)
                         /\ Before(kind, id, i)' <=> Before(kind, id, i)
    BY <1>1 DEF Is, Before
  <2>3. ASSUME NEW v \in Ids, Asked(v) \/ gaming = v \/ GivenUp(v)
        PROVE  route = [of |-> v, zooming |-> FALSE] /\ (v \in known' => mirror'[v].game)
    <3>1. route = [of |-> v, zooming |-> FALSE] /\ (v \in known => mirror[v].game)
      BY <2>3 DEF WindowsInv, Takeover
    <3>2. v # w
      BY <1>6, <3>1
    <3>3. QED
      BY <1>8, <3>1, <3>2
  <2>4. ASSUME NEW v \in known', mirror'[v].game
        PROVE  /\ route = [of |-> v, zooming |-> FALSE]
               /\ Asked(v) \/ gaming = v \/ GivenUp(v) \/ v \notin DOMAIN windows
    <3>1. v # w
      BY <1>9, <2>4
    <3>2. v \in known /\ mirror[v].game
      BY <1>8, <2>4, <3>1
    <3>3. QED
      BY <3>2 DEF WindowsInv, Takeover
  <2>5. route.of \notin DOMAIN arriving' /\ \A i \in DOMAIN toShell : ~Is(i, "created", route.of)
    BY <1>3 DEF WindowsInv, Takeover
  <2>6. \A i \in DOMAIN toShell : ~Is(i, "created", route.of)'
    BY <1>1, <2>5 DEF Is
  <2>7. QED
    BY <1>1, <1>12, <1>13, <2>1, <2>2, <2>3, <2>4, <2>5, <2>6 DEF WindowsInv, Takeover
<1>17. QED
  BY <1>13, <1>14, <1>15, <1>16 DEF WindowsInv

\* No takeover is anywhere while nothing is pushed, or what is pushed zooms in.
LEMMA NoTakeover ==
    ASSUME WindowsInv, route = NoRoute \/ route.zooming
    PROVE  /\ gaming = None /\ toEmbedder = <<>>
           /\ \A w \in Ids : ~GivenUp(w) /\ \A i \in DOMAIN toShell : ~Is(i, "game", w)
           /\ \A w \in known : ~mirror[w].game
<1>1. \A w \in Ids : route # [of |-> w, zooming |-> FALSE]
  <2>1. \A w \in Ids : [of |-> w, zooming |-> FALSE].of # None /\ ~[of |-> w, zooming |-> FALSE].zooming
    BY WindowsAssumption
  <2>2. QED
    BY <2>1 DEF NoRoute
<1>2. \A w \in Ids : ~Asked(w) /\ gaming # w /\ ~GivenUp(w)
  BY <1>1 DEF WindowsInv, Takeover
<1>3. gaming = None
  BY <1>2 DEF WindowsInv, Types
<1>4. toEmbedder = <<>>
  <2>1. SUFFICES ASSUME toEmbedder # <<>> PROVE FALSE
    OBVIOUS
  <2>2. Head(toEmbedder) \in Ids
    BY <2>1, HeadTailProperties DEF WindowsInv, Types
  <2>3. QED
    BY <1>2, <2>1, <2>2 DEF Asked
<1>5. \A w \in known : ~mirror[w].game
  BY <1>1, IdsOf DEF WindowsInv, Takeover
<1>6. QED
  BY <1>2, <1>3, <1>4, <1>5 DEF GivenUp

LEMMA ZoomToGamingModeKeeps ==
    ASSUME WindowsInv, NEW w \in Ids, ZoomToGamingMode(w)
    PROVE  WindowsInv'
<1>1. /\ route = NoRoute /\ w \in known /\ route' = [of |-> w, zooming |-> TRUE]
      /\ UNCHANGED <<embedder, toShell, toEmbedder>>
      /\ UNCHANGED <<known, arriving, gone, mirror, shown, missed>>
      /\ UNCHANGED <<windows, popups, gaming>>
  BY DEF ZoomToGamingMode, embedder, registry
<1>2. route'.of = w /\ route'.zooming = TRUE /\ w # None
      /\ route' \in [of : Ids \cup {None}, zooming : BOOLEAN]
  BY <1>1, WindowsAssumption
<1>3. Here' = Here
  BY <1>1 DEF Here
<1>4. w \in Given
  BY <1>1 DEF WindowsInv, Spent
<1>5. /\ Types' /\ Led' /\ Spent' /\ RegistryAgrees' /\ WindowOrder' /\ PopupOrder'
      /\ \A v \in Ids : (v \in DOMAIN windows)' <=> Came(v, End)' /\ ~Left(v, End)'
      /\ \A p \in Ids : (p \in DOMAIN popups)' <=> Opened(p, End)' /\ ~Ended(p, End)'
      /\ \A p \in DOMAIN popups', v \in Ids : Child(p, v, End)' => popups'[p].parent = v
      /\ \A i, v : Says(i, v)' <=> Says(i, v)
      /\ \A v : GivenUp(v)' <=> GivenUp(v)
      /\ Ids' = Ids
  <2>1. toEmbedder' \in Seq(Ids) /\ route'.of \in Given \cup {None}
    BY <1>1, <1>2, <1>4 DEF WindowsInv, Types
  <2>2. QED
    BY <1>1, <1>3, <2>1, ShellRest
<1>6. Books'
  BY <1>1, <1>5 DEF WindowsInv, Books
<1>7. MappedTold'
  BY <1>1, <1>5 DEF WindowsInv, MappedTold
<1>8. Takeover'
  <2>1. /\ gaming = None /\ toEmbedder = <<>>
        /\ \A v \in Ids : ~GivenUp(v) /\ \A i \in DOMAIN toShell : ~Is(i, "game", v)
        /\ \A v \in known : ~mirror[v].game
    BY <1>1, NoTakeover
  <2>2. \A v \in Ids : ~Asked(v)' /\ gaming' # v
    BY <1>1, <2>1, WindowsAssumption DEF Asked
  <2>3. \A i \in DOMAIN toShell, v \in Ids : ~Is(i, "game", v)'
    BY <1>1, <2>1 DEF Is
  <2>4. route'.of \notin DOMAIN arriving
    BY <1>1, <1>2 DEF WindowsInv, Books
  <2>5. \A i \in DOMAIN toShell : ~Is(i, "created", w)
    BY <1>1 DEF WindowsInv, WindowOrder
  <2>6. \A i \in DOMAIN toShell : ~Is(i, "created", route.of)'
    BY <1>1, <1>2, <2>5 DEF Is
  <2>7. Len(toEmbedder') <= 1
    BY <1>1, <2>1
  <2>8. QED
    BY <1>1, <1>2, <1>5, <2>1, <2>2, <2>3, <2>4, <2>6, <2>7 DEF Takeover
<1>9. QED
  BY <1>5, <1>6, <1>7, <1>8 DEF WindowsInv

LEMMA ZoomedKeeps == ASSUME WindowsInv, Zoomed PROVE WindowsInv'
<1>0. PICK w : w = route.of
  OBVIOUS
<1>1. /\ route.zooming /\ route' = [route EXCEPT !.zooming = FALSE]
      /\ IF w \in known
         THEN /\ mirror' = [mirror EXCEPT ![w].game = TRUE]
              /\ toEmbedder' = Append(toEmbedder, w)
         ELSE UNCHANGED <<mirror, toEmbedder>>
      /\ UNCHANGED <<embedder, toShell>> /\ UNCHANGED <<known, arriving, gone, shown, missed>>
      /\ UNCHANGED <<windows, popups, gaming>>
  BY <1>0 DEF Zoomed, embedder, registry
<1>2. /\ gaming = None /\ toEmbedder = <<>>
      /\ \A v \in Ids : ~GivenUp(v) /\ \A i \in DOMAIN toShell : ~Is(i, "game", v)
      /\ \A v \in known : ~mirror[v].game
  BY <1>1, NoTakeover
<1>3. /\ w \in Ids /\ w \in Given /\ w # None /\ w \notin DOMAIN arriving
      /\ route' = [of |-> w, zooming |-> FALSE]
      /\ \A i \in DOMAIN toShell : ~Is(i, "created", w)
  <2>1. route \in [of : Ids \cup {None}, zooming : BOOLEAN] /\ w # None /\ w \notin DOMAIN arriving
    BY <1>0, <1>1 DEF WindowsInv, Takeover
  <2>2. w \in Ids /\ w \in Given
    BY <1>0, <2>1 DEF WindowsInv, Spent
  <2>3. \A i \in DOMAIN toShell : ~Is(i, "created", w)
    BY <1>0 DEF WindowsInv, Takeover
  <2>4. route' = [of |-> w, zooming |-> FALSE]
    BY <1>0, <1>1, <2>1
  <2>5. QED
    BY <2>1, <2>2, <2>3, <2>4
<1>4. DOMAIN mirror = known /\ \A v \in known : mirror[v] \in [mapped : BOOLEAN, game : BOOLEAN]
  BY DEF WindowsInv, Books
<1>5. /\ DOMAIN mirror' = known
      /\ \A v \in known : mirror'[v] \in [mapped : BOOLEAN, game : BOOLEAN]
      /\ \A v \in known : mirror'[v].mapped = mirror[v].mapped
      /\ \A v \in known : mirror'[v].game <=> v = w
  <2>1. CASE w \in known
    <3>1. mirror' = [mirror EXCEPT ![w].game = TRUE]
      BY <1>1, <2>1
    <3>2. \A v \in known : v # w => mirror'[v] = mirror[v]
      BY <1>4, <2>1, <3>1
    <3>3. /\ mirror'[w].mapped = mirror[w].mapped /\ mirror'[w].game = TRUE
          /\ mirror'[w] \in [mapped : BOOLEAN, game : BOOLEAN] /\ DOMAIN mirror' = known
      BY <1>4, <2>1, <3>1
    <3>4. QED
      BY <1>2, <1>4, <3>2, <3>3
  <2>2. CASE w \notin known
    BY <1>1, <1>2, <1>4, <2>2
  <2>3. QED
    BY <2>1, <2>2
<1>6. /\ toEmbedder' = IF w \in known THEN <<w>> ELSE <<>>
      /\ toEmbedder' \in Seq(Ids) /\ Len(toEmbedder') <= 1
  <2>1. Append(<<>>, w) = <<w>> /\ <<w>> \in Seq(Ids) /\ Len(<<w>>) = 1
    BY <1>3
  <2>2. <<>> \in Seq(Ids) /\ Len(<<>>) = 0
    OBVIOUS
  <2>3. toEmbedder' = IF w \in known THEN <<w>> ELSE <<>>
    BY <1>1, <1>2, <2>1
  <2>4. QED
    BY <2>1, <2>2, <2>3
<1>7. Here' = Here
  BY <1>1 DEF Here
<1>8. /\ Types' /\ Led' /\ Spent' /\ RegistryAgrees' /\ WindowOrder' /\ PopupOrder'
      /\ \A v \in Ids : (v \in DOMAIN windows)' <=> Came(v, End)' /\ ~Left(v, End)'
      /\ \A p \in Ids : (p \in DOMAIN popups)' <=> Opened(p, End)' /\ ~Ended(p, End)'
      /\ \A p \in DOMAIN popups', v \in Ids : Child(p, v, End)' => popups'[p].parent = v
      /\ \A i, v : Says(i, v)' <=> Says(i, v)
      /\ \A v : GivenUp(v)' <=> GivenUp(v)
      /\ Ids' = Ids
  <2>1. route'.of \in Given \cup {None}
    BY <1>3
  <2>2. QED
    BY <1>1, <1>6, <1>7, <2>1, ShellRest
<1>9. Books'
  BY <1>1, <1>5, <1>8 DEF WindowsInv, Books
<1>10. MappedTold'
  BY <1>1, <1>5, <1>8 DEF WindowsInv, MappedTold
<1>11. Takeover'
  <2>1. route'.of = w /\ route'.zooming = FALSE /\ route' \in [of : Ids \cup {None}, zooming : BOOLEAN]
    BY <1>3
  <2>2. \A v : Asked(v)' <=> w \in known /\ v = w
    <3>1. <<w>> # <<>> /\ Head(<<w>>) = w
      OBVIOUS
    <3>2. QED
      BY <1>6, <3>1 DEF Asked
  <2>3. gaming' = None /\ \A v \in Ids : gaming' # v
    BY <1>1, <1>2, WindowsAssumption
  <2>4. \A v \in Ids : ~GivenUp(v)'
    BY <1>2, <1>8
  <2>5. \A i \in DOMAIN toShell, v \in Ids : ~Is(i, "game", v)'
    BY <1>1, <1>2 DEF Is
  <2>6. \A i \in DOMAIN toShell : ~Is(i, "created", route.of)'
    BY <1>1, <1>3, <2>1 DEF Is
  <2>7. QED
    BY <1>1, <1>3, <1>5, <1>6, <1>8, <2>1, <2>2, <2>3, <2>4, <2>5, <2>6 DEF Takeover
<1>12. QED
  BY <1>8, <1>9, <1>10, <1>11 DEF WindowsInv

----------------------------------------------------------------------------
(* The whole *)

LEMMA WindowsInit == Init => WindowsInv
<1> SUFFICES ASSUME Init PROVE WindowsInv
  OBVIOUS
<1>1. /\ DOMAIN windows = {} /\ DOMAIN windowOf = {} /\ DOMAIN popups = {} /\ DOMAIN popupOf = {}
      /\ DOMAIN arriving = {} /\ DOMAIN mirror = {} /\ DOMAIN shown = {} /\ DOMAIN toShell = {}
      /\ toShell = <<>> /\ toEmbedder = <<>> /\ Len(toEmbedder) = 0
  BY DEF Init
<1>2. \A kind, id, i : ~Before(kind, id, i)
  BY <1>1 DEF Before
<1>3. \A p, w, i : ~Child(p, w, i)
  BY <1>1 DEF Child
<1>4. Here = {}
  BY <1>1 DEF Here, Init
<1>5. /\ \A w : ~Asked(w) /\ ~GivenUp(w)
      /\ gaming = None /\ route.of = None /\ route.zooming = FALSE
      /\ route \in [of : Ids \cup {None}, zooming : BOOLEAN]
  BY <1>1 DEF Asked, GivenUp, Init, NoRoute
<1>6. Types /\ Led
  <2>1. toShell \in Seq(Events) /\ toEmbedder \in Seq(Ids)
    BY <1>1
  <2>2. 0 \in 0 .. MaxIds
    BY WindowsAssumption
  <2>3. QED
    BY <1>1, <1>5, <2>1, <2>2 DEF Types, Led, Init
<1>7. Spent /\ RegistryAgrees
  BY <1>1, <1>5 DEF Spent, RegistryAgrees, Init
<1>8. WindowOrder /\ PopupOrder
  BY <1>1 DEF WindowOrder, PopupOrder
<1>9. Books
  BY <1>1, <1>2, <1>3, <1>4 DEF Books, Came, Opened, Init
<1>10. MappedTold
  BY <1>1 DEF MappedTold
<1>11. Takeover
  BY <1>1, <1>5, WindowsAssumption DEF Takeover, Init
<1>12. QED
  BY <1>6, <1>7, <1>8, <1>9, <1>10, <1>11 DEF WindowsInv

LEMMA StutterKeeps == ASSUME WindowsInv, UNCHANGED vars PROVE WindowsInv'
<1>1. /\ UNCHANGED <<embedder, toShell, toEmbedder>>
      /\ UNCHANGED <<known, arriving, gone, mirror, shown, route, missed>>
      /\ UNCHANGED <<windows, popups, gaming>>
  BY DEF vars, embedder, registry, shell
<1>2. Here' = Here
  BY <1>1 DEF Here
<1>3. /\ Types' /\ Led' /\ Spent' /\ RegistryAgrees' /\ WindowOrder' /\ PopupOrder'
      /\ \A w \in Ids : (w \in DOMAIN windows)' <=> Came(w, End)' /\ ~Left(w, End)'
      /\ \A p \in Ids : (p \in DOMAIN popups)' <=> Opened(p, End)' /\ ~Ended(p, End)'
      /\ \A p \in DOMAIN popups', w \in Ids : Child(p, w, End)' => popups'[p].parent = w
      /\ \A i, w : Says(i, w)' <=> Says(i, w)
      /\ \A w : GivenUp(w)' <=> GivenUp(w)
      /\ Ids' = Ids
  <2>1. toEmbedder' \in Seq(Ids) /\ route'.of \in Given \cup {None}
    BY <1>1 DEF WindowsInv, Types, Spent
  <2>2. QED
    BY <1>1, <1>2, <2>1, ShellRest
<1>4. Books' /\ MappedTold'
  BY <1>1, <1>3 DEF WindowsInv, Books, MappedTold
<1>5. Takeover'
  BY <1>1, <1>3 DEF WindowsInv, Takeover, Asked, Is, Before
<1>6. QED
  BY <1>3, <1>4, <1>5 DEF WindowsInv

\* A client's surfaces and their roles end in any order.
LEMMA ClientKeeps == ASSUME WindowsInv, Client PROVE WindowsInv'
<1>1. PICK s \in Surfaces :
         \/ NewToplevel(s) \/ SurfaceAssociated(s) \/ Commit(s)
         \/ ToplevelDestroyed(s) \/ UnmappedWindow(s)
         \/ \E p \in Surfaces : NewPopup(s, p)
         \/ PopupDestroyed(s) \/ SurfaceDestroyed(s)
  BY DEF Client
<1>2. CASE NewToplevel(s)
  BY <1>2, CreateKeeps DEF NewToplevel, NewMetaWindowForToplevel
<1>3. CASE SurfaceAssociated(s)
  BY <1>3, CreateKeeps DEF SurfaceAssociated, NewMetaWindowForX11Surface
<1>4. CASE Commit(s)
  BY <1>4, CommitKeeps
<1>5. CASE ToplevelDestroyed(s)
  <2>1. s \notin DOMAIN popupOf
    BY <1>5, WindowsAssumption DEF ToplevelDestroyed, WindowsInv, Led
  <2>2. roles' = roles \ {s} /\ live' = live /\ UNCHANGED <<used, toEmbedder, shell>>
    BY <1>5 DEF ToplevelDestroyed
  <2>3. CASE s \in DOMAIN windowOf
    BY <1>5, <2>2, <2>3, RemoveKeeps DEF ToplevelDestroyed
  <2>4. CASE s \notin DOMAIN windowOf
    BY <1>5, <2>1, <2>2, <2>4, EndNothingKeeps DEF ToplevelDestroyed
  <2>5. QED
    BY <2>3, <2>4
<1>6. CASE UnmappedWindow(s)
  <2>1. s \notin DOMAIN popupOf /\ (s \notin live => s \notin DOMAIN windowOf)
    BY <1>6, WindowsAssumption DEF UnmappedWindow, WindowsInv, Led
  <2>2. roles' = roles \ {s} /\ live' = live /\ UNCHANGED <<used, toEmbedder, shell>>
    BY <1>6 DEF UnmappedWindow
  <2>3. CASE s \in DOMAIN windowOf
    BY <1>6, <2>1, <2>2, <2>3, RemoveKeeps DEF UnmappedWindow
  <2>4. CASE s \notin DOMAIN windowOf
    BY <1>6, <2>1, <2>2, <2>4, EndNothingKeeps DEF UnmappedWindow
  <2>5. QED
    BY <2>3, <2>4
<1>7. CASE \E p \in Surfaces : NewPopup(s, p)
  BY <1>7, NewPopupKeeps
<1>8. CASE PopupDestroyed(s)
  <2>1. s \notin DOMAIN windowOf
    BY <1>8, WindowsAssumption DEF PopupDestroyed, WindowsInv, Led
  <2>2. roles' = roles \ {s} /\ live' = live /\ UNCHANGED <<used, toEmbedder, shell>>
    BY <1>8 DEF PopupDestroyed
  <2>3. CASE s \in DOMAIN popupOf
    BY <1>8, <2>2, <2>3, EndPopupKeeps DEF PopupDestroyed
  <2>4. CASE s \notin DOMAIN popupOf
    BY <1>8, <2>1, <2>2, <2>4, EndNothingKeeps DEF PopupDestroyed
  <2>5. QED
    BY <2>3, <2>4
<1>9. CASE SurfaceDestroyed(s)
  <2>1. live' = live \ {s} /\ roles' = roles /\ UNCHANGED <<used, toEmbedder, shell>>
    BY <1>9 DEF SurfaceDestroyed
  <2>2. CASE s \in DOMAIN windowOf
    BY <1>9, <2>1, <2>2, RemoveKeeps DEF SurfaceDestroyed
  <2>3. CASE s \notin DOMAIN windowOf /\ s \in DOMAIN popupOf
    BY <1>9, <2>1, <2>3, EndPopupKeeps DEF SurfaceDestroyed
  <2>4. CASE s \notin DOMAIN windowOf /\ s \notin DOMAIN popupOf
    BY <1>9, <2>1, <2>4, EndNothingKeeps DEF SurfaceDestroyed
  <2>5. QED
    BY <2>2, <2>3, <2>4
<1>10. QED
  BY <1>1, <1>2, <1>3, <1>4, <1>5, <1>6, <1>7, <1>8, <1>9

LEMMA ShellKeeps == ASSUME WindowsInv, Shell PROVE WindowsInv'
BY OnNewMetaWindowKeeps, OnMappedKeeps, OnGameLeftKeeps, OnMetaWindowRemovedKeeps,
   OnNewMetaPopupKeeps, OnMetaPopupRemovedKeeps, CreatedKeeps, ZoomToGamingModeKeeps,
   ZoomedKeeps DEF Shell

LEMMA WindowsInvariant == Spec => []WindowsInv
<1>1. WindowsInv /\ [Next]_vars => WindowsInv'
  BY ClientKeeps, ActivateGameKeeps, LeaveGameKeeps, ShellKeeps, StutterKeeps DEF Next
<1>2. QED
  BY <1>1, WindowsInit, PTL DEF Spec

\* Every end that is on its way was preceded by its beginning, and by the ends of the
\* popups it takes along.
LEMMA TeardownFollows == WindowsInv => TeardownWhole
<1> SUFFICES ASSUME WindowsInv PROVE TeardownTold
  BY DEF TeardownWhole, WindowsInv
<1>0. toShell \in Seq(Events) /\ DOMAIN toShell = 1 .. Len(toShell) /\ Len(toShell) \in Nat
  BY LenProperties DEF WindowsInv, Types
<1>1. ASSUME NEW i \in DOMAIN toShell, NEW w, toShell[i].kind = "removed", w = toShell[i].id
      PROVE  /\ w \notin DOMAIN windows
             /\ \/ w \in Here
                \/ \E j \in 1 .. i - 1 : toShell[j].kind = "created" /\ toShell[j].id = w
             /\ \A j \in DOMAIN toShell :
                   toShell[j].kind = "removed" /\ toShell[j].id = w => j = i
  <2>1. w \in Ids /\ Is(i, "removed", w)
    <3>1. toShell[i] \in Events
      BY <1>0
    <3>2. QED
      BY <1>1, <3>1 DEF Is, Events
  <2>2. \A j \in DOMAIN toShell : j \in Nat /\ j < End
    BY <1>0 DEF End
  <2>3. Left(w, End)
    BY <2>1, <2>2 DEF Left, Before
  <2>4. w \notin DOMAIN windows
    BY <2>1, <2>3 DEF WindowsInv, Books
  <2>5. \A j \in DOMAIN toShell : Is(j, "removed", w) => Came(w, j) /\ ~Left(w, j)
    BY <2>1 DEF WindowsInv, WindowOrder, Concerns
  <2>6. w \in Here \/ \E j \in 1 .. i - 1 : toShell[j].kind = "created" /\ toShell[j].id = w
    <3>1. CASE w \in Here
      BY <3>1
    <3>2. CASE Before("created", w, i)
      <4>1. PICK j \in DOMAIN toShell : j < i /\ Is(j, "created", w)
        BY <3>2 DEF Before
      <4>2. j \in 1 .. i - 1
        BY <1>0, <4>1
      <4>3. QED
        BY <4>1, <4>2 DEF Is
    <3>3. QED
      BY <2>1, <2>5, <3>1, <3>2 DEF Came
  <2>7. ASSUME NEW j \in DOMAIN toShell, toShell[j].kind = "removed", toShell[j].id = w
        PROVE  j = i
    <3>1. Is(j, "removed", w)
      BY <2>7 DEF Is
    <3>2. ~(i < j) /\ ~(j < i)
      BY <2>1, <2>5, <3>1 DEF Left, Before
    <3>3. QED
      BY <2>2, <3>2
  <2>8. QED
    BY <2>4, <2>6, <2>7
<1>2. \A p \in DOMAIN shown : shown[p] \in Here
  BY DEF WindowsInv, PopupOrder
<1>3. QED
  BY <1>1, <1>2 DEF TeardownTold, Here

\* With nothing on its way, what the shell has is all it is to have.
LEMMA ConvergenceFollows == WindowsInv => ShellConverges
<1> SUFFICES ASSUME WindowsInv, Quiet
             PROVE  /\ known = DOMAIN windows /\ DOMAIN shown = DOMAIN popups /\ gone = {}
                    /\ \A w \in known \ missed : /\ mirror[w].mapped = windows[w].mapped
                                                 /\ mirror[w].game = windows[w].game
  BY DEF ShellConverges
<1>1. DOMAIN toShell = {} /\ toEmbedder = <<>> /\ DOMAIN arriving = {} /\ ~route.zooming
  BY DEF Quiet
<1>2. \A kind, id, i : ~Before(kind, id, i)
  BY <1>1 DEF Before
<1>3. gone = {} /\ Here = known
  BY <1>1 DEF WindowsInv, Books, Here
<1>4. known = DOMAIN windows
  BY <1>2, <1>3, IdsOf DEF WindowsInv, Books, Came, Left
<1>5. DOMAIN shown = DOMAIN popups
  BY <1>2, IdsOf DEF WindowsInv, Books, Opened, Ended
<1>6. ASSUME NEW w \in known \ missed PROVE mirror[w].mapped = windows[w].mapped
  BY <1>1, <1>4 DEF WindowsInv, MappedTold
<1>7. ASSUME NEW w \in known PROVE mirror[w].game = windows[w].game
  <2>1. w \in Ids /\ w \in DOMAIN windows
    BY <1>4, IdsOf
  <2>2. mirror[w].game \in BOOLEAN /\ windows[w].game \in BOOLEAN
    BY <2>1 DEF WindowsInv, Books, Types
  <2>3. ~Asked(w) /\ ~GivenUp(w)
    BY <1>1 DEF Asked, GivenUp
  <2>4. mirror[w].game => gaming = w
    BY <2>1, <2>3 DEF WindowsInv, Takeover
  <2>5. gaming = w => mirror[w].game
    BY <2>1 DEF WindowsInv, Takeover
  <2>6. windows[w].game <=> gaming = w
    BY <2>1 DEF WindowsInv, RegistryAgrees
  <2>7. mirror[w].game <=> windows[w].game
    BY <2>4, <2>5, <2>6
  <2>8. QED
    BY <2>2, <2>7
<1>8. QED
  BY <1>3, <1>4, <1>5, <1>6, <1>7

\* Through every teardown, whatever ends first, the registry and its reverse maps agree,
\* no popup or takeover outlives its window, and no end is told twice or out of turn.
THEOREM TearsDownWhole == Spec => []TeardownWhole
BY WindowsInvariant, TeardownFollows, PTL

\* Whenever nothing is on its way, the shell has exactly the windows and popups of the
\* embedder, and what it believes of them is so.
THEOREM Converges == Spec => []ShellConverges
BY WindowsInvariant, ConvergenceFollows, PTL
=============================================================================
