--------------------------- MODULE PortalPromptsProofs -----------------------
(***************************************************************************)
(* Proofs about PortalPrompts, for any set of handles, any number of calls *)
(* and of frontends: every call the loop takes off its channel is answered *)
(* exactly once, and a positive answer carries what the user approved for  *)
(* that very call; and no dialog, object on the bus or frozen desktop      *)
(* outlives its request, or is gone before it.                             *)
(***************************************************************************)
EXTENDS PortalPrompts, FiniteSetTheorems, SequenceTheorems, WellFoundedInduction, TLAPS

----------------------------------------------------------------------------
(* What the state is made of *)

Shots == [call : Nat, kind : CaptureKinds, token : Nat, stage : {"consent", "capture"}]
Choosers == [call : Nat, token : Nat]
Requests == [type : Kinds, handle : Handles, caller : Nat, call : Nat]
Closes == [type : {"close"}, handle : Handles, caller : Nat, call : {0}]
Owners == [type : {"owner"}, handle : Nat]
Messages == Requests \cup Closes \cup Owners
Answers == [response : {"ok", "cancelled", "failed", "unauthorized"}, token : Nat,
            pixels : {"none", "frozen", "live"}]
Decisions == [dialog : {"prompt", "chooser"}, token : Nat, outcome : {"approved", "cancelled"}]
Outcomes == [handle : Handles, kind : CaptureKinds, token : Nat, ok : BOOLEAN,
             pixels : {"frozen", "live"}]
Tellings == [type : {"prompt", "chooser", "dismiss"}, token : Nat]
Objects == [type : {"export", "unexport"}, handle : Handles]

\* A table of the ledger: some handles have an entry.
Table(f, E) == DOMAIN f \subseteq Handles /\ \A h \in DOMAIN f : f[h] \in E

BusTypes ==
    /\ owner \in Nat /\ names \in Nat /\ live \in [Handles -> Nat]
    /\ made \in Seq([kind : Kinds, handle : Handles, caller : Nat]) /\ Len(made) <= MaxCalls
    /\ answers \in [1 .. MaxCalls -> Seq(Answers)]
    /\ watch \in Seq(Nat) /\ calls \in Seq(Messages)
    /\ bridge \in Seq(Objects) /\ served \subseteq Handles

LedgerTypes ==
    /\ stage \in {"lookup", "subscribe", "run"} /\ frontend \in Nat
    /\ Table(shots, Shots) /\ Table(choosers, Choosers)
    /\ askedBy \in Seq(Nat) /\ stash \subseteq Nat
    /\ denied \subseteq Handles /\ doubled \subseteq Handles

ShellTypes ==
    /\ toShell \in Seq(Tellings) /\ fromShell \in Seq(Decisions)
    /\ prompt \in Nat /\ chooser \in Nat /\ approved \subseteq Nat
    /\ working \subseteq Outcomes /\ outcomes \in Seq(Outcomes)

PromptTypes == BusTypes /\ LedgerTypes /\ ShellTypes

----------------------------------------------------------------------------
(* The inductive invariant of the calls and their answers *)

HeldBy(f, c) == \E h \in DOMAIN f : f[h].call = c

\* A call is with the loop's channel, with one entry of the ledger, or answered.
Account(c) ==
    /\ HeldBy(shots, c) => ~ HeldBy(choosers, c) /\ ~ Queued(c)
    /\ HeldBy(choosers, c) => ~ Queued(c)
    /\ IF HeldBy(shots, c) \/ HeldBy(choosers, c) \/ Queued(c) THEN answers[c] = <<>>
                                                               ELSE Len(answers[c]) = 1

\* No call is twice in the channel, nor held by two entries of a table.
CallsApart(q) ==
    \A i, j \in DOMAIN q :
       q[i].type \in Kinds /\ q[j].type \in Kinds /\ q[i].call = q[j].call => i = j
HeldApart(f) == \A h, k \in DOMAIN f : f[h].call = f[k].call => h = k

\* What is in the channel has been asked for.
Known(m) == m.type \in Kinds => m.call \in 1 .. Len(made) /\ made[m.call].kind = m.type

AccountsInv ==
    /\ \A c \in 1 .. MaxCalls : c > Len(made) => answers[c] = <<>>
    /\ \A c \in 1 .. Len(made) : Account(c)
    /\ CallsApart(calls) /\ HeldApart(shots) /\ HeldApart(choosers)
    /\ \A i \in DOMAIN calls : Known(calls[i])

\* An entry is that of its call, under the token that was minted for it.
ShotKnown(e) ==
    /\ e.call \in 1 .. Len(made) /\ made[e.call].kind = e.kind
    /\ e.token \in 1 .. Len(askedBy) /\ askedBy[e.token] = e.call
    /\ e.stage = "capture" => e.token \in approved
ChooserKnown(e) ==
    /\ e.call \in 1 .. Len(made) /\ made[e.call].kind = "file"
    /\ e.token \in 1 .. Len(askedBy) /\ askedBy[e.token] = e.call

EntriesInv ==
    /\ \A h \in DOMAIN shots : ShotKnown(shots[h])
    /\ \A h \in DOMAIN choosers : ChooserKnown(choosers[h])
    /\ \A i \in DOMAIN fromShell :
          fromShell[i].outcome = "approved" => fromShell[i].token \in approved

Own(c, a) ==
    a.response = "ok" =>
       /\ a.token \in approved /\ a.token \in 1 .. Len(askedBy) /\ askedBy[a.token] = c
       /\ (made[c].kind = "file") = (a.pixels = "none")

ResultsInv == \A c \in 1 .. Len(made) : \A a \in Range(answers[c]) : Own(c, a)

PromptInv == PromptTypes /\ AccountsInv /\ EntriesInv /\ ResultsInv

----------------------------------------------------------------------------
(* Channels and tables *)

LEMMA AppendIs ==
    ASSUME NEW S, NEW q \in Seq(S), NEW x \in S
    PROVE  /\ Append(q, x) \in Seq(S) /\ Len(q) \in Nat /\ Len(Append(q, x)) = Len(q) + 1
           /\ DOMAIN q = 1 .. Len(q) /\ DOMAIN Append(q, x) = 1 .. Len(q) + 1
           /\ \A i \in 1 .. Len(q) : Append(q, x)[i] = q[i]
           /\ Append(q, x)[Len(q) + 1] = x
BY AppendProperties, LenProperties

LEMMA TailIs ==
    ASSUME NEW S, NEW q \in Seq(S), q # <<>>
    PROVE  /\ Head(q) \in S /\ Tail(q) \in Seq(S) /\ Head(q) = q[1]
           /\ Len(q) \in Nat /\ Len(q) > 0 /\ Len(Tail(q)) = Len(q) - 1
           /\ DOMAIN q = 1 .. Len(q) /\ DOMAIN Tail(q) = 1 .. Len(q) - 1
           /\ \A i \in 1 .. Len(q) - 1 : Tail(q)[i] = q[i + 1]
BY HeadTailProperties, EmptySeq, LenProperties

LEMMA ElementIs ==
    ASSUME NEW S, NEW q \in Seq(S)
    PROVE  /\ Len(q) \in Nat /\ DOMAIN q = 1 .. Len(q) /\ \A i \in DOMAIN q : q[i] \in S
BY LenProperties, ElementOfSeq

LEMMA RangeOfAppend ==
    ASSUME NEW S, NEW q \in Seq(S), NEW x \in S
    PROVE  Range(Append(q, x)) = Range(q) \cup {x}
<1>1. /\ Len(q) \in Nat /\ DOMAIN q = 1 .. Len(q) /\ DOMAIN Append(q, x) = 1 .. Len(q) + 1
      /\ \A i \in 1 .. Len(q) : Append(q, x)[i] = q[i]
      /\ Append(q, x)[Len(q) + 1] = x
  BY AppendIs
<1>2. ASSUME NEW y PROVE y \in Range(Append(q, x)) <=> y \in Range(q) \cup {x}
  <2>1. ASSUME y \in Range(Append(q, x)) PROVE y \in Range(q) \cup {x}
    <3>1. PICK i \in 1 .. Len(q) + 1 : Append(q, x)[i] = y
      BY <1>1, <2>1 DEF Range
    <3>2. CASE i = Len(q) + 1
      BY <1>1, <3>1, <3>2
    <3>3. CASE i \in 1 .. Len(q)
      BY <1>1, <3>1, <3>3 DEF Range
    <3>4. QED
      BY <1>1, <3>1, <3>2, <3>3
  <2>2. ASSUME y \in Range(q) PROVE y \in Range(Append(q, x))
    <3>1. PICK i \in 1 .. Len(q) : q[i] = y
      BY <1>1, <2>2 DEF Range
    <3>2. i \in DOMAIN Append(q, x) /\ Append(q, x)[i] = y
      BY <1>1, <3>1
    <3>3. QED
      BY <3>2 DEF Range
  <2>3. x \in Range(Append(q, x))
    <3>1. Len(q) + 1 \in DOMAIN Append(q, x)
      BY <1>1
    <3>2. QED
      BY <1>1, <3>1 DEF Range
  <2>4. QED
    BY <2>1, <2>2, <2>3
<1>3. QED
  BY <1>2

LEMMA RangeOfEmpty == Range(<<>>) = {}
BY DEF Range

\* An entry is taken out of a table.
LEMMA WithoutIs ==
    ASSUME NEW f, NEW x
    PROVE  /\ DOMAIN Without(f, x) = DOMAIN f \ {x}
           /\ \A z \in DOMAIN f \ {x} : Without(f, x)[z] = f[z]
BY DEF Without, Restrict

LEMMA EmptyIs == DOMAIN Empty = {} /\ \A c : ~ HeldBy(Empty, c)
BY DEF Empty, HeldBy

LEMMA TableWithout ==
    ASSUME NEW E, NEW f, Table(f, E), NEW x
    PROVE  Table(Without(f, x), E)
<1>1. PICK g : g = Without(f, x)
  OBVIOUS
<1>2. DOMAIN g = DOMAIN f \ {x} /\ \A z \in DOMAIN f \ {x} : g[z] = f[z]
  BY <1>1, WithoutIs
<1>3. Table(g, E)
  BY <1>2 DEF Table
<1>4. QED
  BY <1>1, <1>3

LEMMA TableWith ==
    ASSUME NEW E, NEW f, Table(f, E), NEW x \in Handles, NEW y \in E
    PROVE  Table(With(f, x, y), E)
<1>1. PICK g : g = With(f, x, y)
  OBVIOUS
<1>2. DOMAIN g = DOMAIN f \cup {x} /\ g[x] = y /\ \A z \in DOMAIN f \ {x} : g[z] = f[z]
  BY <1>1 DEF With
<1>3. Table(g, E)
  BY <1>2 DEF Table
<1>4. QED
  BY <1>1, <1>3

\* The call of an entry that goes is held no more.
LEMMA HeldWithout ==
    ASSUME NEW f, HeldApart(f), NEW x \in DOMAIN f
    PROVE  /\ HeldApart(Without(f, x)) /\ HeldBy(f, f[x].call)
           /\ \A c : HeldBy(Without(f, x), c) <=> HeldBy(f, c) /\ c # f[x].call
<1>1. PICK g : g = Without(f, x)
  OBVIOUS
<1>2. DOMAIN g = DOMAIN f \ {x} /\ \A z \in DOMAIN f \ {x} : g[z] = f[z]
  BY <1>1, WithoutIs
<1>3. HeldApart(g) /\ HeldBy(f, f[x].call)
  BY <1>2 DEF HeldApart, HeldBy
<1>4. ASSUME NEW c PROVE HeldBy(g, c) <=> HeldBy(f, c) /\ c # f[x].call
  BY <1>2 DEF HeldApart, HeldBy
<1>5. QED
  BY <1>1, <1>3, <1>4

LEMMA HeldWith ==
    ASSUME NEW f, HeldApart(f), NEW x, x \notin DOMAIN f, NEW y, ~ HeldBy(f, y.call)
    PROVE  /\ HeldApart(With(f, x, y))
           /\ \A c : HeldBy(With(f, x, y), c) <=> HeldBy(f, c) \/ c = y.call
<1>1. PICK g : g = With(f, x, y)
  OBVIOUS
<1>2. DOMAIN g = DOMAIN f \cup {x} /\ g[x] = y /\ \A z \in DOMAIN f \ {x} : g[z] = f[z]
  BY <1>1 DEF With
<1>3. HeldApart(g)
  BY <1>2 DEF HeldApart, HeldBy
<1>4. ASSUME NEW c PROVE HeldBy(g, c) <=> HeldBy(f, c) \/ c = y.call
  BY <1>2 DEF HeldBy
<1>5. QED
  BY <1>1, <1>3, <1>4

\* The channel of calls, by what it holds
QueuedIn(q, c) == \E i \in DOMAIN q : q[i].type \in Kinds /\ q[i].call = c

LEMMA QueuedTail ==
    ASSUME NEW q \in Seq(Messages), q # <<>>, CallsApart(q)
    PROVE  /\ CallsApart(Tail(q))
           /\ \A c : QueuedIn(Tail(q), c)
                       <=> QueuedIn(q, c) /\ ~ (Head(q).type \in Kinds /\ Head(q).call = c)
           /\ Head(q).type \in Kinds => QueuedIn(q, Head(q).call)
           /\ \A i \in DOMAIN Tail(q) : \E j \in DOMAIN q : Tail(q)[i] = q[j]
<1>1. /\ Head(q) = q[1] /\ Len(q) \in Nat /\ Len(q) > 0
      /\ DOMAIN q = 1 .. Len(q) /\ DOMAIN Tail(q) = 1 .. Len(q) - 1
      /\ \A i \in 1 .. Len(q) - 1 : Tail(q)[i] = q[i + 1]
  BY TailIs
<1>2. \A i \in DOMAIN Tail(q) : i + 1 \in DOMAIN q /\ i + 1 # 1 /\ Tail(q)[i] = q[i + 1]
  BY <1>1
<1>3. 1 \in DOMAIN q
  BY <1>1
<1>4. CallsApart(Tail(q))
  <2>1. SUFFICES ASSUME NEW i \in DOMAIN Tail(q), NEW j \in DOMAIN Tail(q),
                        Tail(q)[i].type \in Kinds /\ Tail(q)[j].type \in Kinds
                          /\ Tail(q)[i].call = Tail(q)[j].call
                 PROVE  i = j
    BY DEF CallsApart
  <2>2. i + 1 = j + 1
    BY <1>2, <2>1 DEF CallsApart
  <2>3. QED
    BY <1>1, <2>2
<1>5. ASSUME NEW c, QueuedIn(Tail(q), c)
      PROVE  QueuedIn(q, c) /\ ~ (Head(q).type \in Kinds /\ Head(q).call = c)
  <2>1. PICK i \in DOMAIN Tail(q) : Tail(q)[i].type \in Kinds /\ Tail(q)[i].call = c
    BY <1>5 DEF QueuedIn
  <2>2. QED
    BY <1>1, <1>2, <1>3, <2>1 DEF QueuedIn, CallsApart
<1>6. ASSUME NEW c, QueuedIn(q, c), ~ (Head(q).type \in Kinds /\ Head(q).call = c)
      PROVE  QueuedIn(Tail(q), c)
  <2>1. PICK j \in DOMAIN q : q[j].type \in Kinds /\ q[j].call = c
    BY <1>6 DEF QueuedIn
  <2>2. j # 1
    BY <1>1, <1>6, <2>1
  <2>3. j - 1 \in DOMAIN Tail(q) /\ Tail(q)[j - 1] = q[(j - 1) + 1] /\ (j - 1) + 1 = j
    BY <1>1, <2>1, <2>2
  <2>4. QED
    BY <2>1, <2>3 DEF QueuedIn
<1>7. QED
  BY <1>1, <1>2, <1>3, <1>4, <1>5, <1>6 DEF QueuedIn

LEMMA QueuedAppend ==
    ASSUME NEW q \in Seq(Messages), NEW m \in Messages, CallsApart(q),
           m.type \in Kinds => ~ QueuedIn(q, m.call)
    PROVE  /\ CallsApart(Append(q, m))
           /\ \A c : QueuedIn(Append(q, m), c) <=> QueuedIn(q, c) \/ (m.type \in Kinds /\ m.call = c)
           /\ \A i \in DOMAIN Append(q, m) : Append(q, m)[i] = m \/ \E j \in DOMAIN q : Append(q, m)[i] = q[j]
<1>1. /\ Len(q) \in Nat /\ DOMAIN q = 1 .. Len(q) /\ DOMAIN Append(q, m) = 1 .. Len(q) + 1
      /\ \A i \in 1 .. Len(q) : Append(q, m)[i] = q[i]
      /\ Append(q, m)[Len(q) + 1] = m
  BY AppendIs
<1>2. \A i \in DOMAIN Append(q, m) :
         IF i \in DOMAIN q THEN Append(q, m)[i] = q[i] ELSE i = Len(q) + 1 /\ Append(q, m)[i] = m
  BY <1>1
<1>3. DOMAIN q \subseteq DOMAIN Append(q, m) /\ Len(q) + 1 \in DOMAIN Append(q, m)
  BY <1>1
<1>4. CallsApart(Append(q, m))
  BY <1>2 DEF CallsApart, QueuedIn
<1>5. ASSUME NEW c
      PROVE  QueuedIn(Append(q, m), c) <=> QueuedIn(q, c) \/ (m.type \in Kinds /\ m.call = c)
  BY <1>1, <1>2, <1>3 DEF QueuedIn
<1>6. QED
  BY <1>2, <1>4, <1>5

LEMMA QueuedIs == \A c : Queued(c) <=> QueuedIn(calls, c)
BY DEF Queued, QueuedIn

\* An answer, call by call
LEMMA AnsweredIs ==
    ASSUME PromptTypes, NEW cs, NEW a \in Answers, answers' = Answered(cs, a)
    PROVE  /\ answers' \in [1 .. MaxCalls -> Seq(Answers)]
           /\ \A c \in 1 .. MaxCalls :
                 /\ c \notin cs => answers'[c] = answers[c]
                 /\ c \in cs => /\ Len(answers'[c]) = Len(answers[c]) + 1
                                /\ Range(answers'[c]) = Range(answers[c]) \cup {a}
<1>1. answers \in [1 .. MaxCalls -> Seq(Answers)]
  BY DEF PromptTypes, BusTypes
<1>2. \A c \in 1 .. MaxCalls : /\ Append(answers[c], a) \in Seq(Answers)
                               /\ Len(Append(answers[c], a)) = Len(answers[c]) + 1
                               /\ Range(Append(answers[c], a)) = Range(answers[c]) \cup {a}
  BY <1>1, AppendIs, RangeOfAppend
<1>3. answers' = [c \in 1 .. MaxCalls |-> IF c \in cs THEN Append(answers[c], a) ELSE answers[c]]
  BY DEF Answered
<1>4. QED
  BY <1>1, <1>2, <1>3

\* No one is answered.
LEMMA AnsweredNone ==
    ASSUME PromptTypes, answers' = answers, NEW a
    PROVE  answers' = Answered({}, a)
BY DEF PromptTypes, BusTypes, Answered

----------------------------------------------------------------------------
(* Steps that answer calls, or none *)

\* The calls of cs leave the channel or the ledger for good, all others stay where they are.
EndsExactly(cs) ==
    /\ cs \cap 1 .. MaxCalls \subseteq 1 .. Len(made)
    /\ \A c \in 1 .. Len(made) \ cs :
          /\ HeldBy(shots', c) <=> HeldBy(shots, c)
          /\ HeldBy(choosers', c) <=> HeldBy(choosers, c)
          /\ QueuedIn(calls', c) <=> QueuedIn(calls, c)
    /\ \A c \in 1 .. Len(made) \cap cs :
          /\ HeldBy(shots, c) \/ HeldBy(choosers, c) \/ QueuedIn(calls, c)
          /\ ~ HeldBy(shots', c) /\ ~ HeldBy(choosers', c) /\ ~ QueuedIn(calls', c)

\* The tables and the channel hold no call twice.
ApartAfter ==
    /\ CallsApart(calls') /\ HeldApart(shots') /\ HeldApart(choosers')
    /\ \A i \in DOMAIN calls' : Known(calls'[i])

LEMMA MadeIs == ASSUME PromptTypes PROVE Len(made) \in Nat /\ 1 .. Len(made) \subseteq 1 .. MaxCalls
<1>1. Len(made) \in Nat
  BY LenProperties DEF PromptTypes, BusTypes
<1>2. Len(made) <= MaxCalls /\ MaxCalls \in Nat
  BY PromptBounds DEF PromptTypes, BusTypes
<1>3. QED
  BY <1>1, <1>2

\* The calls that leave are answered, once.
LEMMA Settles ==
    ASSUME PromptInv, made' = made, askedBy' = askedBy, approved \subseteq approved', ApartAfter,
           NEW cs, NEW a \in Answers, answers' = Answered(cs, a), EndsExactly(cs),
           \A c \in 1 .. Len(made) \cap cs : Own(c, a)'
    PROVE  AccountsInv' /\ ResultsInv'
<1>1. PromptTypes /\ AccountsInv /\ ResultsInv
  BY DEF PromptInv
<1>2. Len(made) \in Nat /\ 1 .. Len(made) \subseteq 1 .. MaxCalls
  BY <1>1, MadeIs
<1>3. /\ answers \in [1 .. MaxCalls -> Seq(Answers)]
      /\ \A c \in 1 .. MaxCalls :
            /\ c \notin cs => answers'[c] = answers[c]
            /\ c \in cs => /\ Len(answers'[c]) = Len(answers[c]) + 1
                           /\ Range(answers'[c]) = Range(answers[c]) \cup {a}
  BY <1>1, AnsweredIs DEF PromptTypes, BusTypes
<1>4. ASSUME NEW c \in 1 .. Len(made) PROVE Account(c)'
  <2>1. Account(c) /\ c \in 1 .. MaxCalls
    BY <1>1, <1>2 DEF AccountsInv
  <2>2. CASE c \in cs
    <3>1. answers[c] = <<>>
      BY <2>1, <2>2, QueuedIs DEF Account, EndsExactly
    <3>2. Len(answers'[c]) = 1
      <4>1. Len(<<>>) = 0
        OBVIOUS
      <4>2. Len(answers'[c]) = Len(answers[c]) + 1
        BY <1>3, <2>1, <2>2
      <4>3. QED
        BY <3>1, <4>1, <4>2
    <3>3. ~ HeldBy(shots', c) /\ ~ HeldBy(choosers', c) /\ ~ QueuedIn(calls', c)
      BY <2>2 DEF EndsExactly
    <3>4. QED
      BY <3>2, <3>3 DEF Account, Queued, QueuedIn
  <2>3. CASE c \notin cs
    <3>1. /\ HeldBy(shots', c) <=> HeldBy(shots, c)
          /\ HeldBy(choosers', c) <=> HeldBy(choosers, c)
          /\ QueuedIn(calls', c) <=> QueuedIn(calls, c)
          /\ answers'[c] = answers[c]
      BY <1>3, <2>1, <2>3 DEF EndsExactly
    <3>2. Queued(c)' <=> Queued(c)
      BY <3>1 DEF Queued, QueuedIn
    <3>3. QED
      BY <2>1, <3>1, <3>2 DEF Account
  <2>4. QED
    BY <2>2, <2>3
<1>5. ASSUME NEW c \in 1 .. MaxCalls, c > Len(made) PROVE answers'[c] = <<>>
  <2>1. c \notin cs
    BY <1>2, <1>5 DEF EndsExactly
  <2>2. QED
    BY <1>1, <1>3, <1>5, <2>1 DEF AccountsInv
<1>6. AccountsInv'
  BY <1>4, <1>5 DEF AccountsInv, ApartAfter, Known
<1>7. ASSUME NEW c \in 1 .. Len(made), NEW b \in Range(answers'[c]) PROVE Own(c, b)'
  <2>1. c \in 1 .. MaxCalls /\ \A d \in Range(answers[c]) : Own(c, d)
    BY <1>1, <1>2 DEF ResultsInv
  <2>2. CASE b \in Range(answers[c])
    BY <2>1, <2>2 DEF Own
  <2>3. CASE b \notin Range(answers[c])
    BY <1>3, <2>1, <2>3
  <2>4. QED
    BY <2>2, <2>3
<1>8. QED
  BY <1>6, <1>7 DEF ResultsInv

\* No call is answered.
LEMMA Unsettled ==
    ASSUME PromptInv, UNCHANGED <<made, answers, askedBy>>, approved \subseteq approved', ApartAfter,
           \A c \in 1 .. Len(made) : /\ HeldBy(shots', c) <=> HeldBy(shots, c)
                                     /\ HeldBy(choosers', c) <=> HeldBy(choosers, c)
                                     /\ QueuedIn(calls', c) <=> QueuedIn(calls, c)
    PROVE  AccountsInv' /\ ResultsInv'
<1>1. \E a : a \in Answers
  <2>1. [response |-> "ok", token |-> 0, pixels |-> "none"] \in Answers
    BY DEF Answers
  <2>2. QED
    BY <2>1
<1>2. PICK a \in Answers : TRUE
  BY <1>1
<1>3. answers' = Answered({}, a)
  BY AnsweredNone DEF PromptInv
<1>4. EndsExactly({})
  BY DEF EndsExactly
<1>5. QED
  BY <1>2, <1>3, <1>4, Settles

\* The entries that stay are those that were there.
Fewer(f, g) == DOMAIN f \subseteq DOMAIN g /\ \A h \in DOMAIN f : f[h] = g[h]

LEMMA EntriesKept ==
    ASSUME PromptInv, made' = made, askedBy' = askedBy, approved \subseteq approved',
           Fewer(shots', shots), Fewer(choosers', choosers),
           \A i \in DOMAIN fromShell' :
              fromShell'[i].outcome = "approved" => fromShell'[i].token \in approved'
    PROVE  EntriesInv'
<1>1. ASSUME NEW h \in DOMAIN shots' PROVE ShotKnown(shots[h])' 
  <2>1. ShotKnown(shots[h]) /\ shots'[h] = shots[h]
    BY <1>1 DEF PromptInv, EntriesInv, Fewer
  <2>2. QED
    BY <2>1 DEF ShotKnown
<1>2. ASSUME NEW h \in DOMAIN choosers' PROVE ChooserKnown(choosers[h])' 
  <2>1. ChooserKnown(choosers[h]) /\ choosers'[h] = choosers[h]
    BY <1>2 DEF PromptInv, EntriesInv, Fewer
  <2>2. QED
    BY <2>1 DEF ChooserKnown
<1>3. QED
  BY <1>1, <1>2 DEF EntriesInv

LEMMA FewerWithout == ASSUME NEW f, NEW x PROVE Fewer(Without(f, x), f)
<1>1. PICK g : g = Without(f, x)
  OBVIOUS
<1>2. DOMAIN g = DOMAIN f \ {x} /\ \A z \in DOMAIN f \ {x} : g[z] = f[z]
  BY <1>1, WithoutIs
<1>3. QED
  BY <1>1, <1>2 DEF Fewer

\* Neither the calls nor their answers nor the ledger are touched.
LEMMA Untouched ==
    ASSUME PromptInv, UNCHANGED <<made, answers, askedBy, shots, choosers>>,
           approved \subseteq approved',
           calls' \in Seq(Messages), CallsApart(calls'), \A i \in DOMAIN calls' : Known(calls'[i]),
           \A c : QueuedIn(calls', c) <=> QueuedIn(calls, c),
           \A i \in DOMAIN fromShell' :
              fromShell'[i].outcome = "approved" => fromShell'[i].token \in approved'
    PROVE  AccountsInv' /\ EntriesInv' /\ ResultsInv'
<1>1. Fewer(shots', shots) /\ Fewer(choosers', choosers)
  BY DEF Fewer
<1>2. ApartAfter
  BY DEF ApartAfter, PromptInv, AccountsInv
<1>3. QED
  BY <1>1, <1>2, Unsettled, EntriesKept

----------------------------------------------------------------------------
(* The frontend, the bus, the bridge, the shell and the threads *)

\* A call that is in no channel yet is not held by any entry.
LEMMA NewCall ==
    ASSUME PromptInv
    PROVE  /\ ~ HeldBy(shots, Len(made) + 1) /\ ~ HeldBy(choosers, Len(made) + 1)
           /\ ~ QueuedIn(calls, Len(made) + 1)
<1>1. Len(made) \in Nat
  BY MadeIs DEF PromptInv
<1>2. \A c \in 1 .. Len(made) : c # Len(made) + 1
  BY <1>1
<1>3. ~ HeldBy(shots, Len(made) + 1) /\ ~ HeldBy(choosers, Len(made) + 1)
  BY <1>2 DEF PromptInv, EntriesInv, ShotKnown, ChooserKnown, HeldBy
<1>4. ~ QueuedIn(calls, Len(made) + 1)
  BY <1>2 DEF PromptInv, AccountsInv, Known, QueuedIn
<1>5. QED
  BY <1>3, <1>4

LEMMA AskedTypes ==
    ASSUME PromptTypes, NEW kind \in Kinds, NEW h \in Handles, NEW refused \in BOOLEAN,
           Asked(kind, h, refused)
    PROVE  PromptTypes'
<1>1. /\ owner \in Nat /\ live \in [Handles -> Nat] /\ calls \in Seq(Messages)
      /\ made \in Seq([kind : Kinds, handle : Handles, caller : Nat]) /\ Len(made) < MaxCalls
      /\ Len(made) \in Nat /\ MaxCalls \in Nat
  BY MadeIs, PromptBounds DEF PromptTypes, BusTypes, Asked
<1>2. /\ made' \in Seq([kind : Kinds, handle : Handles, caller : Nat])
      /\ Len(made') = Len(made) + 1 /\ Len(made') <= MaxCalls
  <2>1. [kind |-> kind, handle |-> h, caller |-> owner] \in [kind : Kinds, handle : Handles, caller : Nat]
    BY <1>1
  <2>2. made' = Append(made, [kind |-> kind, handle |-> h, caller |-> owner])
    BY DEF Asked
  <2>3. QED
    BY <1>1, <2>1, <2>2, AppendIs
<1>3. Failed \in Answers
  BY DEF Failed, NoAnswer, Answers
<1>4. answers' \in [1 .. MaxCalls -> Seq(Answers)]
  <2>1. CASE refused
    <3>1. answers' = Answered({Len(made) + 1}, Failed)
      BY <2>1 DEF Asked
    <3>2. QED
      BY <1>3, <3>1, AnsweredIs
  <2>2. CASE ~ refused
    BY <2>2 DEF Asked, PromptTypes, BusTypes
  <2>3. QED
    BY <2>1, <2>2
<1>5. calls' \in Seq(Messages) /\ live' \in [Handles -> Nat]
  <2>1. CASE refused
    BY <1>1, <2>1 DEF Asked
  <2>2. CASE ~ refused
    <3> DEFINE m == [type |-> kind, handle |-> h, caller |-> owner, call |-> Len(made) + 1]
    <3>1. m \in Messages
      BY <1>1 DEF Messages, Requests
    <3>2. calls' = Append(calls, m) /\ live' = [live EXCEPT ![h] = Len(made) + 1]
      BY <2>2 DEF Asked
    <3> HIDE DEF m
    <3>3. QED
      BY <1>1, <3>1, <3>2, AppendIs
  <2>3. QED
    BY <2>1, <2>2
<1>6. UNCHANGED <<owner, names, stage, ledgerVars, served, working, shellVars, watch, bridge,
                  outcomes, toShell, fromShell, denied, doubled>>
  BY DEF Asked
<1>7. QED
  BY <1>2, <1>4, <1>5, <1>6
  DEF PromptTypes, BusTypes, LedgerTypes, ShellTypes, ledgerVars, shellVars

LEMMA AskedKeeps ==
    ASSUME PromptInv, NEW kind \in Kinds, NEW h \in Handles, NEW refused \in BOOLEAN,
           Asked(kind, h, refused)
    PROVE  PromptInv'
<1> DEFINE n == Len(made) + 1
           x == [kind |-> kind, handle |-> h, caller |-> owner]
           m == [type |-> kind, handle |-> h, caller |-> owner, call |-> n]
<1>1. PromptTypes /\ PromptTypes'
  BY AskedTypes DEF PromptInv
<1>2. /\ made' = Append(made, x)
      /\ IF refused THEN answers' = Answered({n}, Failed) /\ calls' = calls
                    ELSE answers' = answers /\ calls' = Append(calls, m)
      /\ UNCHANGED <<shots, choosers, askedBy, approved, fromShell>> /\ Len(made) < MaxCalls
  BY DEF Asked, ledgerVars, shellVars
<1>3. x \in [kind : Kinds, handle : Handles, caller : Nat] /\ m \in Messages /\ m.type = kind /\ m.call = n
  BY <1>1, MadeIs DEF PromptTypes, BusTypes, Messages, Requests
<1>4. /\ Len(made) \in Nat /\ Len(made') = n /\ made'[n] = x
      /\ \A c \in 1 .. Len(made) : made'[c] = made[c]
  BY <1>1, <1>2, <1>3, AppendIs DEF PromptTypes, BusTypes
<1>5. n \in 1 .. MaxCalls /\ n \notin 1 .. Len(made) /\ 1 .. Len(made) \subseteq 1 .. MaxCalls
  BY <1>1, <1>2, <1>4, MadeIs, PromptBounds
<1>6. Failed \in Answers /\ Failed.response # "ok"
  BY DEF Failed, NoAnswer, Answers
<1>7. ~ HeldBy(shots, n) /\ ~ HeldBy(choosers, n) /\ ~ QueuedIn(calls, n)
  BY NewCall
<1>8. x.kind = kind
  OBVIOUS
<1> HIDE DEF n, x, m
<1>9. /\ CallsApart(calls')
      /\ \A c : QueuedIn(calls', c) <=> QueuedIn(calls, c) \/ (~ refused /\ c = n)
      /\ \A i \in DOMAIN calls' : (~ refused /\ calls'[i] = m) \/ \E j \in DOMAIN calls : calls'[i] = calls[j]
  <2>1. calls \in Seq(Messages) /\ CallsApart(calls)
    BY DEF PromptInv, PromptTypes, BusTypes, AccountsInv
  <2>2. CASE refused
    BY <1>2, <2>1, <2>2
  <2>3. CASE ~ refused
    <3>1. /\ CallsApart(Append(calls, m))
          /\ \A c : QueuedIn(Append(calls, m), c) <=> QueuedIn(calls, c) \/ (m.type \in Kinds /\ m.call = c)
          /\ \A i \in DOMAIN Append(calls, m) :
                Append(calls, m)[i] = m \/ \E j \in DOMAIN calls : Append(calls, m)[i] = calls[j]
      BY <1>3, <1>7, <2>1, QueuedAppend
    <3>2. calls' = Append(calls, m) /\ m.type \in Kinds /\ m.call = n
      BY <1>2, <1>3, <2>3
    <3>3. QED
      BY <2>3, <3>1, <3>2
  <2>4. QED
    BY <2>2, <2>3
<1>10. /\ \A c \in 1 .. MaxCalls : c # n => answers'[c] = answers[c]
       /\ answers[n] = <<>>
       /\ IF refused THEN Len(answers'[n]) = 1 /\ Range(answers'[n]) = {Failed}
                     ELSE answers'[n] = <<>>
  <2>1. answers[n] = <<>>
    BY <1>4, <1>5 DEF PromptInv, AccountsInv, n
  <2>2. CASE refused
    <3>1. /\ \A c \in 1 .. MaxCalls : c \notin {n} => answers'[c] = answers[c]
          /\ Len(answers'[n]) = Len(answers[n]) + 1
          /\ Range(answers'[n]) = Range(answers[n]) \cup {Failed}
      BY <1>1, <1>2, <1>5, <1>6, <2>2, AnsweredIs
    <3>2. Len(<<>>) = 0 /\ Range(<<>>) = {}
      BY RangeOfEmpty
    <3>3. QED
      BY <2>1, <2>2, <3>1, <3>2
  <2>3. CASE ~ refused
    BY <1>2, <2>1, <2>3
  <2>4. QED
    BY <2>2, <2>3
<1>11. ASSUME NEW c \in 1 .. Len(made') PROVE Account(c)'
  <2>1. CASE c = n
    <3>1. ~ HeldBy(shots', n) /\ ~ HeldBy(choosers', n) /\ (QueuedIn(calls', n) <=> ~ refused)
      BY <1>2, <1>7, <1>9
    <3>2. QED
      BY <1>10, <2>1, <3>1 DEF Account, Queued, QueuedIn
  <2>2. CASE c # n
    <3>1. c \in 1 .. Len(made)
      BY <1>4, <2>2 DEF n
    <3>2. Account(c) /\ answers'[c] = answers[c]
      BY <1>5, <1>10, <2>2, <3>1 DEF PromptInv, AccountsInv
    <3>3. Queued(c)' <=> Queued(c)
      BY <1>9, <2>2 DEF Queued, QueuedIn
    <3>4. QED
      BY <1>2, <3>2, <3>3 DEF Account
  <2>3. QED
    BY <2>1, <2>2
<1>12. ASSUME NEW c \in 1 .. MaxCalls, c > Len(made') PROVE answers'[c] = <<>>
  <2>1. c # n /\ c > Len(made)
    BY <1>4, <1>12 DEF n
  <2>2. QED
    BY <1>10, <2>1 DEF PromptInv, AccountsInv
<1>13. ASSUME NEW i \in DOMAIN calls' PROVE Known(calls[i])'
  <2>1. CASE ~ refused /\ calls'[i] = m
    <3>1. n \in 1 .. Len(made') /\ made'[n].kind = m.type
      BY <1>3, <1>4, <1>5, <1>8
    <3>2. QED
      BY <1>3, <2>1, <3>1 DEF Known
  <2>2. CASE \E j \in DOMAIN calls : calls'[i] = calls[j]
    <3>1. PICK j \in DOMAIN calls : calls'[i] = calls[j]
      BY <2>2
    <3>2. Known(calls[j])
      BY DEF PromptInv, AccountsInv
    <3>3. 1 .. Len(made) \subseteq 1 .. Len(made')
      BY <1>4 DEF n
    <3>4. QED
      BY <1>4, <3>1, <3>2, <3>3 DEF Known
  <2>3. QED
    BY <1>9, <2>1, <2>2
<1>14. AccountsInv'
  BY <1>2, <1>9, <1>11, <1>12, <1>13 DEF PromptInv, AccountsInv
<1>15. EntriesInv'
  <2>1. 1 .. Len(made) \subseteq 1 .. Len(made')
    BY <1>4 DEF n
  <2>2. ASSUME NEW k \in DOMAIN shots PROVE ShotKnown(shots[k])'
    <3>1. ShotKnown(shots[k])
      BY DEF PromptInv, EntriesInv
    <3>2. QED
      BY <1>2, <1>4, <2>1, <3>1 DEF ShotKnown
  <2>3. ASSUME NEW k \in DOMAIN choosers PROVE ChooserKnown(choosers[k])'
    <3>1. ChooserKnown(choosers[k])
      BY DEF PromptInv, EntriesInv
    <3>2. QED
      BY <1>2, <1>4, <2>1, <3>1 DEF ChooserKnown
  <2>4. QED
    BY <1>2, <2>2, <2>3 DEF PromptInv, EntriesInv
<1>16. ASSUME NEW c \in 1 .. Len(made'), NEW a \in Range(answers'[c]) PROVE Own(c, a)'
  <2>1. CASE c = n
    <3>1. a.response # "ok"
      BY <1>6, <1>10, <1>16, <2>1, RangeOfEmpty
    <3>2. QED
      BY <3>1 DEF Own
  <2>2. CASE c # n
    <3>1. c \in 1 .. Len(made) /\ answers'[c] = answers[c]
      BY <1>4, <1>5, <1>10, <2>2 DEF n
    <3>2. Own(c, a)
      BY <1>16, <3>1 DEF PromptInv, ResultsInv
    <3>3. QED
      BY <1>2, <1>4, <3>1, <3>2 DEF Own
  <2>3. QED
    BY <2>1, <2>2
<1>17. QED
  BY <1>1, <1>14, <1>15, <1>16 DEF PromptInv, ResultsInv

LEMMA OtherCalls ==
    ASSUME PromptInv,
           calls' = calls \/ \E m \in Messages : m.type \notin Kinds /\ calls' = Append(calls, m)
    PROVE  /\ calls' \in Seq(Messages) /\ CallsApart(calls')
           /\ \A i \in DOMAIN calls' : Known(calls'[i])
           /\ \A c : QueuedIn(calls', c) <=> QueuedIn(calls, c)
<1>1. /\ calls \in Seq(Messages) /\ CallsApart(calls) /\ \A i \in DOMAIN calls : Known(calls[i])
  BY DEF PromptInv, PromptTypes, BusTypes, AccountsInv
<1>2. CASE calls' = calls
  BY <1>1, <1>2
<1>3. CASE \E m \in Messages : m.type \notin Kinds /\ calls' = Append(calls, m)
  <2>1. PICK m \in Messages : m.type \notin Kinds /\ calls' = Append(calls, m)
    BY <1>3
  <2>2. /\ CallsApart(Append(calls, m))
        /\ \A c : QueuedIn(Append(calls, m), c) <=> QueuedIn(calls, c) \/ (m.type \in Kinds /\ m.call = c)
        /\ \A i \in DOMAIN Append(calls, m) :
              Append(calls, m)[i] = m \/ \E j \in DOMAIN calls : Append(calls, m)[i] = calls[j]
    BY <1>1, <2>1, QueuedAppend
  <2>3. Append(calls, m) \in Seq(Messages)
    BY <1>1, AppendIs
  <2>4. Known(m)
    BY <2>1 DEF Known
  <2>5. QED
    BY <1>1, <2>1, <2>2, <2>3, <2>4
<1>4. QED
  BY <1>2, <1>3

LEMMA CloseIsNoCall == "close" \notin Kinds /\ "owner" \notin Kinds /\ "file" \notin CaptureKinds
BY DEF Kinds, CaptureKinds

LEMMA CloseRequestKeeps == ASSUME PromptInv, NEW h \in Handles, CloseRequest(h) PROVE PromptInv'
<1> DEFINE m == [type |-> "close", handle |-> h, caller |-> owner, call |-> 0]
<1>1. /\ live' = [live EXCEPT ![h] = 0]
      /\ calls' = calls \/ calls' = Append(calls, m)
      /\ UNCHANGED <<owner, names, made, answers, stage, ledgerVars, served, working, shellVars,
                     watch, bridge, outcomes, toShell, fromShell, denied, doubled>>
  BY DEF CloseRequest
<1>2. m \in Messages /\ m.type \notin Kinds
  BY CloseIsNoCall DEF PromptInv, PromptTypes, BusTypes, Messages, Closes
<1> HIDE DEF m
<1>3. /\ calls' \in Seq(Messages) /\ CallsApart(calls')
      /\ \A i \in DOMAIN calls' : Known(calls'[i])
      /\ \A c : QueuedIn(calls', c) <=> QueuedIn(calls, c)
  BY <1>1, <1>2, OtherCalls
<1>4. PromptTypes'
  BY <1>1, <1>3 DEF PromptInv, PromptTypes, BusTypes, LedgerTypes, ShellTypes, ledgerVars, shellVars
<1>5. /\ UNCHANGED <<made, answers, askedBy, shots, choosers>> /\ approved' = approved
      /\ fromShell' = fromShell
  BY <1>1 DEF ledgerVars, shellVars
<1>6. AccountsInv' /\ EntriesInv' /\ ResultsInv'
  <2>1. \A i \in DOMAIN fromShell' :
           fromShell'[i].outcome = "approved" => fromShell'[i].token \in approved'
    BY <1>5 DEF PromptInv, EntriesInv
  <2>2. QED
    BY <1>3, <1>5, <2>1, Untouched
<1>7. QED
  BY <1>4, <1>6 DEF PromptInv

LEMMA OwnerChangesKeeps == ASSUME PromptInv, NEW o \in 0 .. MaxOwners, OwnerChanges(o) PROVE PromptInv'
<1>1. /\ owner' = o /\ (names' = names \/ names' = o) /\ live' = [k \in Handles |-> 0]
      /\ watch' = watch \/ watch' = Append(watch, o)
      /\ UNCHANGED <<made, answers, stage, ledgerVars, served, working, shellVars,
                     calls, bridge, outcomes, toShell, fromShell, denied, doubled>>
  BY DEF OwnerChanges
<1>2. o \in Nat /\ watch \in Seq(Nat)
  BY PromptBounds DEF PromptInv, PromptTypes, BusTypes
<1>3. watch' \in Seq(Nat)
  BY <1>1, <1>2, AppendIs
<1>4. PromptTypes'
  BY <1>1, <1>2, <1>3
  DEF PromptInv, PromptTypes, BusTypes, LedgerTypes, ShellTypes, ledgerVars, shellVars
<1>5. /\ UNCHANGED <<made, answers, askedBy, shots, choosers, calls>> /\ approved' = approved
      /\ fromShell' = fromShell
  BY <1>1 DEF ledgerVars, shellVars
<1>6. AccountsInv' /\ EntriesInv' /\ ResultsInv'
  <2>1. \A i \in DOMAIN fromShell' :
           fromShell'[i].outcome = "approved" => fromShell'[i].token \in approved'
    BY <1>5 DEF PromptInv, EntriesInv
  <2>2. QED
    BY <1>5, <2>1, OtherCalls, Untouched
<1>7. QED
  BY <1>4, <1>6 DEF PromptInv

\* Steps that neither make nor end anything: the backend starts, the bridge serves an
\* object, the shell shows a dialog, a worker is done.
LEMMA ElsewhereKeeps ==
    ASSUME PromptInv, PromptTypes',
           UNCHANGED <<made, answers, askedBy, shots, choosers, calls>>,
           approved' = approved, fromShell' = fromShell
    PROVE  PromptInv'
<1>1. \A i \in DOMAIN fromShell' :
         fromShell'[i].outcome = "approved" => fromShell'[i].token \in approved'
  BY DEF PromptInv, EntriesInv
<1>2. AccountsInv' /\ EntriesInv' /\ ResultsInv'
  BY <1>1, OtherCalls, Untouched
<1>3. QED
  BY <1>2 DEF PromptInv

LEMMA StartsKeep == ASSUME PromptInv, Lookup \/ Subscribe PROVE PromptInv'
<1>1. PromptTypes'
  BY DEF Lookup, Subscribe, PromptInv, PromptTypes, BusTypes, LedgerTypes, ShellTypes, busVars,
         ledgerVars, shellVars, channelVars
<1>2. /\ UNCHANGED <<made, answers, askedBy, shots, choosers, calls>> /\ approved' = approved
      /\ fromShell' = fromShell
  BY DEF Lookup, Subscribe, busVars, ledgerVars, shellVars, channelVars
<1>3. QED
  BY <1>1, <1>2, ElsewhereKeeps

LEMMA ForwardOwnerKeeps == ASSUME PromptInv, ForwardOwner PROVE PromptInv'
<1> DEFINE m == [type |-> "owner", handle |-> Head(watch)]
<1>1. /\ watch # <<>> /\ watch' = Tail(watch) /\ calls' = Append(calls, m)
      /\ UNCHANGED <<busVars, answers, stage, ledgerVars, served, working, shellVars,
                     bridge, outcomes, toShell, fromShell, denied, doubled>>
  BY DEF ForwardOwner
<1>2. watch \in Seq(Nat)
  BY DEF PromptInv, PromptTypes, BusTypes
<1>3. Head(watch) \in Nat /\ watch' \in Seq(Nat)
  BY <1>1, <1>2, TailIs
<1>4. m \in Messages /\ m.type \notin Kinds
  BY <1>3, CloseIsNoCall DEF Messages, Owners
<1> HIDE DEF m
<1>5. /\ calls' \in Seq(Messages) /\ CallsApart(calls')
      /\ \A i \in DOMAIN calls' : Known(calls'[i])
      /\ \A c : QueuedIn(calls', c) <=> QueuedIn(calls, c)
  BY <1>1, <1>4, OtherCalls
<1>6. PromptTypes'
  BY <1>1, <1>3, <1>5
  DEF PromptInv, PromptTypes, BusTypes, LedgerTypes, ShellTypes, busVars, ledgerVars, shellVars
<1>7. /\ UNCHANGED <<made, answers, askedBy, shots, choosers>> /\ approved' = approved
      /\ fromShell' = fromShell
  BY <1>1 DEF busVars, ledgerVars, shellVars
<1>8. AccountsInv' /\ EntriesInv' /\ ResultsInv'
  <2>1. \A i \in DOMAIN fromShell' :
           fromShell'[i].outcome = "approved" => fromShell'[i].token \in approved'
    BY <1>7 DEF PromptInv, EntriesInv
  <2>2. QED
    BY <1>5, <1>7, <2>1, Untouched
<1>9. QED
  BY <1>6, <1>8 DEF PromptInv

LEMMA BridgeKeeps == ASSUME PromptInv, PerformBridgeAction PROVE PromptInv'
<1>1. /\ bridge # <<>> /\ bridge' = Tail(bridge)
      /\ served' = served \cup {Head(bridge).handle} \/ served' = served \ {Head(bridge).handle}
      /\ UNCHANGED <<busVars, answers, stage, ledgerVars, working, shellVars,
                     watch, calls, outcomes, toShell, fromShell, denied, doubled>>
  BY DEF PerformBridgeAction
<1>2. bridge \in Seq(Objects) /\ served \subseteq Handles
  BY DEF PromptInv, PromptTypes, BusTypes
<1>3. bridge' \in Seq(Objects) /\ Head(bridge) \in Objects
  BY <1>1, <1>2, TailIs
<1>4. served' \subseteq Handles
  BY <1>1, <1>2, <1>3 DEF Objects
<1>5. PromptTypes'
  BY <1>1, <1>3, <1>4
  DEF PromptInv, PromptTypes, BusTypes, LedgerTypes, ShellTypes, busVars, ledgerVars, shellVars
<1>6. /\ UNCHANGED <<made, answers, askedBy, shots, choosers, calls>> /\ approved' = approved
      /\ fromShell' = fromShell
  BY <1>1 DEF busVars, ledgerVars, shellVars
<1>7. QED
  BY <1>5, <1>6, ElsewhereKeeps

LEMMA ShellHearsKeeps == ASSUME PromptInv, ShellHears PROVE PromptInv'
<1>1. /\ toShell # <<>> /\ toShell' = Tail(toShell)
      /\ prompt' = ScreenshotPrompt(Head(toShell)) /\ chooser' = FileChooserRequest(Head(toShell))
      /\ UNCHANGED <<busVars, answers, stage, ledgerVars, served, working, approved,
                     watch, calls, bridge, outcomes, fromShell, denied, doubled>>
  BY DEF ShellHears
<1>2. toShell \in Seq(Tellings) /\ prompt \in Nat /\ chooser \in Nat
  BY DEF PromptInv, PromptTypes, ShellTypes
<1>3. toShell' \in Seq(Tellings) /\ Head(toShell) \in Tellings
  BY <1>1, <1>2, TailIs
<1>4. prompt' \in Nat /\ chooser' \in Nat
  BY <1>1, <1>2, <1>3 DEF ScreenshotPrompt, FileChooserRequest, Tellings
<1>5. PromptTypes'
  BY <1>1, <1>3, <1>4
  DEF PromptInv, PromptTypes, BusTypes, LedgerTypes, ShellTypes, busVars, ledgerVars
<1>6. UNCHANGED <<made, answers, askedBy, shots, choosers, calls>> /\ approved' = approved
      /\ fromShell' = fromShell
  BY <1>1 DEF busVars, ledgerVars
<1>7. QED
  BY <1>5, <1>6, ElsewhereKeeps

LEMMA EncodeKeeps == ASSUME PromptInv, NEW w \in working, NEW ok \in BOOLEAN, Encode(w, ok) PROVE PromptInv'
<1>1. /\ working' = working \ {w} /\ outcomes' = Append(outcomes, [w EXCEPT !.ok = ok])
      /\ UNCHANGED <<busVars, answers, stage, ledgerVars, served, shellVars,
                     watch, calls, bridge, toShell, fromShell, denied, doubled>>
  BY DEF Encode
<1>2. working \subseteq Outcomes /\ outcomes \in Seq(Outcomes)
  BY DEF PromptInv, PromptTypes, ShellTypes
<1>3. [w EXCEPT !.ok = ok] \in Outcomes
  BY <1>2 DEF Outcomes
<1>4. outcomes' \in Seq(Outcomes) /\ working' \subseteq Outcomes
  BY <1>1, <1>2, <1>3, AppendIs
<1>5. PromptTypes'
  BY <1>1, <1>4
  DEF PromptInv, PromptTypes, BusTypes, LedgerTypes, ShellTypes, busVars, ledgerVars, shellVars
<1>6. /\ UNCHANGED <<made, answers, askedBy, shots, choosers, calls>> /\ approved' = approved
      /\ fromShell' = fromShell
  BY <1>1 DEF busVars, ledgerVars, shellVars
<1>7. QED
  BY <1>5, <1>6, ElsewhereKeeps

\* The user decides: what was approved is what the decision names.
LEMMA ToldKeeps ==
    ASSUME PromptInv, NEW dialog \in {"prompt", "chooser"}, NEW token \in Nat,
           NEW outcome \in {"approved", "cancelled"}, Told(dialog, token, outcome),
           prompt' \in Nat, chooser' \in Nat
    PROVE  PromptInv'
<1> DEFINE d == [dialog |-> dialog, token |-> token, outcome |-> outcome]
<1>1. /\ fromShell' = Append(fromShell, d)
      /\ approved' = IF outcome = "approved" THEN approved \cup {token} ELSE approved
      /\ UNCHANGED <<busVars, answers, stage, ledgerVars, served, working,
                     watch, calls, bridge, outcomes, toShell, denied, doubled>>
  BY DEF Told
<1>2. fromShell \in Seq(Decisions) /\ approved \subseteq Nat
  BY DEF PromptInv, PromptTypes, ShellTypes
<1>3. d \in Decisions /\ d.outcome = outcome /\ d.token = token
  BY DEF Decisions
<1> HIDE DEF d
<1>4. /\ fromShell' \in Seq(Decisions) /\ Len(fromShell) \in Nat
      /\ DOMAIN fromShell = 1 .. Len(fromShell) /\ DOMAIN fromShell' = 1 .. Len(fromShell) + 1
      /\ \A i \in 1 .. Len(fromShell) : fromShell'[i] = fromShell[i]
      /\ fromShell'[Len(fromShell) + 1] = d
  BY <1>1, <1>2, <1>3, AppendIs
<1>5. PromptTypes'
  BY <1>1, <1>2, <1>4
  DEF PromptInv, PromptTypes, BusTypes, LedgerTypes, ShellTypes, busVars, ledgerVars
<1>6. ASSUME NEW i \in DOMAIN fromShell', fromShell'[i].outcome = "approved"
      PROVE  fromShell'[i].token \in approved'
  <2>1. CASE i \in 1 .. Len(fromShell)
    BY <1>1, <1>4, <1>6, <2>1 DEF PromptInv, EntriesInv
  <2>2. CASE i = Len(fromShell) + 1
    BY <1>1, <1>3, <1>4, <1>6, <2>2
  <2>3. QED
    BY <1>4, <2>1, <2>2
<1>7. /\ UNCHANGED <<made, answers, askedBy, shots, choosers, calls>> /\ approved \subseteq approved'
  BY <1>1 DEF busVars, ledgerVars
<1>8. AccountsInv' /\ EntriesInv' /\ ResultsInv'
  BY <1>6, <1>7, OtherCalls, Untouched
<1>9. QED
  BY <1>5, <1>8 DEF PromptInv

LEMMA DecideKeeps ==
    ASSUME PromptInv, NEW outcome \in {"approved", "cancelled"},
           DecidePrompt(outcome) \/ DecideChooser(outcome)
    PROVE  PromptInv'
<1>1. prompt \in Nat /\ chooser \in Nat
  BY DEF PromptInv, PromptTypes, ShellTypes
<1>2. prompt' \in Nat /\ chooser' \in Nat
  BY <1>1 DEF DecidePrompt, DecideChooser
<1>3. Told("prompt", prompt, outcome) \/ Told("chooser", chooser, outcome)
  BY DEF DecidePrompt, DecideChooser
<1>4. QED
  BY <1>1, <1>2, <1>3, ToldKeeps

----------------------------------------------------------------------------
(* The loop takes a call off its channel *)

\* A set told one by one
LEMMA SetAsSeq ==
    ASSUME NEW S, IsFiniteSet(S)
    PROVE  /\ SetToSeq(S) \in Seq(S)
           /\ \A x \in S : \E i \in DOMAIN SetToSeq(S) : SetToSeq(S)[i] = x
<1> DEFINE N == Cardinality(S)
<1>1. PICK n \in Nat : ExistsBijection(1 .. n, S)
  BY FS_NatBijection
<1>2. N = n /\ N \in Nat
  BY <1>1, FS_CountingElements
<1>3. \E f \in [1 .. N -> S] : IsInjective(f)
  BY <1>1, <1>2 DEF ExistsBijection, Bijection, Injection
<1>4. SetToSeq(S) \in [1 .. N -> S] /\ IsInjective(SetToSeq(S))
  BY <1>3 DEF SetToSeq
<1>5. SetToSeq(S) \in Injection(1 .. N, S)
  BY <1>4 DEF Injection
<1>6. Cardinality(1 .. N) = N
  <2>1. N \in Int /\ 1 \in Int
    BY <1>2
  <2>2. Cardinality(1 .. N) = IF 1 > N THEN 0 ELSE N - 1 + 1
    BY <2>1, FS_Interval
  <2>3. QED
    BY <1>2, <2>2
<1>7. SetToSeq(S) \in Surjection(1 .. N, S)
  BY <1>5, <1>6, FS_Injection
<1>8. SetToSeq(S) \in Seq(S)
  BY <1>2, <1>4
<1>9. QED
  BY <1>4, <1>7, <1>8 DEF Surjection

\* The objects of a set of handles are taken off the bus, dialogs are dismissed, one by one.
LEMMA UnexportsAre ==
    ASSUME NEW hs, hs \subseteq Handles,
           NEW q, q = [i \in 1 .. Len(SetToSeq(hs)) |-> Object("unexport", SetToSeq(hs)[i])]
    PROVE  /\ q \in Seq(Objects)
           /\ \A i \in DOMAIN q : \E h \in hs : q[i] = Object("unexport", h)
           /\ \A h \in hs : \E i \in DOMAIN q : q[i] = Object("unexport", h)
<1> DEFINE s == SetToSeq(hs)
<1>1. IsFiniteSet(hs)
  BY PromptFinite, FS_Subset
<1>2. s \in Seq(hs) /\ \A h \in hs : \E i \in DOMAIN s : s[i] = h
  BY <1>1, SetAsSeq
<1>3. Len(s) \in Nat /\ DOMAIN s = 1 .. Len(s) /\ \A i \in DOMAIN s : s[i] \in hs
  BY <1>2, ElementIs
<1>4. q = [i \in 1 .. Len(s) |-> Object("unexport", s[i])]
  OBVIOUS
<1> HIDE DEF s
<1>5. \A h \in hs : Object("unexport", h) \in Objects
  BY DEF Object, Objects
<1>6. q \in Seq(Objects)
  BY <1>3, <1>4, <1>5
<1>7. QED
  BY <1>2, <1>3, <1>4, <1>6

LEMMA DismissalsAre ==
    ASSUME NEW ts, ts \subseteq Nat, IsFiniteSet(ts),
           NEW q, q = [i \in 1 .. Len(SetToSeq(ts)) |-> Shell("dismiss", SetToSeq(ts)[i])]
    PROVE  /\ q \in Seq(Tellings)
           /\ \A i \in DOMAIN q : \E t \in ts : q[i] = Shell("dismiss", t)
           /\ \A t \in ts : \E i \in DOMAIN q : q[i] = Shell("dismiss", t)
<1> DEFINE s == SetToSeq(ts)
<1>2. s \in Seq(ts) /\ \A h \in ts : \E i \in DOMAIN s : s[i] = h
  BY SetAsSeq
<1>3. Len(s) \in Nat /\ DOMAIN s = 1 .. Len(s) /\ \A i \in DOMAIN s : s[i] \in ts
  BY <1>2, ElementIs
<1>4. q = [i \in 1 .. Len(s) |-> Shell("dismiss", s[i])]
  OBVIOUS
<1> HIDE DEF s
<1>5. \A t \in ts : Shell("dismiss", t) \in Tellings
  BY DEF Shell, Tellings
<1>6. DOMAIN q = 1 .. Len(s) /\ \A i \in 1 .. Len(s) : q[i] = Shell("dismiss", s[i])
  BY <1>4, Zenon
<1>7. q = [i \in 1 .. Len(s) |-> q[i]]
  BY <1>4, <1>6, Zenon
<1>8. \A i \in 1 .. Len(s) : q[i] \in Tellings
  BY <1>3, <1>5, <1>6, Zenon
<1>9. q \in [1 .. Len(s) -> Tellings]
  BY <1>7, <1>8, Zenon
<1>10. q \in Seq(Tellings)
  BY <1>3, <1>9
<1>11. QED
  BY <1>2, <1>3, <1>6, <1>10, Zenon

\* The tokens of some entries are finitely many.
LEMMA FiniteTokens ==
    ASSUME NEW f, NEW hs, hs \subseteq Handles
    PROVE  IsFiniteSet({f[h].token : h \in hs})
<1> DEFINE T == {f[h].token : h \in hs}
<1>1. [h \in hs |-> f[h].token] \in Surjection(hs, T)
  BY DEF Surjection
<1>2. IsFiniteSet(hs)
  BY PromptFinite, FS_Subset
<1>3. QED
  BY <1>1, <1>2, FS_Surjection

\* One message is gone from the channel, and what the bridge and the shell are told is added.
TakenOff ==
    /\ calls # <<>> /\ Head(calls) \in Messages /\ calls' \in Seq(Messages) /\ CallsApart(calls')
    /\ \A i \in DOMAIN calls' : Known(calls'[i])
    /\ \A c : QueuedIn(calls', c)
                <=> QueuedIn(calls, c) /\ ~ (Head(calls).type \in Kinds /\ Head(calls).call = c)
    /\ Known(Head(calls)) /\ (Head(calls).type \in Kinds => QueuedIn(calls, Head(calls).call))
    /\ bridge' \in Seq(Objects) /\ toShell' \in Seq(Tellings)
    /\ UNCHANGED <<busVars, stage, served, working, shellVars, watch, outcomes, fromShell>>

LEMMA TakenIs ==
    ASSUME PromptInv, NEW actions \in Seq(Objects), NEW ui \in Seq(Tellings), Taken(actions, ui)
    PROVE  TakenOff
<1>1. /\ calls # <<>> /\ calls' = Tail(calls) /\ bridge' = bridge \o actions
      /\ toShell' = toShell \o ui
      /\ UNCHANGED <<busVars, stage, served, working, shellVars, watch, outcomes, fromShell>>
  BY DEF Taken
<1>2. /\ calls \in Seq(Messages) /\ bridge \in Seq(Objects) /\ toShell \in Seq(Tellings)
      /\ CallsApart(calls) /\ \A i \in DOMAIN calls : Known(calls[i])
  BY DEF PromptInv, PromptTypes, BusTypes, ShellTypes, AccountsInv
<1>3. bridge' \in Seq(Objects) /\ toShell' \in Seq(Tellings)
  BY <1>1, <1>2, ConcatProperties
<1>4. /\ Head(calls) \in Messages /\ Tail(calls) \in Seq(Messages) /\ Head(calls) = calls[1]
      /\ 1 \in DOMAIN calls
  BY <1>1, <1>2, TailIs
<1>5. /\ CallsApart(Tail(calls))
      /\ \A c : QueuedIn(Tail(calls), c)
                  <=> QueuedIn(calls, c) /\ ~ (Head(calls).type \in Kinds /\ Head(calls).call = c)
      /\ Head(calls).type \in Kinds => QueuedIn(calls, Head(calls).call)
      /\ \A i \in DOMAIN Tail(calls) : \E j \in DOMAIN calls : Tail(calls)[i] = calls[j]
  BY <1>1, <1>2, QueuedTail
<1>6. \A i \in DOMAIN calls' : Known(calls'[i])
  BY <1>1, <1>2, <1>5
<1>7. Known(Head(calls))
  BY <1>2, <1>4
<1>8. QED
  BY <1>1, <1>3, <1>4, <1>5, <1>6, <1>7 DEF TakenOff

LEMMA SmallSeqs ==
    /\ <<>> \in Seq(Objects) /\ <<>> \in Seq(Tellings)
    /\ \A h \in Handles : <<Object("export", h)>> \in Seq(Objects) /\ <<Object("unexport", h)>> \in Seq(Objects)
    /\ \A t \in Nat : /\ <<Shell("prompt", t)>> \in Seq(Tellings)
                      /\ <<Shell("chooser", t)>> \in Seq(Tellings)
                      /\ <<Shell("dismiss", t)>> \in Seq(Tellings)
<1>1. <<>> \in Seq(Objects) /\ <<>> \in Seq(Tellings)
  BY EmptySeq
<1>2. \A h \in Handles : Object("export", h) \in Objects /\ Object("unexport", h) \in Objects
  BY DEF Object, Objects
<1>3. \A t \in Nat : /\ Shell("prompt", t) \in Tellings /\ Shell("chooser", t) \in Tellings
                     /\ Shell("dismiss", t) \in Tellings
  BY DEF Shell, Tellings
<1>4. QED
  BY <1>1, <1>2, <1>3

LEMMA TakenTypes ==
    ASSUME PromptTypes, TakenOff, answers' \in [1 .. MaxCalls -> Seq(Answers)],
           frontend' \in Nat, Table(shots', Shots), Table(choosers', Choosers),
           askedBy' \in Seq(Nat), stash' \subseteq Nat, denied' \subseteq Handles, doubled' \subseteq Handles
    PROVE  PromptTypes'
BY DEF TakenOff, PromptTypes, BusTypes, LedgerTypes, ShellTypes, busVars, shellVars, Table

LEMMA AnswersAre ==
    /\ Cancelled \in Answers /\ Failed \in Answers
    /\ [NoAnswer EXCEPT !.response = "unauthorized"] \in Answers
    /\ Cancelled.response # "ok" /\ Failed.response # "ok"
    /\ [NoAnswer EXCEPT !.response = "unauthorized"].response # "ok"
BY DEF Cancelled, Failed, NoAnswer, Answers

LEMMA NotOwn == ASSUME NEW c, NEW a, a.response # "ok" PROVE Own(c, a)'
BY DEF Own

LEMMA TakenEntries ==
    ASSUME PromptInv, TakenOff, askedBy' = askedBy, Fewer(shots', shots), Fewer(choosers', choosers)
    PROVE  EntriesInv'
<1>1. made' = made /\ approved' = approved /\ fromShell' = fromShell
  BY DEF TakenOff, busVars, shellVars
<1>2. \A i \in DOMAIN fromShell' :
         fromShell'[i].outcome = "approved" => fromShell'[i].token \in approved'
  BY <1>1 DEF PromptInv, EntriesInv
<1>3. QED
  BY <1>1, <1>2, EntriesKept

LEMMA ReconciledIs == ASSUME PromptTypes, NEW s PROVE Reconciled(s) \subseteq Nat
BY DEF Reconciled, PromptTypes, LedgerTypes

\* Nothing is done for the call but to answer it, and a close has no reply.
LEMMA RefusedKeeps ==
    ASSUME PromptInv, TakenOff, Head(calls).type \in Kinds \cup {"close"},
           NEW a \in Answers, a.response # "ok", answers' = Answered({Head(calls).call}, a),
           UNCHANGED <<frontend, shots, choosers, askedBy, denied, doubled>>, stash' = Reconciled(shots)
    PROVE  PromptInv'
<1> DEFINE c0 == Head(calls).call
<1>1. PromptTypes /\ Len(made) \in Nat /\ 1 .. Len(made) \subseteq 1 .. MaxCalls
  BY MadeIs DEF PromptInv
<1>2. PromptTypes'
  <2>1. answers' \in [1 .. MaxCalls -> Seq(Answers)]
    BY <1>1, AnsweredIs
  <2>2. /\ frontend' \in Nat /\ Table(shots', Shots) /\ Table(choosers', Choosers)
        /\ askedBy' \in Seq(Nat) /\ denied' \subseteq Handles /\ doubled' \subseteq Handles
    BY <1>1 DEF PromptTypes, LedgerTypes
  <2>3. QED
    BY <1>1, <2>1, <2>2, ReconciledIs, TakenTypes
<1>3. Head(calls).type \notin Kinds => c0 = 0
  <2>1. Head(calls) \in Messages
    BY DEF TakenOff
  <2>2. QED
    BY <2>1 DEF Messages, Requests, Closes, Owners
<1>4. Head(calls).type \in Kinds => c0 \in 1 .. Len(made) /\ QueuedIn(calls, c0)
  BY DEF TakenOff, Known
<1> HIDE DEF c0
<1>5. EndsExactly({c0})
  <2>1. \A c : QueuedIn(calls', c) <=> QueuedIn(calls, c) /\ ~ (Head(calls).type \in Kinds /\ c0 = c)
    BY DEF TakenOff, c0
  <2>2. CASE Head(calls).type \in Kinds
    <3>1. ~ HeldBy(shots, c0) /\ ~ HeldBy(choosers, c0)
      BY <1>1, <1>4, <2>2, QueuedIs DEF PromptInv, AccountsInv, Account
    <3>2. QED
      BY <1>1, <1>4, <2>1, <2>2, <3>1 DEF EndsExactly
  <2>3. CASE Head(calls).type \notin Kinds
    <3>1. c0 = 0 /\ 0 \notin 1 .. Len(made) /\ 0 \notin 1 .. MaxCalls
      BY <1>3, <2>3
    <3>2. QED
      BY <2>1, <2>3, <3>1 DEF EndsExactly
  <2>4. QED
    BY <2>2, <2>3
<1>6. ApartAfter
  BY DEF ApartAfter, TakenOff, PromptInv, AccountsInv
<1>7. made' = made /\ approved' = approved /\ answers' = Answered({c0}, a)
  BY DEF TakenOff, busVars, shellVars, c0
<1>8. AccountsInv' /\ ResultsInv'
  <2>1. \A c \in 1 .. Len(made) \cap {c0} : Own(c, a)'
    BY NotOwn
  <2>2. QED
    BY <1>5, <1>6, <1>7, <2>1, Settles
<1>9. EntriesInv'
  <2>1. Fewer(shots', shots) /\ Fewer(choosers', choosers)
    BY DEF Fewer
  <2>2. QED
    BY <2>1, TakenEntries
<1>10. QED
  BY <1>2, <1>8, <1>9 DEF PromptInv

LEMMA UnauthorizedKeeps == ASSUME PromptInv, Unauthorized PROVE PromptInv'
<1>1. TakenOff
  BY TakenIs, SmallSeqs DEF Unauthorized
<1>2. Head(calls).type \in Kinds \cup {"close"}
  BY DEF Unauthorized, CallIs
<1>3. QED
  BY <1>1, <1>2, AnswersAre, RefusedKeeps DEF Unauthorized

LEMMA DuplicateKeeps == ASSUME PromptInv, Duplicate PROVE PromptInv'
<1>1. TakenOff
  BY TakenIs, SmallSeqs DEF Duplicate
<1>2. Head(calls).type \in Kinds \cup {"close"}
  BY DEF Duplicate, CallIs
<1>3. QED
  BY <1>1, <1>2, AnswersAre, RefusedKeeps DEF Duplicate

----------------------------------------------------------------------------
(* An entry leaves the ledger, its call answered *)

QueueKept ==
    /\ calls' \in Seq(Messages) /\ CallsApart(calls') /\ \A i \in DOMAIN calls' : Known(calls'[i])
    /\ \A c : QueuedIn(calls', c) <=> QueuedIn(calls, c)

LEMMA TakenKeepsQueue == ASSUME TakenOff, Head(calls).type \notin Kinds PROVE QueueKept
BY DEF TakenOff, QueueKept

LEMMA SameQueue == ASSUME PromptInv, calls' = calls, UNCHANGED made PROVE QueueKept
BY OtherCalls DEF QueueKept

LEMMA ShotEnds ==
    ASSUME PromptInv, QueueKept, NEW h \in DOMAIN shots, shots' = Without(shots, h),
           UNCHANGED <<made, askedBy, choosers, approved>>,
           NEW a \in Answers, answers' = Answered({shots[h].call}, a),
           NEW c0, c0 = shots[h].call, Own(c0, a)'
    PROVE  AccountsInv' /\ ResultsInv' /\ Fewer(shots', shots) /\ Table(shots', Shots)
<1>1. PromptTypes /\ AccountsInv /\ EntriesInv /\ HeldApart(shots) /\ HeldApart(choosers)
      /\ Table(shots, Shots) /\ Len(made) \in Nat /\ 1 .. Len(made) \subseteq 1 .. MaxCalls
  BY MadeIs DEF PromptInv, PromptTypes, LedgerTypes, AccountsInv
<1>2. /\ HeldApart(shots') /\ HeldBy(shots, shots[h].call)
      /\ \A c : HeldBy(shots', c) <=> HeldBy(shots, c) /\ c # shots[h].call
  BY <1>1, HeldWithout
<1>3. shots[h].call \in 1 .. Len(made)
  BY <1>1 DEF EntriesInv, ShotKnown
<1>4. c0 = shots[h].call
  OBVIOUS
<1>5. ~ HeldBy(choosers, c0) /\ ~ QueuedIn(calls, c0)
  BY <1>1, <1>2, <1>3, <1>4, QueuedIs DEF AccountsInv, Account
<1>6. EndsExactly({c0})
  BY <1>1, <1>2, <1>3, <1>4, <1>5 DEF EndsExactly, QueueKept
<1>7. ApartAfter
  BY <1>1, <1>2 DEF ApartAfter, QueueKept
<1>8. Fewer(shots', shots) /\ Table(shots', Shots)
  BY <1>1, FewerWithout, TableWithout
<1>9. AccountsInv' /\ ResultsInv'
  <2>1. ASSUME NEW c \in 1 .. Len(made) \cap {c0} PROVE Own(c, a)'
    <3>1. c = c0
      OBVIOUS
    <3>2. QED
      BY <3>1
  <2>2. answers' = Answered({c0}, a) /\ approved \subseteq approved'
    BY <1>4
  <2>3. QED
    BY <1>6, <1>7, <2>1, <2>2, Settles
<1>10. QED
  BY <1>8, <1>9

LEMMA ChooserEnds ==
    ASSUME PromptInv, QueueKept, NEW h \in DOMAIN choosers, choosers' = Without(choosers, h),
           UNCHANGED <<made, askedBy, shots, approved>>,
           NEW a \in Answers, answers' = Answered({choosers[h].call}, a),
           NEW c0, c0 = choosers[h].call, Own(c0, a)'
    PROVE  AccountsInv' /\ ResultsInv' /\ Fewer(choosers', choosers) /\ Table(choosers', Choosers)
<1>1. PromptTypes /\ AccountsInv /\ EntriesInv /\ HeldApart(shots) /\ HeldApart(choosers)
      /\ Table(choosers, Choosers) /\ Len(made) \in Nat /\ 1 .. Len(made) \subseteq 1 .. MaxCalls
  BY MadeIs DEF PromptInv, PromptTypes, LedgerTypes, AccountsInv
<1>2. /\ HeldApart(choosers') /\ HeldBy(choosers, choosers[h].call)
      /\ \A c : HeldBy(choosers', c) <=> HeldBy(choosers, c) /\ c # choosers[h].call
  BY <1>1, HeldWithout
<1>3. choosers[h].call \in 1 .. Len(made)
  BY <1>1 DEF EntriesInv, ChooserKnown
<1>4. c0 = choosers[h].call
  OBVIOUS
<1>5. ~ HeldBy(shots, c0) /\ ~ QueuedIn(calls, c0)
  BY <1>1, <1>2, <1>3, <1>4, QueuedIs DEF AccountsInv, Account
<1>6. EndsExactly({c0})
  BY <1>1, <1>2, <1>3, <1>4, <1>5 DEF EndsExactly, QueueKept
<1>7. ApartAfter
  BY <1>1, <1>2 DEF ApartAfter, QueueKept
<1>8. Fewer(choosers', choosers) /\ Table(choosers', Choosers)
  BY <1>1, FewerWithout, TableWithout
<1>9. AccountsInv' /\ ResultsInv'
  <2>1. ASSUME NEW c \in 1 .. Len(made) \cap {c0} PROVE Own(c, a)'
    <3>1. c = c0
      OBVIOUS
    <3>2. QED
      BY <3>1
  <2>2. answers' = Answered({c0}, a) /\ approved \subseteq approved'
    BY <1>4
  <2>3. QED
    BY <1>6, <1>7, <2>1, <2>2, Settles
<1>10. QED
  BY <1>8, <1>9

\* A close ends the entry it finds; one that finds none changes nothing.
LEMMA CloseScreenshotKeeps == ASSUME PromptInv, CloseScreenshot PROVE PromptInv'
<1>1. PICK h : h = Head(calls).handle
  OBVIOUS
<1>2. /\ CallIs({"close"}) /\ h \in DOMAIN shots
      /\ Taken(<<Object("unexport", h)>>,
               IF shots[h].stage = "consent" THEN <<Shell("dismiss", shots[h].token)>> ELSE <<>>)
      /\ answers' = Answered({shots[h].call}, Cancelled)
      /\ shots' = Without(shots, h) /\ stash' = Reconciled(shots')
      /\ UNCHANGED <<frontend, choosers, askedBy, denied, doubled>>
  BY <1>1 DEF CloseScreenshot
<1>3. PromptTypes /\ h \in Handles /\ shots[h].token \in Nat
  BY <1>2 DEF PromptInv, PromptTypes, LedgerTypes, Table, Shots
<1>4. TakenOff
  <2>1. (IF shots[h].stage = "consent" THEN <<Shell("dismiss", shots[h].token)>> ELSE <<>>) \in Seq(Tellings)
    BY <1>3, SmallSeqs
  <2>2. QED
    BY <1>2, <1>3, <2>1, SmallSeqs, TakenIs
<1>5. QueueKept
  BY <1>2, <1>4, TakenKeepsQueue DEF CallIs, Kinds, CaptureKinds
<1>6. UNCHANGED <<made, askedBy, choosers, approved>>
  BY <1>2, <1>4 DEF TakenOff, busVars, shellVars
<1>7. AccountsInv' /\ ResultsInv' /\ Fewer(shots', shots) /\ Table(shots', Shots)
  BY <1>2, <1>5, <1>6, AnswersAre, NotOwn, ShotEnds
<1>8. PromptTypes'
  <2>1. answers' \in [1 .. MaxCalls -> Seq(Answers)]
    BY <1>2, <1>3, AnswersAre, AnsweredIs
  <2>2. /\ frontend' \in Nat /\ Table(choosers', Choosers)
        /\ askedBy' \in Seq(Nat) /\ denied' \subseteq Handles /\ doubled' \subseteq Handles
    BY <1>2, <1>3 DEF PromptTypes, LedgerTypes
  <2>3. QED
    BY <1>2, <1>3, <1>4, <1>7, <2>1, <2>2, ReconciledIs, TakenTypes
<1>9. EntriesInv'
  <2>1. Fewer(choosers', choosers)
    BY <1>2 DEF Fewer
  <2>2. QED
    BY <1>2, <1>4, <1>7, <2>1, TakenEntries
<1>10. QED
  BY <1>7, <1>8, <1>9 DEF PromptInv

LEMMA CloseFileChooserKeeps == ASSUME PromptInv, CloseFileChooser PROVE PromptInv'
<1>1. PICK h : h = Head(calls).handle
  OBVIOUS
<1>2. /\ CallIs({"close"}) /\ h \in DOMAIN choosers
      /\ Taken(<<Object("unexport", h)>>, <<Shell("dismiss", choosers[h].token)>>)
      /\ answers' = Answered({choosers[h].call}, Cancelled)
      /\ choosers' = Without(choosers, h) /\ stash' = Reconciled(shots)
      /\ UNCHANGED <<frontend, shots, askedBy, denied, doubled>>
  BY <1>1 DEF CloseFileChooser
<1>3. PromptTypes /\ h \in Handles /\ choosers[h].token \in Nat
  BY <1>2 DEF PromptInv, PromptTypes, LedgerTypes, Table, Choosers
<1>4. TakenOff
  BY <1>2, <1>3, SmallSeqs, TakenIs
<1>5. QueueKept
  BY <1>2, <1>4, TakenKeepsQueue DEF CallIs, Kinds, CaptureKinds
<1>6. UNCHANGED <<made, askedBy, shots, approved>>
  BY <1>2, <1>4 DEF TakenOff, busVars, shellVars
<1>7. AccountsInv' /\ ResultsInv' /\ Fewer(choosers', choosers) /\ Table(choosers', Choosers)
  BY <1>2, <1>5, <1>6, AnswersAre, NotOwn, ChooserEnds
<1>8. PromptTypes'
  <2>1. answers' \in [1 .. MaxCalls -> Seq(Answers)]
    BY <1>2, <1>3, AnswersAre, AnsweredIs
  <2>2. /\ frontend' \in Nat /\ Table(shots', Shots)
        /\ askedBy' \in Seq(Nat) /\ denied' \subseteq Handles /\ doubled' \subseteq Handles
    BY <1>2, <1>3 DEF PromptTypes, LedgerTypes
  <2>3. QED
    BY <1>2, <1>3, <1>4, <1>7, <2>1, <2>2, ReconciledIs, TakenTypes
<1>9. EntriesInv'
  <2>1. Fewer(shots', shots)
    BY <1>2 DEF Fewer
  <2>2. QED
    BY <1>2, <1>4, <1>7, <2>1, TakenEntries
<1>10. QED
  BY <1>7, <1>8, <1>9 DEF PromptInv

\* The ledger stays as it is.
LEMMA IdleTaken ==
    ASSUME PromptInv, TakenOff, Head(calls).type \notin Kinds, frontend' \in Nat,
           UNCHANGED <<answers, shots, choosers, askedBy, denied, doubled>>, stash' = Reconciled(shots)
    PROVE  PromptInv'
<1>1. PromptTypes
  BY DEF PromptInv
<1>2. QueueKept
  BY TakenKeepsQueue
<1>3. UNCHANGED <<made, approved, fromShell>>
  BY DEF TakenOff, busVars, shellVars
<1>4. AccountsInv' /\ EntriesInv' /\ ResultsInv'
  BY <1>2, <1>3, Untouched DEF QueueKept, PromptInv, EntriesInv
<1>5. PromptTypes'
  <2>1. /\ answers' \in [1 .. MaxCalls -> Seq(Answers)]
        /\ Table(shots', Shots) /\ Table(choosers', Choosers)
        /\ askedBy' \in Seq(Nat) /\ denied' \subseteq Handles /\ doubled' \subseteq Handles
    BY <1>1 DEF PromptTypes, BusTypes, LedgerTypes
  <2>2. QED
    BY <1>1, <2>1, ReconciledIs, TakenTypes
<1>6. QED
  BY <1>4, <1>5 DEF PromptInv

LEMMA CloseNothingKeeps == ASSUME PromptInv, CloseNothing PROVE PromptInv'
<1>1. TakenOff
  BY TakenIs, SmallSeqs DEF CloseNothing
<1>2. Head(calls).type \notin Kinds
  BY DEF CloseNothing, CallIs, Kinds, CaptureKinds
<1>3. frontend' \in Nat
  BY DEF CloseNothing, PromptInv, PromptTypes, LedgerTypes
<1>4. QED
  BY <1>1, <1>2, <1>3, IdleTaken DEF CloseNothing

----------------------------------------------------------------------------
(* A request is opened, or all of them end *)

\* A new token is minted: the entries and the answers that name others are as true as before.
LEMMA Minted ==
    ASSUME PromptInv, made' = made, approved' = approved, NEW c0 \in Nat, askedBy' = Append(askedBy, c0)
    PROVE  /\ askedBy' \in Seq(Nat) /\ Len(askedBy) + 1 \in 1 .. Len(askedBy') /\ Len(askedBy) + 1 \in Nat
           /\ askedBy'[Len(askedBy) + 1] = c0
           /\ \A e : ShotKnown(e) => ShotKnown(e)'
           /\ \A e : ChooserKnown(e) => ChooserKnown(e)'
           /\ \A c, a : Own(c, a) => Own(c, a)'
<1>1. askedBy \in Seq(Nat)
  BY DEF PromptInv, PromptTypes, LedgerTypes
<1>2. /\ askedBy' \in Seq(Nat) /\ Len(askedBy) \in Nat /\ Len(askedBy') = Len(askedBy) + 1
      /\ \A i \in 1 .. Len(askedBy) : askedBy'[i] = askedBy[i]
      /\ askedBy'[Len(askedBy) + 1] = c0
  BY <1>1, AppendIs
<1>3. 1 .. Len(askedBy) \subseteq 1 .. Len(askedBy')
  BY <1>2
<1>4. \A e : ShotKnown(e) => ShotKnown(e)'
  BY <1>2, <1>3 DEF ShotKnown
<1>5. \A e : ChooserKnown(e) => ChooserKnown(e)'
  BY <1>2, <1>3 DEF ChooserKnown
<1>6. \A c, a : Own(c, a) => Own(c, a)'
  BY <1>2, <1>3 DEF Own
<1>7. QED
  BY <1>2, <1>4, <1>5, <1>6

\* The call at the head moves into one of the tables.
Moves(c0) ==
    /\ c0 \in 1 .. Len(made)
    /\ ~ HeldBy(shots, c0) /\ ~ HeldBy(choosers, c0) /\ QueuedIn(calls, c0) /\ ~ QueuedIn(calls', c0)
    /\ \/ /\ HeldBy(shots', c0)
          /\ \A c : HeldBy(choosers', c) <=> HeldBy(choosers, c)
          /\ \A c : c # c0 => (HeldBy(shots', c) <=> HeldBy(shots, c))
       \/ /\ HeldBy(choosers', c0)
          /\ \A c : HeldBy(shots', c) <=> HeldBy(shots, c)
          /\ \A c : c # c0 => (HeldBy(choosers', c) <=> HeldBy(choosers, c))
    /\ \A c : c # c0 => (QueuedIn(calls', c) <=> QueuedIn(calls, c))

LEMMA MovesKeeps ==
    ASSUME PromptInv, made' = made, approved' = approved, answers' = answers, ApartAfter,
           NEW c0 \in Nat, askedBy' = Append(askedBy, c0), Moves(c0)
    PROVE  AccountsInv' /\ ResultsInv'
<1>1. AccountsInv /\ ResultsInv
  BY DEF PromptInv
<1>2. ASSUME NEW c \in 1 .. Len(made) PROVE Account(c)'
  <2>1. Account(c)
    BY <1>1 DEF AccountsInv
  <2>2. CASE c = c0
    <3>1. answers[c] = <<>>
      BY <2>1, <2>2, QueuedIs DEF Account, Moves
    <3>2. Queued(c)' <=> QueuedIn(calls', c)
      BY DEF Queued, QueuedIn
    <3>3. ~ Queued(c)' /\ (HeldBy(shots', c) \/ HeldBy(choosers', c)) /\ ~ (HeldBy(shots', c) /\ HeldBy(choosers', c))
      BY <2>2, <3>2 DEF Moves
    <3>4. QED
      BY <3>1, <3>3 DEF Account
  <2>3. CASE c # c0
    <3>1. /\ HeldBy(shots', c) <=> HeldBy(shots, c)
          /\ HeldBy(choosers', c) <=> HeldBy(choosers, c)
          /\ QueuedIn(calls', c) <=> QueuedIn(calls, c)
      BY <2>3 DEF Moves
    <3>2. Queued(c)' <=> Queued(c)
      BY <3>1 DEF Queued, QueuedIn
    <3>3. QED
      BY <2>1, <3>1, <3>2 DEF Account
  <2>4. QED
    BY <2>2, <2>3
<1>3. AccountsInv'
  BY <1>1, <1>2 DEF AccountsInv, ApartAfter, Known
<1>4. ASSUME NEW c \in 1 .. Len(made), NEW a \in Range(answers[c]) PROVE Own(c, a)'
  BY <1>1, Minted DEF ResultsInv
<1>5. QED
  BY <1>3, <1>4 DEF ResultsInv

\* The call at the head of the channel is no one's yet.
LEMMA HeadIs ==
    ASSUME PromptInv, TakenOff, Head(calls).type \in Kinds
    PROVE  LET c0 == Head(calls).call
           IN  /\ c0 \in 1 .. Len(made) /\ c0 \in Nat /\ made[c0].kind = Head(calls).type
               /\ Head(calls).handle \in Handles
               /\ ~ HeldBy(shots, c0) /\ ~ HeldBy(choosers, c0)
               /\ QueuedIn(calls, c0) /\ ~ QueuedIn(calls', c0)
               /\ \A c : c # c0 => (QueuedIn(calls', c) <=> QueuedIn(calls, c))
<1>1. PICK e : e = Head(calls)
  OBVIOUS
<1>2. /\ e \in Messages /\ e.type \in Kinds /\ Known(e) /\ QueuedIn(calls, e.call)
      /\ \A c : QueuedIn(calls', c) <=> QueuedIn(calls, c) /\ ~ (e.type \in Kinds /\ e.call = c)
  BY <1>1 DEF TakenOff
<1>3. e.call \in 1 .. Len(made) /\ made[e.call].kind = e.type
  BY <1>2 DEF Known
<1>4. e.handle \in Handles /\ e.call \in Nat
  BY <1>2 DEF Messages, Requests, Closes, Owners, Kinds, CaptureKinds
<1>5. ~ HeldBy(shots, e.call) /\ ~ HeldBy(choosers, e.call)
  BY <1>2, <1>3, QueuedIs DEF PromptInv, AccountsInv, Account
<1>6. QED
  BY <1>1, <1>2, <1>3, <1>4, <1>5

LEMMA StashedIs ==
    ASSUME PromptTypes, NEW s, NEW token \in Nat PROVE Stashed(Reconciled(s), token) \subseteq Nat
<1>1. Reconciled(s) \subseteq Nat
  BY ReconciledIs
<1>2. QED
  BY <1>1 DEF Stashed

LEMMA OpenScreenshotKeeps ==
    ASSUME PromptInv, NEW frozen \in BOOLEAN, OpenScreenshot(frozen) PROVE PromptInv'
<1>1. PICK e : e = Head(calls)
  OBVIOUS
<1>2. PICK token : token = Len(askedBy) + 1
  OBVIOUS
<1>3. PICK x : x = [call |-> e.call, kind |-> e.type, token |-> token, stage |-> "consent"]
  OBVIOUS
<1>4. /\ CallIs(CaptureKinds) /\ ~ RequestExists(e.type, e.handle)
      /\ Taken(<<Object("export", e.handle)>>, <<Shell("prompt", token)>>)
      /\ askedBy' = Append(askedBy, e.call)
      /\ shots' = With(shots, e.handle, x)
      /\ stash' = IF frozen THEN Stashed(Reconciled(shots'), token) ELSE Reconciled(shots')
      /\ denied' = denied \ {e.handle}
      /\ doubled' = doubled \cup ({e.handle} \cap DOMAIN choosers)
      /\ UNCHANGED <<answers, frontend, choosers>>
  BY <1>1, <1>2, <1>3 DEF OpenScreenshot
<1>5. e.type \in CaptureKinds /\ e.type \in Kinds /\ e.handle \notin DOMAIN shots
  BY <1>1, <1>4 DEF CallIs, RequestExists, Kinds, CaptureKinds
<1>6. PromptTypes /\ EntriesInv /\ HeldApart(shots) /\ HeldApart(choosers) /\ token \in Nat
  BY <1>2, ElementIs DEF PromptInv, PromptTypes, LedgerTypes, AccountsInv
<1>7. e.handle \in Handles
  BY <1>1, <1>4, <1>5, <1>6, TailIs
  DEF Taken, PromptTypes, BusTypes, Messages, Requests, Closes, Owners, Kinds, CaptureKinds
<1>8. TakenOff
  BY <1>4, <1>6, <1>7, SmallSeqs, TakenIs
<1>9. /\ e.call \in 1 .. Len(made) /\ e.call \in Nat /\ made[e.call].kind = e.type
      /\ ~ HeldBy(shots, e.call) /\ ~ HeldBy(choosers, e.call)
      /\ QueuedIn(calls, e.call) /\ ~ QueuedIn(calls', e.call)
      /\ \A c : c # e.call => (QueuedIn(calls', c) <=> QueuedIn(calls, c))
  BY <1>1, <1>5, <1>8, HeadIs
<1>10. /\ x \in Shots /\ x.call = e.call /\ x.kind = e.type /\ x.token = token /\ x.stage = "consent"
  BY <1>3, <1>5, <1>6, <1>9 DEF Shots
<1>11. made' = made /\ approved' = approved /\ fromShell' = fromShell
  BY <1>8 DEF TakenOff, busVars, shellVars
<1>12. PICK c0 \in Nat : c0 = e.call
  BY <1>9
<1>13. /\ askedBy' \in Seq(Nat) /\ token \in 1 .. Len(askedBy') /\ askedBy'[token] = c0
       /\ \A y : ShotKnown(y) => ShotKnown(y)'
       /\ \A y : ChooserKnown(y) => ChooserKnown(y)'
  BY <1>2, <1>4, <1>11, <1>12, Minted
<1>14. /\ HeldApart(shots') /\ \A c : HeldBy(shots', c) <=> HeldBy(shots, c) \/ c = c0
  BY <1>4, <1>5, <1>6, <1>9, <1>10, <1>12, HeldWith
<1>15. /\ DOMAIN shots' = DOMAIN shots \cup {e.handle} /\ shots'[e.handle] = x
       /\ \A h \in DOMAIN shots \ {e.handle} : shots'[h] = shots[h]
  <2>1. PICK g : g = With(shots, e.handle, x)
    OBVIOUS
  <2>2. DOMAIN g = DOMAIN shots \cup {e.handle} /\ g[e.handle] = x
        /\ \A h \in DOMAIN shots \ {e.handle} : g[h] = shots[h]
    BY <2>1 DEF With
  <2>3. QED
    BY <1>4, <2>1, <2>2
<1>16. Moves(c0)
  BY <1>4, <1>9, <1>12, <1>14 DEF Moves
<1>17. ApartAfter
  BY <1>4, <1>6, <1>8, <1>14 DEF ApartAfter, TakenOff
<1>18. AccountsInv' /\ ResultsInv'
  BY <1>4, <1>11, <1>12, <1>16, <1>17, MovesKeeps
<1>19. EntriesInv'
  <2>1. ShotKnown(x)'
    BY <1>9, <1>10, <1>11, <1>12, <1>13 DEF ShotKnown
  <2>2. ASSUME NEW h \in DOMAIN shots' PROVE ShotKnown(shots[h])'
    <3>1. CASE h = e.handle
      BY <1>15, <2>1, <3>1
    <3>2. CASE h # e.handle
      <4>1. PICK y : y = shots[h]
        OBVIOUS
      <4>2. ShotKnown(y)
        BY <1>6, <1>15, <2>2, <3>2, <4>1 DEF EntriesInv
      <4>3. ShotKnown(y)' /\ shots'[h] = y
        BY <1>13, <1>15, <2>2, <3>2, <4>1, <4>2
      <4>4. QED
        BY <4>3
    <3>3. QED
      BY <3>1, <3>2
  <2>3. ASSUME NEW h \in DOMAIN choosers' PROVE ChooserKnown(choosers[h])'
    <3>1. PICK y : y = choosers[h]
      OBVIOUS
    <3>2. ChooserKnown(y) /\ choosers'[h] = y
      BY <1>4, <1>6, <2>3, <3>1 DEF EntriesInv
    <3>3. QED
      BY <1>13, <3>2
  <2>4. QED
    BY <1>6, <1>11, <2>2, <2>3 DEF EntriesInv
<1>20. PromptTypes'
  <2>1. Table(shots', Shots)
    BY <1>4, <1>6, <1>7, <1>10, TableWith DEF PromptTypes, LedgerTypes
  <2>2. stash' \subseteq Nat
    BY <1>4, <1>6, ReconciledIs, StashedIs
  <2>3. /\ answers' \in [1 .. MaxCalls -> Seq(Answers)] /\ frontend' \in Nat
        /\ Table(choosers', Choosers)
        /\ denied' \subseteq Handles /\ doubled' \subseteq Handles
    BY <1>4, <1>6, <1>7 DEF PromptTypes, BusTypes, LedgerTypes
  <2>4. QED
    BY <1>6, <1>8, <1>13, <2>1, <2>2, <2>3, TakenTypes
<1>21. QED
  BY <1>18, <1>19, <1>20 DEF PromptInv

LEMMA OpenFileChooserKeeps == ASSUME PromptInv, OpenFileChooser PROVE PromptInv'
<1>1. PICK e : e = Head(calls)
  OBVIOUS
<1>2. PICK token : token = Len(askedBy) + 1
  OBVIOUS
<1>3. PICK x : x = [call |-> e.call, token |-> token]
  OBVIOUS
<1>4. /\ CallIs({"file"}) /\ ~ RequestExists("file", e.handle)
      /\ Taken(<<Object("export", e.handle)>>, <<Shell("chooser", token)>>)
      /\ askedBy' = Append(askedBy, e.call)
      /\ choosers' = With(choosers, e.handle, x)
      /\ stash' = Reconciled(shots)
      /\ denied' = denied \ {e.handle}
      /\ doubled' = doubled \cup ({e.handle} \cap DOMAIN shots)
      /\ UNCHANGED <<answers, frontend, shots>>
  BY <1>1, <1>2, <1>3 DEF OpenFileChooser
<1>5. e.type = "file" /\ e.type \in Kinds /\ e.handle \notin DOMAIN choosers
  BY <1>1, <1>4 DEF CallIs, RequestExists, Kinds
<1>6. PromptTypes /\ EntriesInv /\ HeldApart(shots) /\ HeldApart(choosers) /\ token \in Nat
  BY <1>2, ElementIs DEF PromptInv, PromptTypes, LedgerTypes, AccountsInv
<1>7. e.handle \in Handles
  BY <1>1, <1>4, <1>5, <1>6, TailIs
  DEF Taken, PromptTypes, BusTypes, Messages, Requests, Closes, Owners, Kinds, CaptureKinds
<1>8. TakenOff
  BY <1>4, <1>6, <1>7, SmallSeqs, TakenIs
<1>9. /\ e.call \in 1 .. Len(made) /\ e.call \in Nat /\ made[e.call].kind = e.type
      /\ ~ HeldBy(shots, e.call) /\ ~ HeldBy(choosers, e.call)
      /\ QueuedIn(calls, e.call) /\ ~ QueuedIn(calls', e.call)
      /\ \A c : c # e.call => (QueuedIn(calls', c) <=> QueuedIn(calls, c))
  BY <1>1, <1>5, <1>8, HeadIs
<1>10. x \in Choosers /\ x.call = e.call /\ x.token = token
  BY <1>3, <1>6, <1>9 DEF Choosers
<1>11. made' = made /\ approved' = approved /\ fromShell' = fromShell
  BY <1>8 DEF TakenOff, busVars, shellVars
<1>12. PICK c0 \in Nat : c0 = e.call
  BY <1>9
<1>13. /\ askedBy' \in Seq(Nat) /\ token \in 1 .. Len(askedBy') /\ askedBy'[token] = c0
       /\ \A y : ShotKnown(y) => ShotKnown(y)'
       /\ \A y : ChooserKnown(y) => ChooserKnown(y)'
  BY <1>2, <1>4, <1>11, <1>12, Minted
<1>14. /\ HeldApart(choosers') /\ \A c : HeldBy(choosers', c) <=> HeldBy(choosers, c) \/ c = c0
  BY <1>4, <1>5, <1>6, <1>9, <1>10, <1>12, HeldWith
<1>15. /\ DOMAIN choosers' = DOMAIN choosers \cup {e.handle} /\ choosers'[e.handle] = x
       /\ \A h \in DOMAIN choosers \ {e.handle} : choosers'[h] = choosers[h]
  <2>1. PICK g : g = With(choosers, e.handle, x)
    OBVIOUS
  <2>2. DOMAIN g = DOMAIN choosers \cup {e.handle} /\ g[e.handle] = x
        /\ \A h \in DOMAIN choosers \ {e.handle} : g[h] = choosers[h]
    BY <2>1 DEF With
  <2>3. QED
    BY <1>4, <2>1, <2>2
<1>16. Moves(c0)
  BY <1>4, <1>9, <1>12, <1>14 DEF Moves
<1>17. ApartAfter
  BY <1>4, <1>6, <1>8, <1>14 DEF ApartAfter, TakenOff
<1>18. AccountsInv' /\ ResultsInv'
  BY <1>4, <1>11, <1>12, <1>16, <1>17, MovesKeeps
<1>19. EntriesInv'
  <2>1. ChooserKnown(x)'
    BY <1>5, <1>9, <1>10, <1>11, <1>12, <1>13 DEF ChooserKnown
  <2>2. ASSUME NEW h \in DOMAIN choosers' PROVE ChooserKnown(choosers[h])'
    <3>1. CASE h = e.handle
      BY <1>15, <2>1, <3>1
    <3>2. CASE h # e.handle
      <4>1. PICK y : y = choosers[h]
        OBVIOUS
      <4>2. ChooserKnown(y)
        BY <1>6, <1>15, <2>2, <3>2, <4>1 DEF EntriesInv
      <4>3. ChooserKnown(y)' /\ choosers'[h] = y
        BY <1>13, <1>15, <2>2, <3>2, <4>1, <4>2
      <4>4. QED
        BY <4>3
    <3>3. QED
      BY <3>1, <3>2
  <2>3. ASSUME NEW h \in DOMAIN shots' PROVE ShotKnown(shots[h])'
    <3>1. PICK y : y = shots[h]
      OBVIOUS
    <3>2. ShotKnown(y) /\ shots'[h] = y
      BY <1>4, <1>6, <2>3, <3>1 DEF EntriesInv
    <3>3. QED
      BY <1>13, <3>2
  <2>4. QED
    BY <1>6, <1>11, <2>2, <2>3 DEF EntriesInv
<1>20. PromptTypes'
  <2>1. Table(choosers', Choosers)
    BY <1>4, <1>6, <1>7, <1>10, TableWith DEF PromptTypes, LedgerTypes
  <2>2. stash' \subseteq Nat
    BY <1>4, <1>6, ReconciledIs
  <2>3. /\ answers' \in [1 .. MaxCalls -> Seq(Answers)] /\ frontend' \in Nat
        /\ Table(shots', Shots)
        /\ denied' \subseteq Handles /\ doubled' \subseteq Handles
    BY <1>4, <1>6, <1>7 DEF PromptTypes, BusTypes, LedgerTypes
  <2>4. QED
    BY <1>6, <1>8, <1>13, <2>1, <2>2, <2>3, TakenTypes
<1>21. QED
  BY <1>18, <1>19, <1>20 DEF PromptInv

\* The loss of the frontend ends every request; hearing of the same one again ends none.
LEMMA FrontendOwnerChangedKeeps == ASSUME PromptInv, FrontendOwnerChanged PROVE PromptInv'
<1> DEFINE o == Head(calls).handle
           dismissed == {shots[h].token : h \in Waiting(shots)} \cup {choosers[h].token : h \in DOMAIN choosers}
           ended == {shots[h].call : h \in DOMAIN shots} \cup {choosers[h].call : h \in DOMAIN choosers}
<1>1. PromptTypes /\ AccountsInv /\ EntriesInv /\ Len(made) \in Nat /\ 1 .. Len(made) \subseteq 1 .. MaxCalls
  BY MadeIs DEF PromptInv
<1>2. CallIs({"owner"}) /\ frontend' = o /\ stash' = Reconciled(shots')
      /\ UNCHANGED <<askedBy, denied, doubled>>
  BY DEF FrontendOwnerChanged
<1>3. calls # <<>> /\ Head(calls).type = "owner" /\ Head(calls).type \notin Kinds
  BY <1>2 DEF CallIs, Kinds, CaptureKinds
<1>4. o \in Nat
  <2>1. Head(calls) \in Messages
    BY <1>1, <1>3, TailIs DEF PromptTypes, BusTypes
  <2>2. QED
    BY <1>3, <2>1 DEF Messages, Requests, Closes, Owners, Kinds, CaptureKinds
<1>5. CASE frontend # 0 /\ o = frontend
  <2>1. Taken(<<>>, <<>>) /\ UNCHANGED <<answers, shots, choosers>>
    BY <1>5 DEF FrontendOwnerChanged
  <2>2. TakenOff
    BY <2>1, TakenIs, SmallSeqs
  <2>3. stash' = Reconciled(shots)
    BY <1>2, <2>1 DEF Reconciled, Tokens
  <2>4. QED
    BY <1>2, <1>3, <1>4, <2>1, <2>2, <2>3, IdleTaken
<1>6. CASE ~ (frontend # 0 /\ o = frontend)
  <2>1. PICK actions, ui :
           /\ actions = Each(DOMAIN shots, LAMBDA h : Object("unexport", h))
                          \o Each(DOMAIN choosers, LAMBDA h : Object("unexport", h))
           /\ ui = Each(dismissed, LAMBDA t : Shell("dismiss", t))
           /\ Taken(actions, ui)
    BY <1>6 DEF FrontendOwnerChanged
  <2>2. answers' = Answered(ended, Cancelled) /\ shots' = Empty /\ choosers' = Empty
    BY <1>6 DEF FrontendOwnerChanged
  <2>3. actions \in Seq(Objects)
    <3>1. DOMAIN shots \subseteq Handles /\ DOMAIN choosers \subseteq Handles
      BY <1>1 DEF PromptTypes, LedgerTypes, Table
    <3>2. PICK q : q = Each(DOMAIN shots, LAMBDA h : Object("unexport", h))
      OBVIOUS
    <3>3. PICK r : r = Each(DOMAIN choosers, LAMBDA h : Object("unexport", h))
      OBVIOUS
    <3>4. q = [i \in 1 .. Len(SetToSeq(DOMAIN shots)) |-> Object("unexport", SetToSeq(DOMAIN shots)[i])]
      BY <3>2 DEF Each
    <3>5. r = [i \in 1 .. Len(SetToSeq(DOMAIN choosers)) |-> Object("unexport", SetToSeq(DOMAIN choosers)[i])]
      BY <3>3 DEF Each
    <3>6. q \in Seq(Objects) /\ r \in Seq(Objects)
      BY <3>1, <3>4, <3>5, UnexportsAre
    <3>7. actions = q \o r
      BY <2>1, <3>2, <3>3
    <3>8. QED
      BY <3>6, <3>7, ConcatProperties
  <2>4. ui \in Seq(Tellings)
    <3>1. Waiting(shots) \subseteq Handles /\ DOMAIN choosers \subseteq Handles
      BY <1>1 DEF PromptTypes, LedgerTypes, Table, Waiting
    <3>2. IsFiniteSet(dismissed)
      BY <3>1, FiniteTokens, FS_Union
    <3>3. dismissed \subseteq Nat
      BY <1>1 DEF PromptTypes, LedgerTypes, Table, Waiting, Shots, Choosers
    <3> HIDE DEF dismissed
    <3>4. ui = [i \in 1 .. Len(SetToSeq(dismissed)) |-> Shell("dismiss", SetToSeq(dismissed)[i])]
      BY <2>1 DEF Each
    <3>5. QED
      BY <3>2, <3>3, <3>4, DismissalsAre
  <2>5. TakenOff
    BY <2>1, <2>3, <2>4, TakenIs
  <2>6. QueueKept
    BY <1>3, <2>5, TakenKeepsQueue
  <2>7. \A c : ~ HeldBy(shots', c) /\ ~ HeldBy(choosers', c)
    BY <2>2, EmptyIs
  <2>8. \A c : c \in ended <=> HeldBy(shots, c) \/ HeldBy(choosers, c)
    BY DEF HeldBy
  <2>9. ended \subseteq 1 .. Len(made)
    BY <1>1 DEF EntriesInv, ShotKnown, ChooserKnown
  <2> HIDE DEF ended, dismissed
  <2>10. EndsExactly(ended)
    <3>1. \A c \in 1 .. Len(made) : HeldBy(shots, c) \/ HeldBy(choosers, c) => ~ QueuedIn(calls, c)
      BY <1>1, QueuedIs DEF AccountsInv, Account
    <3>2. QED
      BY <2>6, <2>7, <2>8, <2>9, <3>1 DEF EndsExactly, QueueKept
  <2>11. ApartAfter
    <3>1. HeldApart(Empty)
      BY EmptyIs DEF HeldApart
    <3>2. QED
      BY <2>2, <2>6, <3>1 DEF ApartAfter, QueueKept
  <2>12. made' = made /\ approved' = approved
    BY <2>5 DEF TakenOff, busVars, shellVars
  <2>13. AccountsInv' /\ ResultsInv'
    <3>1. \A c \in 1 .. Len(made) \cap ended : Own(c, Cancelled)'
      BY AnswersAre, NotOwn DEF Own, Cancelled, NoAnswer
    <3>2. QED
      BY <1>2, <2>2, <2>10, <2>11, <2>12, <3>1, AnswersAre, Settles
  <2>14. EntriesInv'
    <3>1. Fewer(shots', shots) /\ Fewer(choosers', choosers)
      BY <2>2, EmptyIs DEF Fewer
    <3>2. QED
      BY <1>2, <2>5, <3>1, TakenEntries
  <2>15. PromptTypes'
    <3>1. Table(shots', Shots) /\ Table(choosers', Choosers)
      BY <2>2, EmptyIs DEF Table
    <3>2. answers' \in [1 .. MaxCalls -> Seq(Answers)]
      BY <1>1, <2>2, AnswersAre, AnsweredIs
    <3>3. stash' \subseteq Nat
      BY <1>1, <1>2 DEF Reconciled, PromptTypes, LedgerTypes
    <3>4. /\ frontend' \in Nat /\ askedBy' \in Seq(Nat) /\ denied' \subseteq Handles /\ doubled' \subseteq Handles
      BY <1>1, <1>2, <1>4 DEF PromptTypes, LedgerTypes
    <3>5. QED
      BY <1>1, <2>5, <3>1, <3>2, <3>3, <3>4, TakenTypes
  <2>16. QED
    BY <2>13, <2>14, <2>15 DEF PromptInv
<1>7. QED
  BY <1>5, <1>6

LEMMA HandlePortalCallKeeps == ASSUME PromptInv, HandlePortalCall PROVE PromptInv'
BY FrontendOwnerChangedKeeps, UnauthorizedKeeps, DuplicateKeeps, OpenScreenshotKeeps, OpenFileChooserKeeps,
   CloseScreenshotKeeps, CloseFileChooserKeeps, CloseNothingKeeps
DEF HandlePortalCall

----------------------------------------------------------------------------
(* The loop takes a decision, or the outcome of a capture *)

LEMMA DecisionIs ==
    ASSUME PromptInv, fromShell # <<>>, DecisionTaken
    PROVE  /\ Head(fromShell) \in Decisions /\ fromShell' \in Seq(Decisions)
           /\ Head(fromShell).outcome = "approved" => Head(fromShell).token \in approved
           /\ \A i \in DOMAIN fromShell' :
                 fromShell'[i].outcome = "approved" => fromShell'[i].token \in approved'
           /\ UNCHANGED <<busVars, stage, frontend, askedBy, served, shellVars, watch, calls, toShell>>
           /\ QueueKept
<1>1. fromShell \in Seq(Decisions)
  BY DEF PromptInv, PromptTypes, ShellTypes
<1>2. /\ fromShell' = Tail(fromShell)
      /\ UNCHANGED <<busVars, stage, frontend, askedBy, served, shellVars, watch, calls, toShell>>
  BY DEF DecisionTaken
<1>3. made' = made /\ approved' = approved /\ calls' = calls
  BY <1>2 DEF busVars, shellVars
<1>4. /\ Head(fromShell) \in Decisions /\ Tail(fromShell) \in Seq(Decisions)
      /\ Head(fromShell) = fromShell[1] /\ Len(fromShell) \in Nat /\ Len(fromShell) > 0
      /\ DOMAIN fromShell = 1 .. Len(fromShell) /\ DOMAIN Tail(fromShell) = 1 .. Len(fromShell) - 1
      /\ \A i \in 1 .. Len(fromShell) - 1 : Tail(fromShell)[i] = fromShell[i + 1]
  BY <1>1, TailIs
<1>5. \A i \in DOMAIN fromShell : fromShell[i].outcome = "approved" => fromShell[i].token \in approved
  BY DEF PromptInv, EntriesInv
<1>6. 1 \in DOMAIN fromShell /\ \A i \in 1 .. Len(fromShell) - 1 : i + 1 \in DOMAIN fromShell
  BY <1>4
<1>7. \A i \in DOMAIN fromShell' :
         fromShell'[i].outcome = "approved" => fromShell'[i].token \in approved'
  BY <1>2, <1>3, <1>4, <1>5, <1>6
<1>8. QED
  BY <1>2, <1>3, <1>4, <1>5, <1>6, <1>7, SameQueue

LEMMA ElseTypes ==
    ASSUME PromptTypes, UNCHANGED <<busVars, stage, frontend, askedBy, served, shellVars, watch, calls, toShell>>,
           answers' \in [1 .. MaxCalls -> Seq(Answers)], Table(shots', Shots), Table(choosers', Choosers),
           stash' \subseteq Nat, fromShell' \in Seq(Decisions), bridge' \in Seq(Objects),
           working' \subseteq Outcomes, outcomes' \in Seq(Outcomes), denied' \subseteq Handles, doubled' \subseteq Handles
    PROVE  PromptTypes'
BY DEF PromptTypes, BusTypes, LedgerTypes, ShellTypes, busVars, shellVars, Table

LEMMA StaleDecisionKeeps == ASSUME PromptInv, StaleDecision PROVE PromptInv'
<1>1. fromShell # <<>> /\ DecisionTaken
      /\ UNCHANGED <<answers, shots, choosers, stash, bridge, outcomes, working, denied, doubled>>
  BY DEF StaleDecision, DecisionFor
<1>2. /\ fromShell' \in Seq(Decisions)
      /\ \A i \in DOMAIN fromShell' :
            fromShell'[i].outcome = "approved" => fromShell'[i].token \in approved'
      /\ UNCHANGED <<busVars, stage, frontend, askedBy, served, shellVars, watch, calls, toShell>>
      /\ QueueKept
  BY <1>1, DecisionIs
<1>3. UNCHANGED <<made, askedBy, approved>>
  BY <1>2 DEF busVars, shellVars
<1>4. AccountsInv' /\ EntriesInv' /\ ResultsInv'
  BY <1>1, <1>2, <1>3, Untouched DEF QueueKept
<1>5. PromptTypes'
  <2>1. PromptTypes
    BY DEF PromptInv
  <2>2. /\ answers' \in [1 .. MaxCalls -> Seq(Answers)] /\ Table(shots', Shots) /\ Table(choosers', Choosers)
        /\ stash' \subseteq Nat /\ bridge' \in Seq(Objects) /\ working' \subseteq Outcomes
        /\ outcomes' \in Seq(Outcomes) /\ denied' \subseteq Handles /\ doubled' \subseteq Handles
    BY <1>1, <2>1 DEF PromptTypes, BusTypes, LedgerTypes, ShellTypes
  <2>3. QED
    BY <1>2, <2>1, <2>2, ElseTypes
<1>6. QED
  BY <1>4, <1>5 DEF PromptInv

LEMMA PromptDeniedKeeps == ASSUME PromptInv, PromptDenied PROVE PromptInv'
<1>1. /\ fromShell # <<>> /\ DecisionTaken
      /\ UNCHANGED <<choosers, stash, bridge, outcomes, working, doubled>>
  BY DEF PromptDenied, DecisionFor
<1>2. PICK h \in DOMAIN shots : /\ answers' = Answered({shots[h].call}, Cancelled)
                               /\ shots' = Without(shots, h) /\ denied' = denied \cup {h}
  BY DEF PromptDenied, HoldsToken
<1>3. /\ fromShell' \in Seq(Decisions)
      /\ \A i \in DOMAIN fromShell' :
            fromShell'[i].outcome = "approved" => fromShell'[i].token \in approved'
      /\ UNCHANGED <<busVars, stage, frontend, askedBy, served, shellVars, watch, calls, toShell>>
      /\ QueueKept
  BY <1>1, DecisionIs
<1>4. UNCHANGED <<made, askedBy, approved, choosers>>
  BY <1>1, <1>3 DEF busVars, shellVars
<1>5. AccountsInv' /\ ResultsInv' /\ Fewer(shots', shots) /\ Table(shots', Shots)
  BY <1>2, <1>3, <1>4, AnswersAre, NotOwn, ShotEnds
<1>6. EntriesInv'
  <2>1. Fewer(choosers', choosers)
    BY <1>4 DEF Fewer
  <2>2. QED
    BY <1>3, <1>4, <1>5, <2>1, EntriesKept
<1>7. PromptTypes'
  <2>1. PromptTypes
    BY DEF PromptInv
  <2>2. answers' \in [1 .. MaxCalls -> Seq(Answers)]
    BY <1>2, <2>1, AnswersAre, AnsweredIs
  <2>3. /\ Table(choosers', Choosers) /\ stash' \subseteq Nat /\ bridge' \in Seq(Objects)
        /\ working' \subseteq Outcomes /\ outcomes' \in Seq(Outcomes) /\ doubled' \subseteq Handles
        /\ denied' \subseteq Handles
    BY <1>1, <1>2, <2>1 DEF PromptTypes, BusTypes, LedgerTypes, ShellTypes, Table
  <2>4. QED
    BY <1>3, <1>5, <2>1, <2>2, <2>3, ElseTypes
<1>8. QED
  BY <1>5, <1>6, <1>7 DEF PromptInv

LEMMA ChooserDecisionKeeps == ASSUME PromptInv, ChooserDecision PROVE PromptInv'
<1>1. /\ fromShell # <<>> /\ DecisionTaken
      /\ UNCHANGED <<shots, stash, outcomes, working, denied, doubled>>
  BY DEF ChooserDecision, DecisionFor
<1>2. PICK d : d = Head(fromShell)
  OBVIOUS
<1>3. PICK h \in DOMAIN choosers :
         /\ choosers[h].token = d.token
         /\ answers' = Answered({choosers[h].call},
                         IF d.outcome = "approved"
                         THEN [response |-> "ok", token |-> choosers[h].token, pixels |-> "none"]
                         ELSE Cancelled)
         /\ choosers' = Without(choosers, h)
         /\ bridge' = Append(bridge, Object("unexport", h))
  BY <1>2 DEF ChooserDecision, HoldsToken
<1>4. /\ fromShell' \in Seq(Decisions)
      /\ d.outcome = "approved" => d.token \in approved
      /\ \A i \in DOMAIN fromShell' :
            fromShell'[i].outcome = "approved" => fromShell'[i].token \in approved'
      /\ UNCHANGED <<busVars, stage, frontend, askedBy, served, shellVars, watch, calls, toShell>>
      /\ QueueKept
  BY <1>1, <1>2, DecisionIs
<1>5. UNCHANGED <<made, askedBy, approved, shots>>
  BY <1>1, <1>4 DEF busVars, shellVars
<1>6. PromptTypes /\ h \in Handles /\ choosers[h].token \in Nat
  BY DEF PromptInv, PromptTypes, LedgerTypes, Table, Choosers
<1>7. PICK a : a = IF d.outcome = "approved"
                   THEN [response |-> "ok", token |-> choosers[h].token, pixels |-> "none"]
                   ELSE Cancelled
  OBVIOUS
<1>8. a \in Answers /\ answers' = Answered({choosers[h].call}, a)
  BY <1>3, <1>6, <1>7, AnswersAre DEF Answers
<1>9. PICK c0 : c0 = choosers[h].call
  OBVIOUS
<1>10. Own(c0, a)'
  <2>1. CASE d.outcome = "approved"
    <3>1. a.token = d.token /\ a.pixels = "none" /\ d.token \in approved
      BY <1>3, <1>4, <1>7, <2>1
    <3>2. made[c0].kind = "file" /\ d.token \in 1 .. Len(askedBy) /\ askedBy[d.token] = c0
      BY <1>3, <1>9 DEF PromptInv, EntriesInv, ChooserKnown
    <3>3. QED
      BY <1>5, <3>1, <3>2 DEF Own
  <2>2. CASE d.outcome # "approved"
    BY <1>7, <2>2, AnswersAre, NotOwn
  <2>3. QED
    BY <2>1, <2>2
<1>11. AccountsInv' /\ ResultsInv' /\ Fewer(choosers', choosers) /\ Table(choosers', Choosers)
  BY <1>3, <1>4, <1>5, <1>8, <1>9, <1>10, ChooserEnds
<1>12. EntriesInv'
  <2>1. Fewer(shots', shots)
    BY <1>5 DEF Fewer
  <2>2. QED
    BY <1>4, <1>5, <1>11, <2>1, EntriesKept
<1>13. PromptTypes'
  <2>1. answers' \in [1 .. MaxCalls -> Seq(Answers)]
    BY <1>6, <1>8, AnsweredIs
  <2>2. bridge' \in Seq(Objects)
    <3>1. Object("unexport", h) \in Objects
      BY <1>6 DEF Object, Objects
    <3>2. QED
      BY <1>3, <1>6, <3>1, AppendIs DEF PromptTypes, BusTypes
  <2>3. /\ Table(shots', Shots) /\ stash' \subseteq Nat
        /\ working' \subseteq Outcomes /\ outcomes' \in Seq(Outcomes) /\ doubled' \subseteq Handles
        /\ denied' \subseteq Handles
    BY <1>1, <1>6 DEF PromptTypes, LedgerTypes, ShellTypes, Table
  <2>4. QED
    BY <1>4, <1>6, <1>11, <2>1, <2>2, <2>3, ElseTypes
<1>14. QED
  BY <1>11, <1>12, <1>13 DEF PromptInv

LEMMA PromptApprovedKeeps ==
    ASSUME PromptInv, NEW output \in BOOLEAN, NEW captured \in BOOLEAN, PromptApproved(output, captured)
    PROVE  PromptInv'
<1>1. PICK d : d = Head(fromShell)
  OBVIOUS
<1>2. PICK pixels : pixels = IF d.token \in stash THEN "frozen" ELSE "live"
  OBVIOUS
<1>3. /\ fromShell # <<>> /\ d.outcome = "approved" /\ DecisionTaken
      /\ stash' = IF output THEN stash \ {d.token} ELSE stash
      /\ UNCHANGED <<answers, choosers, bridge, denied, doubled>>
  BY <1>1 DEF PromptApproved, DecisionFor
<1>4. PICK h \in DOMAIN shots :
         /\ shots[h].token = d.token
         /\ shots' = [shots EXCEPT ![h].stage = "capture"]
         /\ IF output /\ captured /\ shots[h].kind = "screen"
            THEN /\ working' = working \cup {Outcome(h, "screen", d.token, TRUE, pixels)}
                 /\ UNCHANGED outcomes
            ELSE /\ outcomes' = Append(outcomes, Outcome(h, shots[h].kind, d.token, output /\ captured, pixels))
                 /\ UNCHANGED working
  BY <1>1, <1>2 DEF PromptApproved, HoldsToken
<1>5. /\ d \in Decisions /\ d.token \in approved /\ fromShell' \in Seq(Decisions)
      /\ \A i \in DOMAIN fromShell' :
            fromShell'[i].outcome = "approved" => fromShell'[i].token \in approved'
      /\ UNCHANGED <<busVars, stage, frontend, askedBy, served, shellVars, watch, calls, toShell>>
      /\ QueueKept
  BY <1>1, <1>3, DecisionIs
<1>6. UNCHANGED <<made, askedBy, approved, choosers>>
  BY <1>3, <1>5 DEF busVars, shellVars
<1>7. PromptTypes /\ Table(shots, Shots) /\ h \in Handles /\ shots[h] \in Shots
  BY DEF PromptInv, PromptTypes, LedgerTypes, Table
<1>8. PICK x : x = [shots[h] EXCEPT !.stage = "capture"]
  OBVIOUS
<1>9. /\ x \in Shots /\ x.call = shots[h].call /\ x.kind = shots[h].kind
      /\ x.token = shots[h].token /\ x.stage = "capture"
  BY <1>7, <1>8 DEF Shots
<1>10. /\ DOMAIN shots' = DOMAIN shots /\ shots'[h] = x
       /\ \A k \in DOMAIN shots \ {h} : shots'[k] = shots[k]
  BY <1>4, <1>8
<1>11. /\ \A k \in DOMAIN shots : shots'[k].call = shots[k].call
       /\ Table(shots', Shots)
  BY <1>7, <1>9, <1>10 DEF Table
<1>12. /\ HeldApart(shots') /\ \A c : HeldBy(shots', c) <=> HeldBy(shots, c)
  <2>1. HeldApart(shots)
    BY DEF PromptInv, AccountsInv
  <2>2. QED
    BY <1>10, <1>11, <2>1 DEF HeldApart, HeldBy
<1>13. ApartAfter
  BY <1>5, <1>6, <1>12 DEF ApartAfter, QueueKept, PromptInv, AccountsInv
<1>14. AccountsInv' /\ ResultsInv'
  BY <1>3, <1>5, <1>6, <1>12, <1>13, Unsettled DEF QueueKept
<1>15. EntriesInv'
  <2>1. ASSUME NEW k \in DOMAIN shots' PROVE ShotKnown(shots[k])'
    <3>1. ShotKnown(shots[k]) /\ ShotKnown(shots[h])
      BY <1>10, <2>1 DEF PromptInv, EntriesInv
    <3>2. CASE k = h
      BY <1>4, <1>5, <1>6, <1>9, <1>10, <3>1, <3>2 DEF ShotKnown
    <3>3. CASE k # h
      <4>1. shots'[k] = shots[k]
        BY <1>10, <2>1, <3>3
      <4>2. QED
        BY <1>6, <3>1, <4>1 DEF ShotKnown
    <3>4. QED
      BY <3>2, <3>3
  <2>2. ASSUME NEW k \in DOMAIN choosers' PROVE ChooserKnown(choosers[k])'
    <3>1. ChooserKnown(choosers[k])
      BY <1>6, <2>2 DEF PromptInv, EntriesInv
    <3>2. QED
      BY <1>6, <3>1 DEF ChooserKnown
  <2>3. QED
    BY <1>5, <2>1, <2>2 DEF EntriesInv
<1>16. working' \subseteq Outcomes /\ outcomes' \in Seq(Outcomes)
  <2>1. working \subseteq Outcomes /\ outcomes \in Seq(Outcomes)
    BY <1>7 DEF PromptTypes, ShellTypes
  <2>2. /\ d.token \in Nat /\ pixels \in {"frozen", "live"} /\ shots[h].kind \in CaptureKinds
        /\ "screen" \in CaptureKinds
    BY <1>2, <1>5, <1>7 DEF Decisions, Shots, CaptureKinds
  <2>3. \A kind \in CaptureKinds, ok \in BOOLEAN : Outcome(h, kind, d.token, ok, pixels) \in Outcomes
    BY <1>7, <2>2 DEF Outcome, Outcomes
  <2>4. CASE output /\ captured /\ shots[h].kind = "screen"
    <3>1. PICK w \in Outcomes : w = Outcome(h, "screen", d.token, TRUE, pixels)
      BY <2>2, <2>3
    <3>2. working' = working \cup {w} /\ UNCHANGED outcomes
      BY <1>4, <2>4, <3>1
    <3>3. QED
      BY <2>1, <3>2
  <2>5. CASE ~ (output /\ captured /\ shots[h].kind = "screen")
    <3>1. PICK w \in Outcomes : w = Outcome(h, shots[h].kind, d.token, output /\ captured, pixels)
      BY <2>2, <2>3
    <3>2. outcomes' = Append(outcomes, w) /\ UNCHANGED working
      BY <1>4, <2>5, <3>1
    <3>3. QED
      BY <2>1, <3>2, AppendIs
  <2>6. QED
    BY <2>4, <2>5
<1>17. PromptTypes'
  <2>1. /\ answers' \in [1 .. MaxCalls -> Seq(Answers)] /\ Table(choosers', Choosers)
        /\ stash' \subseteq Nat /\ bridge' \in Seq(Objects)
        /\ denied' \subseteq Handles /\ doubled' \subseteq Handles
    BY <1>3, <1>7 DEF PromptTypes, BusTypes, LedgerTypes
  <2>2. QED
    BY <1>5, <1>7, <1>11, <1>16, <2>1, ElseTypes
<1>18. QED
  BY <1>14, <1>15, <1>17 DEF PromptInv

\* The outcome that matches a capture is that of the request itself.
LEMMA PortalCaptureOutcomeKeeps == ASSUME PromptInv, PortalCaptureOutcome PROVE PromptInv'
<1>1. PICK o : o = Head(outcomes)
  OBVIOUS
<1>2. /\ outcomes # <<>> /\ outcomes' = Tail(outcomes)
      /\ UNCHANGED <<busVars, stage, frontend, choosers, askedBy, stash, served, working, shellVars,
                     watch, calls, toShell, fromShell, denied, doubled>>
  BY DEF PortalCaptureOutcome
<1>3. PromptTypes
  BY DEF PromptInv
<1>4. o \in Outcomes /\ outcomes' \in Seq(Outcomes)
  BY <1>1, <1>2, <1>3, TailIs DEF PromptTypes, ShellTypes
<1>5. UNCHANGED <<made, askedBy, approved, choosers, calls, fromShell>>
  BY <1>2 DEF busVars, shellVars
<1>6. QueueKept
  BY <1>5, SameQueue
<1>7. \A i \in DOMAIN fromShell' :
         fromShell'[i].outcome = "approved" => fromShell'[i].token \in approved'
  BY <1>5 DEF PromptInv, EntriesInv
<1>8. CASE OutcomeMatches(o)
  <2>1. PICK h : h = o.handle
    OBVIOUS
  <2>2. PICK a : a = IF o.ok THEN [response |-> "ok", token |-> o.token, pixels |-> o.pixels] ELSE Failed
    OBVIOUS
  <2>3. /\ answers' = Answered({shots[h].call}, a) /\ shots' = Without(shots, h)
        /\ bridge' = Append(bridge, Object("unexport", h))
    BY <1>1, <1>8, <2>1, <2>2 DEF PortalCaptureOutcome
  <2>4. /\ h \in DOMAIN shots /\ shots[h].stage = "capture"
        /\ shots[h].token = o.token /\ shots[h].kind = o.kind
    BY <1>8, <2>1 DEF OutcomeMatches
  <2>5. a \in Answers
    BY <1>4, <2>2, AnswersAre DEF Answers, Outcomes
  <2>6. PICK c0 : c0 = shots[h].call
    OBVIOUS
  <2>7. Own(c0, a)'
    <3>1. CASE o.ok
      <4>1. a.token = o.token /\ a.pixels = o.pixels /\ o.pixels # "none" /\ o.kind # "file"
        BY <1>4, <2>2, <3>1 DEF Outcomes, CaptureKinds
      <4>2. /\ o.token \in approved /\ o.token \in 1 .. Len(askedBy) /\ askedBy[o.token] = c0
            /\ made[c0].kind = o.kind
        BY <2>4, <2>6 DEF PromptInv, EntriesInv, ShotKnown
      <4>3. QED
        BY <1>5, <4>1, <4>2 DEF Own
    <3>2. CASE ~ o.ok
      BY <2>2, <3>2, AnswersAre, NotOwn
    <3>3. QED
      BY <3>1, <3>2
  <2>8. AccountsInv' /\ ResultsInv' /\ Fewer(shots', shots) /\ Table(shots', Shots)
    BY <1>5, <1>6, <2>3, <2>4, <2>5, <2>6, <2>7, ShotEnds
  <2>9. EntriesInv'
    <3>1. Fewer(choosers', choosers)
      BY <1>5 DEF Fewer
    <3>2. QED
      BY <1>5, <1>7, <2>8, <3>1, EntriesKept
  <2>10. PromptTypes'
    <3>1. answers' \in [1 .. MaxCalls -> Seq(Answers)]
      BY <1>3, <2>3, <2>5, AnsweredIs
    <3>2. bridge' \in Seq(Objects)
      <4>1. Object("unexport", h) \in Objects
        BY <1>4, <2>1 DEF Object, Objects, Outcomes
      <4>2. QED
        BY <1>3, <2>3, <4>1, AppendIs DEF PromptTypes, BusTypes
    <3>3. /\ Table(choosers', Choosers) /\ stash' \subseteq Nat /\ fromShell' \in Seq(Decisions)
          /\ working' \subseteq Outcomes /\ denied' \subseteq Handles /\ doubled' \subseteq Handles
      BY <1>2, <1>3 DEF PromptTypes, LedgerTypes, ShellTypes
    <3>4. QED
      BY <1>2, <1>3, <1>4, <2>8, <3>1, <3>2, <3>3, ElseTypes
  <2>11. QED
    BY <2>8, <2>9, <2>10 DEF PromptInv
<1>9. CASE ~ OutcomeMatches(o)
  <2>1. UNCHANGED <<answers, shots, bridge>>
    BY <1>1, <1>9 DEF PortalCaptureOutcome
  <2>2. AccountsInv' /\ EntriesInv' /\ ResultsInv'
    BY <1>5, <1>6, <1>7, <2>1, Untouched DEF QueueKept
  <2>3. PromptTypes'
    <3>1. /\ answers' \in [1 .. MaxCalls -> Seq(Answers)] /\ Table(shots', Shots) /\ Table(choosers', Choosers)
          /\ stash' \subseteq Nat /\ fromShell' \in Seq(Decisions) /\ bridge' \in Seq(Objects)
          /\ working' \subseteq Outcomes /\ denied' \subseteq Handles /\ doubled' \subseteq Handles
      BY <1>2, <1>3, <2>1 DEF PromptTypes, BusTypes, LedgerTypes, ShellTypes
    <3>2. QED
      BY <1>2, <1>3, <1>4, <3>1, ElseTypes
  <2>4. QED
    BY <2>2, <2>3 DEF PromptInv
<1>10. QED
  BY <1>8, <1>9

----------------------------------------------------------------------------
(* The specification *)

LEMMA PromptInitInv == ASSUME PromptInit PROVE PromptInv
<1>1. /\ owner \in {0, 1} /\ names = owner
      /\ live = [h \in Handles |-> 0]
      /\ made = <<>> /\ answers = [c \in 1 .. MaxCalls |-> <<>>]
      /\ stage = "lookup" /\ frontend = 0
      /\ shots = Empty /\ choosers = Empty /\ askedBy = <<>> /\ stash = {}
      /\ served = {} /\ working = {}
      /\ watch = <<>> /\ calls = <<>> /\ bridge = <<>> /\ outcomes = <<>>
      /\ toShell = <<>> /\ fromShell = <<>>
      /\ prompt = 0 /\ chooser = 0 /\ approved = {} /\ denied = {} /\ doubled = {}
  BY DEF PromptInit
<1>2. MaxCalls \in Nat /\ Len(made) = 0 /\ DOMAIN calls = {} /\ DOMAIN fromShell = {}
  BY <1>1, PromptBounds
<1>3. PromptTypes
  <2>1. /\ <<>> \in Seq([kind : Kinds, handle : Handles, caller : Nat])
        /\ <<>> \in Seq(Nat) /\ <<>> \in Seq(Messages) /\ <<>> \in Seq(Objects) /\ <<>> \in Seq(Answers)
        /\ <<>> \in Seq(Tellings) /\ <<>> \in Seq(Decisions) /\ <<>> \in Seq(Outcomes)
    BY EmptySeq
  <2>2. Table(shots, Shots) /\ Table(choosers, Choosers)
    BY <1>1, EmptyIs DEF Table
  <2>3. BusTypes
    <3>1. owner \in Nat /\ names \in Nat /\ Len(made) <= MaxCalls /\ served \subseteq Handles
      BY <1>1, <1>2
    <3>2. live \in [Handles -> Nat] /\ answers \in [1 .. MaxCalls -> Seq(Answers)]
      BY <1>1, <2>1, Zenon
    <3>3. QED
      BY <1>1, <2>1, <3>1, <3>2 DEF BusTypes
  <2>4. LedgerTypes
    BY <1>1, <2>1, <2>2 DEF LedgerTypes
  <2>5. ShellTypes
    BY <1>1, <2>1 DEF ShellTypes
  <2>6. QED
    BY <2>3, <2>4, <2>5 DEF PromptTypes
<1>4. DOMAIN shots = {} /\ DOMAIN choosers = {}
  BY <1>1, EmptyIs
<1>5. AccountsInv
  <2>1. CallsApart(calls) /\ HeldApart(shots) /\ HeldApart(choosers)
    BY <1>2, <1>4 DEF CallsApart, HeldApart
  <2>2. \A c \in 1 .. Len(made) : Account(c)
    BY <1>2
  <2>3. QED
    BY <1>1, <1>2, <2>1, <2>2 DEF AccountsInv
<1>6. EntriesInv
  BY <1>2, <1>4 DEF EntriesInv
<1>7. ResultsInv
  BY <1>2 DEF ResultsInv
<1>8. QED
  BY <1>3, <1>5, <1>6, <1>7 DEF PromptInv

LEMMA PromptStutter == ASSUME PromptInv, UNCHANGED vars PROVE PromptInv'
<1>1. PromptTypes'
  BY DEF PromptInv, PromptTypes, BusTypes, LedgerTypes, ShellTypes, Table, vars, busVars, ledgerVars, shellVars,
         channelVars
<1>2. /\ UNCHANGED <<made, answers, askedBy, shots, choosers, calls>> /\ approved' = approved
      /\ fromShell' = fromShell
  BY DEF vars, busVars, ledgerVars, shellVars, channelVars
<1>3. QED
  BY <1>1, <1>2, ElsewhereKeeps

LEMMA PromptStep == ASSUME PromptInv, [PromptNext]_vars PROVE PromptInv'
<1>1. ASSUME NEW h \in Handles, NEW k \in CaptureKinds, NEW target \in {"none", "screen", "window"},
             ScreenshotCall(k, h, target)
      PROVE  PromptInv'
  <2>1. k \in Kinds /\ TargetUnavailable(target) \in BOOLEAN
    BY DEF Kinds, TargetUnavailable
  <2>2. Asked(k, h, TargetUnavailable(target))
    BY <1>1 DEF ScreenshotCall
  <2>3. QED
    BY <2>1, <2>2, AskedKeeps
<1>2. ASSUME NEW h \in Handles, NEW method \in {"OpenFile", "SaveFile", "SaveFiles"}, NEW files \in 0 .. 1,
             FileChooserCall(method, h, files)
      PROVE  PromptInv'
  <2>1. "file" \in Kinds /\ NoFileNames(method, files) \in BOOLEAN
    BY DEF Kinds, NoFileNames
  <2>2. Asked("file", h, NoFileNames(method, files))
    BY <1>2 DEF FileChooserCall
  <2>3. QED
    BY <2>1, <2>2, AskedKeeps
<1>3. CASE Loop
  BY <1>3, HandlePortalCallKeeps, StaleDecisionKeeps, PromptDeniedKeeps, PromptApprovedKeeps,
     ChooserDecisionKeeps, PortalCaptureOutcomeKeeps
  DEF Loop
<1>4. CASE UNCHANGED vars
  BY <1>4, PromptStutter
<1>5. QED
  BY <1>1, <1>2, <1>3, <1>4, CloseRequestKeeps, OwnerChangesKeeps, StartsKeep, ForwardOwnerKeeps, BridgeKeeps,
     ShellHearsKeeps, DecideKeeps, EncodeKeeps
  DEF PromptNext

\* Every reachable state satisfies the inductive invariant (embedder/portal/service.rs).
THEOREM PromptInvariant == PromptSpec => []PromptInv
<1>1. PromptInit => PromptInv
  BY PromptInitInv
<1>2. PromptInv /\ [PromptNext]_vars => PromptInv'
  BY PromptStep
<1>3. QED
  BY <1>1, <1>2, PTL DEF PromptSpec

\* Every variable of the loop, of its channels and of the shell keeps its type.
THEOREM PromptTypesHold == PromptSpec => []PromptTypes
<1>1. PromptInv => PromptTypes
  BY DEF PromptInv
<1>2. QED
  BY <1>1, PromptInvariant, PTL

\* A table holds a call once, or not at all.
LEMMA HoldersIs ==
    ASSUME NEW f, HeldApart(f), NEW c
    PROVE  Cardinality({h \in DOMAIN f : f[h].call = c}) = IF HeldBy(f, c) THEN 1 ELSE 0
<1>1. CASE HeldBy(f, c)
  <2>1. PICK h \in DOMAIN f : f[h].call = c
    BY <1>1 DEF HeldBy
  <2>2. {k \in DOMAIN f : f[k].call = c} = {h}
    BY <2>1 DEF HeldApart
  <2>3. QED
    BY <1>1, <2>2, FS_Singleton
<1>2. CASE ~ HeldBy(f, c)
  <2>1. {k \in DOMAIN f : f[k].call = c} = {}
    BY <1>2 DEF HeldBy
  <2>2. QED
    BY <1>2, <2>1, FS_EmptySet
<1>3. QED
  BY <1>1, <1>2

LEMMA InvAnswersOnce == ASSUME PromptInv PROVE PromptAnsweredOnce
<1>1. SUFFICES ASSUME NEW c \in 1 .. Len(made)
               PROVE  Len(answers[c]) + Holders(c) + (IF Queued(c) THEN 1 ELSE 0) = 1
  BY DEF PromptAnsweredOnce
<1>2. Account(c) /\ HeldApart(shots) /\ HeldApart(choosers)
  BY <1>1 DEF PromptInv, AccountsInv
<1>3. Holders(c) = (IF HeldBy(shots, c) THEN 1 ELSE 0) + (IF HeldBy(choosers, c) THEN 1 ELSE 0)
  <2>1. Cardinality({h \in DOMAIN shots : shots[h].call = c}) = IF HeldBy(shots, c) THEN 1 ELSE 0
    BY <1>2, HoldersIs
  <2>2. Cardinality({h \in DOMAIN choosers : choosers[h].call = c}) = IF HeldBy(choosers, c) THEN 1 ELSE 0
    BY <1>2, HoldersIs
  <2>3. QED
    BY <2>1, <2>2 DEF Holders
<1>4. Len(<<>>) = 0
  OBVIOUS
<1>5. CASE Queued(c)
  <2>1. ~ HeldBy(shots, c) /\ ~ HeldBy(choosers, c) /\ answers[c] = <<>>
    BY <1>2, <1>5 DEF Account
  <2>2. Holders(c) = 0 /\ Len(answers[c]) = 0
    BY <1>3, <1>4, <2>1
  <2>3. QED
    BY <1>5, <2>2
<1>6. CASE ~ Queued(c)
  <2>1. CASE HeldBy(shots, c)
    <3>1. ~ HeldBy(choosers, c) /\ answers[c] = <<>>
      BY <1>2, <2>1 DEF Account
    <3>2. Holders(c) = 1 /\ Len(answers[c]) = 0
      BY <1>3, <1>4, <2>1, <3>1
    <3>3. QED
      BY <1>6, <3>2
  <2>2. CASE HeldBy(choosers, c)
    <3>1. ~ HeldBy(shots, c) /\ answers[c] = <<>>
      BY <1>2, <2>2 DEF Account
    <3>2. Holders(c) = 1 /\ Len(answers[c]) = 0
      BY <1>3, <1>4, <2>2, <3>1
    <3>3. QED
      BY <1>6, <3>2
  <2>3. CASE ~ HeldBy(shots, c) /\ ~ HeldBy(choosers, c)
    <3>1. Len(answers[c]) = 1
      BY <1>2, <1>6, <2>3 DEF Account
    <3>2. Holders(c) = 0
      BY <1>3, <2>3
    <3>3. QED
      BY <1>6, <3>1, <3>2
  <2>4. QED
    BY <2>1, <2>2, <2>3
<1>7. QED
  BY <1>5, <1>6

\* Every call of the frontend is answered exactly once, and a positive answer carries the result the
\* user approved for that very call: ReplyLink and handle_portal_capture_outcome (embedder/portal/service.rs).
THEOREM PromptsAnswered == PromptSpec => []AnsweredWithItsOwn
<1>1. PromptInv => AnsweredWithItsOwn
  BY InvAnswersOnce DEF AnsweredWithItsOwn, ResultOfOwnRequest, PromptInv, ResultsInv, Own
<1>2. QED
  BY <1>1, PromptInvariant, PTL

----------------------------------------------------------------------------
(* The inductive invariant of what outlives a request *)

\* The dialog of the token was dismissed after the place i of what the shell is told.
DismissedAfter(q, i, t) == \E j \in DOMAIN q : i < j /\ q[j].type = "dismiss" /\ q[j].token = t

\* The user has decided on the dialog of the token, and the loop is yet to hear of it.
DecidedOn(f, dialog, t) == \E i \in DOMAIN f : f[i].dialog = dialog /\ f[i].token = t

\* A dialog told of, or on screen, is that of a live request or dismissed in what is told
\* after it; it is told of once, and none the user has decided on comes back.
Truthful(dialog, q, shown, alive, f, n) ==
    /\ \A i \in DOMAIN q : q[i].type = dialog =>
          /\ q[i].token \in 1 .. n
          /\ q[i].token \in alive \/ DismissedAfter(q, i, q[i].token)
          /\ q[i].token # shown /\ ~ DecidedOn(f, dialog, q[i].token)
          /\ \A l \in DOMAIN q : q[l].type = dialog /\ q[l].token = q[i].token => l = i
    /\ shown # 0 =>
          /\ shown \in 1 .. n /\ ~ DecidedOn(f, dialog, shown)
          /\ shown \in alive \/ DismissedAfter(q, 0, shown)
    /\ \A i \in DOMAIN f : f[i].token \in 1 .. n

Asking == {shots[h].token : h \in Waiting(shots)}
Choosing == {choosers[h].token : h \in DOMAIN choosers}

DialogsInv ==
    /\ Truthful("prompt", toShell, prompt, Asking, fromShell, Len(askedBy))
    /\ Truthful("chooser", toShell, chooser, Choosing, fromShell, Len(askedBy))

\* The objects on the bus once the bridge has done what it was told.
LastOn(q, h, i) == q[i].handle = h /\ \A j \in DOMAIN q : i < j => q[j].handle # h
ServedAfter(s, q) ==
    {h \in Handles : IF \E i \in DOMAIN q : q[i].handle = h
                     THEN \E i \in DOMAIN q : q[i].type = "export" /\ LastOn(q, h, i)
                     ELSE h \in s}

ObjectsInv ==
    /\ DOMAIN shots \cap DOMAIN choosers \subseteq doubled
    /\ (DOMAIN shots \cup DOMAIN choosers) \ doubled \subseteq ServedAfter(served, bridge)
    /\ ServedAfter(served, bridge) \ doubled \subseteq DOMAIN shots \cup DOMAIN choosers \cup denied

StashInv == IsFiniteSet(stash) /\ Cardinality(stash) <= StashCap

FollowInv == PromptInv /\ DialogsInv /\ ObjectsInv /\ StashInv

----------------------------------------------------------------------------
(* What is told after what was told *)

\* A set of naturals has a least member, read off the sets below its members.
LEMMA LeastNat ==
    ASSUME NEW T, T \subseteq Nat, T # {}
    PROVE  \E n \in T : \A m \in T : n <= m
<1> DEFINE Below == {0 .. n : n \in T}
<1>1. IsWellFoundedOn(StrictSubsetOrdering(Nat), FiniteSubsetsOf(Nat))
  BY FS_StrictSubsetOrderingWellFounded
<1>2. Below \subseteq FiniteSubsetsOf(Nat) /\ Below # {}
  <2>1. ASSUME NEW n \in T PROVE IsFiniteSet(0 .. n) /\ 0 .. n \subseteq Nat
    <3>1. n \in Int /\ 0 \in Int
      OBVIOUS
    <3>2. QED
      BY <3>1, FS_Interval
  <2>2. QED
    BY <2>1 DEF FiniteSubsetsOf
<1>3. PICK B \in Below : \A C \in Below : ~ (<<C, B>> \in StrictSubsetOrdering(Nat))
  BY <1>1, <1>2, WFMin
<1>4. PICK n \in T : B = 0 .. n
  OBVIOUS
<1>5. ASSUME NEW m \in T PROVE n <= m
  <2>1. m \in Nat /\ n \in Nat /\ 0 .. m \in Below
    OBVIOUS
  <2>2. SUFFICES ASSUME m < n PROVE FALSE
    BY <2>1
  <2>3. 0 .. m \subseteq 0 .. n /\ 0 .. m # 0 .. n
    BY <2>1, <2>2
  <2>4. 0 .. m \in SUBSET Nat /\ B \in SUBSET Nat
    BY <2>1, <1>4
  <2>5. <<0 .. m, B>> \in StrictSubsetOrdering(Nat)
    BY <2>3, <2>4, <1>4 DEF StrictSubsetOrdering
  <2>6. QED
    BY <1>3, <2>1, <2>5
<1>6. QED
  BY <1>5

LEMMA JoinIs ==
    ASSUME NEW S, NEW q \in Seq(S), NEW r \in Seq(S)
    PROVE  /\ q \o r \in Seq(S) /\ Len(q) \in Nat /\ Len(r) \in Nat
           /\ DOMAIN q = 1 .. Len(q) /\ DOMAIN r = 1 .. Len(r)
           /\ DOMAIN (q \o r) = 1 .. Len(q) + Len(r)
           /\ \A i \in 1 .. Len(q) : (q \o r)[i] = q[i]
           /\ \A j \in 1 .. Len(r) : (q \o r)[Len(q) + j] = r[j]
           /\ \A i \in 1 .. Len(q) + Len(r) : i \in 1 .. Len(q) \/ \E j \in 1 .. Len(r) : i = Len(q) + j
<1>1. /\ q \o r \in Seq(S) /\ Len(q \o r) = Len(q) + Len(r)
      /\ \A i \in 1 .. Len(q) + Len(r) : (q \o r)[i] = IF i <= Len(q) THEN q[i] ELSE r[i - Len(q)]
  BY ConcatProperties
<1>2. Len(q) \in Nat /\ Len(r) \in Nat /\ DOMAIN q = 1 .. Len(q) /\ DOMAIN r = 1 .. Len(r)
  BY LenProperties
<1>3. DOMAIN (q \o r) = 1 .. Len(q) + Len(r)
  BY <1>1, LenProperties
<1>4. \A i \in 1 .. Len(q) : (q \o r)[i] = q[i]
  BY <1>1, <1>2
<1>5. \A j \in 1 .. Len(r) : (q \o r)[Len(q) + j] = r[j]
  <2>1. TAKE j \in 1 .. Len(r)
  <2>2. Len(q) + j \in 1 .. Len(q) + Len(r) /\ ~ (Len(q) + j <= Len(q)) /\ (Len(q) + j) - Len(q) = j
    BY <1>2
  <2>3. QED
    BY <1>1, <2>2
<1>6. \A i \in 1 .. Len(q) + Len(r) : i \in 1 .. Len(q) \/ \E j \in 1 .. Len(r) : i = Len(q) + j
  <2>1. TAKE i \in 1 .. Len(q) + Len(r)
  <2>2. CASE i > Len(q)
    <3>1. i - Len(q) \in 1 .. Len(r) /\ i = Len(q) + (i - Len(q))
      BY <1>2, <2>2
    <3>2. QED
      BY <3>1
  <2>3. QED
    BY <1>2, <2>2
<1>7. QED
  BY <1>1, <1>2, <1>3, <1>4, <1>5, <1>6

\* More is told, of other dialogs: those that end without being decided on are dismissed.
LEMMA MoreTold ==
    ASSUME NEW d, NEW q \in Seq(Tellings), NEW r \in Seq(Tellings), NEW shown, NEW alive, NEW still,
           NEW f, NEW g, NEW n \in Nat, NEW m \in Nat, n <= m,
           Truthful(d, q, shown, alive, f, n),
           \A i \in DOMAIN r : r[i].type # d,
           \A t \in alive \ still : DismissedAfter(r, 0, t) \/ DecidedOn(f, d, t),
           \A i \in DOMAIN g : \E j \in DOMAIN f : g[i] = f[j]
    PROVE  Truthful(d, q \o r, shown, still, g, m)
<1>1. PICK p : p = q \o r
  OBVIOUS
<1>2. /\ Len(q) \in Nat /\ Len(r) \in Nat
      /\ DOMAIN q = 1 .. Len(q) /\ DOMAIN r = 1 .. Len(r) /\ DOMAIN p = 1 .. Len(q) + Len(r)
      /\ \A i \in 1 .. Len(q) : p[i] = q[i]
      /\ \A j \in 1 .. Len(r) : p[Len(q) + j] = r[j]
      /\ \A i \in 1 .. Len(q) + Len(r) : i \in 1 .. Len(q) \/ \E j \in 1 .. Len(r) : i = Len(q) + j
  BY <1>1, JoinIs
<1>3. ASSUME NEW i \in DOMAIN p, p[i].type = d PROVE i \in DOMAIN q /\ p[i] = q[i]
  <2>1. CASE i \in 1 .. Len(q)
    BY <1>2, <2>1
  <2>2. ASSUME NEW j \in 1 .. Len(r), i = Len(q) + j PROVE FALSE
    BY <1>2, <1>3, <2>2
  <2>3. QED
    BY <1>2, <2>1, <2>2
<1>4. \A t : DecidedOn(g, d, t) => DecidedOn(f, d, t)
  BY DEF DecidedOn
<1>5. ASSUME NEW i \in 0 .. Len(q), NEW t, DismissedAfter(q, i, t) PROVE DismissedAfter(p, i, t)
  BY <1>2, <1>5 DEF DismissedAfter
<1>6. ASSUME NEW i \in 0 .. Len(q), NEW t, DismissedAfter(r, 0, t) PROVE DismissedAfter(p, i, t)
  <2>1. PICK j \in 1 .. Len(r) : r[j].type = "dismiss" /\ r[j].token = t
    BY <1>2, <1>6 DEF DismissedAfter
  <2>2. Len(q) + j \in DOMAIN p /\ p[Len(q) + j] = r[j] /\ i < Len(q) + j
    BY <1>2, <2>1
  <2>3. QED
    BY <2>1, <2>2 DEF DismissedAfter
<1>7. ASSUME NEW i \in 0 .. Len(q), NEW t, t \in alive \/ DismissedAfter(q, i, t), ~ DecidedOn(f, d, t)
      PROVE  t \in still \/ DismissedAfter(p, i, t)
  BY <1>5, <1>6, <1>7
<1>8. ASSUME NEW i \in DOMAIN p, p[i].type = d
      PROVE  /\ p[i].token \in 1 .. m
             /\ p[i].token \in still \/ DismissedAfter(p, i, p[i].token)
             /\ p[i].token # shown /\ ~ DecidedOn(g, d, p[i].token)
             /\ \A l \in DOMAIN p : p[l].type = d /\ p[l].token = p[i].token => l = i
  <2>1. PICK t : t = p[i].token
    OBVIOUS
  <2>2. i \in DOMAIN q /\ i \in 0 .. Len(q) /\ q[i].type = d /\ q[i].token = t
    BY <1>2, <1>3, <1>8, <2>1
  <2>3. /\ t \in 1 .. n /\ (t \in alive \/ DismissedAfter(q, i, t))
        /\ t # shown /\ ~ DecidedOn(f, d, t)
        /\ \A l \in DOMAIN q : q[l].type = d /\ q[l].token = t => l = i
    BY <2>2 DEF Truthful
  <2>4. t \in still \/ DismissedAfter(p, i, t)
    BY <1>7, <2>2, <2>3
  <2>5. t \in 1 .. m
    BY <2>3
  <2>6. QED
    BY <1>3, <1>4, <2>1, <2>3, <2>4, <2>5
<1>9. ASSUME shown # 0
      PROVE  /\ shown \in 1 .. m /\ ~ DecidedOn(g, d, shown)
             /\ shown \in still \/ DismissedAfter(p, 0, shown)
  <2>1. /\ shown \in 1 .. n /\ ~ DecidedOn(f, d, shown)
        /\ shown \in alive \/ DismissedAfter(q, 0, shown)
    BY <1>9 DEF Truthful
  <2>2. 0 \in 0 .. Len(q)
    BY <1>2
  <2>3. QED
    BY <1>4, <1>7, <2>1, <2>2
<1>10. \A i \in DOMAIN g : g[i].token \in 1 .. m
  BY DEF Truthful
<1>11. Truthful(d, p, shown, still, g, m)
  BY <1>8, <1>9, <1>10 DEF Truthful
<1>12. QED
  BY <1>1, <1>11

\* A dialog is told of, under a new token.
LEMMA NewTold ==
    ASSUME NEW d, d # "dismiss", NEW q \in Seq(Tellings), NEW x \in Tellings, NEW shown, NEW alive, NEW still, NEW f,
           NEW n \in Nat, NEW m, m = n + 1,
           Truthful(d, q, shown, alive, f, n), x.type = d, x.token = m, alive \subseteq still, m \in still
    PROVE  Truthful(d, q \o <<x>>, shown, still, f, m)
<1>1. PICK p : p = Append(q, x)
  OBVIOUS
<1>2. /\ Len(q) \in Nat /\ DOMAIN q = 1 .. Len(q) /\ DOMAIN p = 1 .. Len(q) + 1
      /\ \A i \in 1 .. Len(q) : p[i] = q[i]
      /\ p[Len(q) + 1] = x
  BY <1>1, AppendIs
<1>3. \A t : DecidedOn(f, d, t) => t \in 1 .. n
  BY DEF DecidedOn, Truthful
<1>4. m \notin 1 .. n /\ 1 .. n \subseteq 1 .. m /\ m \in 1 .. m
  OBVIOUS
<1>5. ASSUME NEW i, NEW t, DismissedAfter(q, i, t) PROVE DismissedAfter(p, i, t)
  <2>1. PICK j \in DOMAIN q : i < j /\ q[j].type = "dismiss" /\ q[j].token = t
    BY <1>5 DEF DismissedAfter
  <2>2. j \in DOMAIN p /\ p[j] = q[j]
    BY <1>2, <2>1
  <2>3. QED
    BY <2>1, <2>2 DEF DismissedAfter
<1>6. ASSUME NEW i \in DOMAIN p, p[i].type = d
      PROVE  /\ p[i].token \in 1 .. m
             /\ p[i].token \in still \/ DismissedAfter(p, i, p[i].token)
             /\ p[i].token # shown /\ ~ DecidedOn(f, d, p[i].token)
             /\ \A l \in DOMAIN p : p[l].type = d /\ p[l].token = p[i].token => l = i
  <2>1. \A l \in DOMAIN q : q[l].type = d => q[l].token \in 1 .. n
    BY DEF Truthful
  <2>2. shown # m
    BY <1>4 DEF Truthful
  <2>3. CASE i = Len(q) + 1
    <3>1. p[i] = x
      BY <1>2, <2>3
    <3>2. \A l \in DOMAIN p : p[l].type = d /\ p[l].token = p[i].token => l = i
      <4>1. TAKE l \in DOMAIN p
      <4>2. CASE l \in DOMAIN q
        <5>1. p[l] = q[l]
          BY <1>2, <4>2
        <5>2. QED
          BY <1>4, <2>1, <3>1, <4>2, <5>1
      <4>3. QED
        BY <1>2, <2>3, <4>2
    <3>3. QED
      BY <1>3, <1>4, <2>2, <3>1, <3>2
  <2>4. CASE i \in DOMAIN q
    <3>1. PICK t : t = p[i].token
      OBVIOUS
    <3>2. p[i] = q[i] /\ q[i].type = d /\ q[i].token = t
      BY <1>2, <1>6, <2>4, <3>1
    <3>3. /\ t \in 1 .. n /\ (t \in alive \/ DismissedAfter(q, i, t))
          /\ t # shown /\ ~ DecidedOn(f, d, t)
          /\ \A l \in DOMAIN q : q[l].type = d /\ q[l].token = t => l = i
      BY <2>4, <3>2 DEF Truthful
    <3>4. \A l \in DOMAIN p : p[l].type = d /\ p[l].token = t => l = i
      <4>1. TAKE l \in DOMAIN p
      <4>2. CASE l \in DOMAIN q
        BY <1>2, <3>3, <4>2
      <4>3. CASE l = Len(q) + 1
        BY <1>2, <1>4, <3>3, <4>3
      <4>4. QED
        BY <1>2, <4>2, <4>3
    <3>5. t \in still \/ DismissedAfter(p, i, t)
      BY <1>5, <3>3
    <3>6. QED
      BY <1>4, <3>1, <3>3, <3>4, <3>5
  <2>5. QED
    BY <1>2, <2>3, <2>4
<1>7. ASSUME shown # 0
      PROVE  /\ shown \in 1 .. m /\ ~ DecidedOn(f, d, shown)
             /\ shown \in still \/ DismissedAfter(p, 0, shown)
  BY <1>4, <1>5, <1>7 DEF Truthful
<1>8. \A i \in DOMAIN f : f[i].token \in 1 .. m
  BY <1>4 DEF Truthful
<1>9. Truthful(d, p, shown, still, f, m)
  BY <1>6, <1>7, <1>8 DEF Truthful
<1>10. q \o <<x>> = p
  BY <1>1
<1>11. QED
  BY <1>9, <1>10

\* The shell reads what it was told first: it shows the dialog, or takes down the one dismissed.
LEMMA ReadTold ==
    ASSUME NEW d, d # "dismiss", NEW q \in Seq(Tellings), q # <<>>, NEW shown, NEW next, NEW alive, NEW f, NEW n \in Nat,
           Truthful(d, q, shown, alive, f, n),
           \/ Head(q).type = d /\ next = Head(q).token
           \/ Head(q).type = "dismiss" /\ shown = Head(q).token /\ next = 0
           \/ Head(q).type # d /\ ~ (Head(q).type = "dismiss" /\ shown = Head(q).token) /\ next = shown
    PROVE  Truthful(d, Tail(q), next, alive, f, n)
<1>1. PICK p : p = Tail(q)
  OBVIOUS
<1>2. PICK x : x = Head(q)
  OBVIOUS
<1>3. /\ Len(q) \in Nat /\ Len(q) > 0 /\ DOMAIN q = 1 .. Len(q) /\ DOMAIN p = 1 .. Len(q) - 1
      /\ x = q[1] /\ \A i \in 1 .. Len(q) - 1 : p[i] = q[i + 1]
  BY <1>1, <1>2, TailIs
<1>4. \A i \in DOMAIN p : i + 1 \in DOMAIN q /\ p[i] = q[i + 1] /\ i + 1 # 1
  BY <1>3
<1>5. ASSUME NEW i \in 0 .. Len(q) - 1, NEW t, DismissedAfter(q, i + 1, t) PROVE DismissedAfter(p, i, t)
  <2>1. PICK j \in 1 .. Len(q) : i + 1 < j /\ q[j].type = "dismiss" /\ q[j].token = t
    BY <1>3, <1>5 DEF DismissedAfter
  <2>2. j - 1 \in DOMAIN p /\ i < j - 1 /\ p[j - 1] = q[j]
    BY <1>3, <2>1
  <2>3. QED
    BY <2>1, <2>2 DEF DismissedAfter
<1>6. ASSUME NEW i \in DOMAIN p, p[i].type = d
      PROVE  /\ p[i].token \in 1 .. n
             /\ p[i].token \in alive \/ DismissedAfter(p, i, p[i].token)
             /\ p[i].token # next /\ ~ DecidedOn(f, d, p[i].token)
             /\ \A l \in DOMAIN p : p[l].type = d /\ p[l].token = p[i].token => l = i
  <2>1. PICK t : t = p[i].token
    OBVIOUS
  <2>2. i + 1 \in DOMAIN q /\ q[i + 1].type = d /\ q[i + 1].token = t /\ i \in 0 .. Len(q) - 1
    BY <1>3, <1>4, <1>6, <2>1
  <2>3. /\ t \in 1 .. n /\ (t \in alive \/ DismissedAfter(q, i + 1, t))
        /\ t # shown /\ ~ DecidedOn(f, d, t)
        /\ \A l \in DOMAIN q : q[l].type = d /\ q[l].token = t => l = i + 1
    BY <2>2 DEF Truthful
  <2>4. \A l \in DOMAIN p : p[l].type = d /\ p[l].token = t => l = i
    <3>1. TAKE l \in DOMAIN p
    <3>2. HAVE p[l].type = d /\ p[l].token = t
    <3>3. l + 1 = i + 1
      BY <1>4, <2>3, <3>2
    <3>4. QED
      BY <1>3, <3>3
  <2>5. t # next
    <3>1. CASE x.type = d /\ next = x.token
      <4>1. 1 \in DOMAIN q /\ q[1] = x /\ i + 1 # 1
        BY <1>3, <1>4
      <4>2. QED
        BY <2>3, <3>1, <4>1
    <3>2. CASE next = 0
      BY <2>3, <3>2
    <3>3. CASE next = shown
      BY <2>3, <3>3
    <3>4. QED
      BY <1>2, <3>1, <3>2, <3>3
  <2>6. t \in alive \/ DismissedAfter(p, i, t)
    BY <1>5, <2>2, <2>3
  <2>7. QED
    BY <2>1, <2>3, <2>4, <2>5, <2>6
<1>7. ASSUME next # 0
      PROVE  /\ next \in 1 .. n /\ ~ DecidedOn(f, d, next)
             /\ next \in alive \/ DismissedAfter(p, 0, next)
  <2>1. 0 \in 0 .. Len(q) - 1 /\ 0 + 1 = 1
    BY <1>3
  <2>2. CASE x.type = d /\ next = x.token
    <3>1. 1 \in DOMAIN q /\ q[1].type = d /\ q[1].token = next
      BY <1>3, <2>2
    <3>2. /\ next \in 1 .. n /\ ~ DecidedOn(f, d, next)
          /\ next \in alive \/ DismissedAfter(q, 1, next)
      BY <3>1 DEF Truthful
    <3>3. QED
      BY <1>5, <2>1, <3>2
  <2>3. CASE x.type # d /\ ~ (x.type = "dismiss" /\ shown = x.token) /\ next = shown
    <3>1. /\ next \in 1 .. n /\ ~ DecidedOn(f, d, next)
          /\ next \in alive \/ DismissedAfter(q, 0, next)
      BY <1>7, <2>3 DEF Truthful
    <3>2. ASSUME DismissedAfter(q, 0, next) PROVE DismissedAfter(q, 1, next)
      <4>1. PICK j \in 1 .. Len(q) : q[j].type = "dismiss" /\ q[j].token = next
        BY <1>3, <3>2 DEF DismissedAfter
      <4>2. j # 1
        BY <1>3, <2>3, <4>1
      <4>3. QED
        BY <1>3, <4>1, <4>2 DEF DismissedAfter
    <3>3. QED
      BY <1>5, <2>1, <3>1, <3>2
  <2>4. QED
    BY <1>2, <1>7, <2>2, <2>3
<1>8. Truthful(d, p, next, alive, f, n)
  BY <1>6, <1>7 DEF Truthful
<1>9. QED
  BY <1>1, <1>8

\* The user decides on the dialog that is shown, or on another.
LEMMA Decides ==
    ASSUME NEW d, NEW q \in Seq(Tellings), NEW shown, NEW next, NEW alive, NEW f \in Seq(Decisions), NEW x \in Decisions,
           NEW n \in Nat, Truthful(d, q, shown, alive, f, n), x.token \in 1 .. n,
           IF x.dialog = d THEN shown # 0 /\ x.token = shown /\ next = 0 ELSE next = shown
    PROVE  Truthful(d, q, next, alive, Append(f, x), n)
<1>1. PICK g : g = Append(f, x)
  OBVIOUS
<1>2. /\ Len(f) \in Nat /\ DOMAIN f = 1 .. Len(f) /\ DOMAIN g = 1 .. Len(f) + 1
      /\ \A i \in 1 .. Len(f) : g[i] = f[i]
      /\ g[Len(f) + 1] = x
  BY <1>1, AppendIs
<1>3. \A i \in DOMAIN g : g[i] = x \/ \E j \in DOMAIN f : g[i] = f[j]
  BY <1>2
<1>4. \A t : DecidedOn(g, d, t) => DecidedOn(f, d, t) \/ (x.dialog = d /\ t = shown)
  BY <1>3 DEF DecidedOn
<1>5. \A i \in DOMAIN g : g[i].token \in 1 .. n
  BY <1>3 DEF Truthful
<1>6. ASSUME NEW i \in DOMAIN q, q[i].type = d
      PROVE  q[i].token # next /\ ~ DecidedOn(g, d, q[i].token)
  BY <1>4, <1>6 DEF Truthful
<1>7. ASSUME next # 0
      PROVE  /\ next \in 1 .. n /\ ~ DecidedOn(g, d, next)
             /\ next \in alive \/ DismissedAfter(q, 0, next)
  BY <1>4, <1>7 DEF Truthful
<1>8. Truthful(d, q, next, alive, g, n)
  <2>1. \A i \in DOMAIN q : q[i].type = d =>
          /\ q[i].token \in 1 .. n
          /\ q[i].token \in alive \/ DismissedAfter(q, i, q[i].token)
          /\ \A l \in DOMAIN q : q[l].type = d /\ q[l].token = q[i].token => l = i
    BY DEF Truthful
  <2>2. QED
    BY <1>5, <1>6, <1>7, <2>1 DEF Truthful
<1>9. QED
  BY <1>1, <1>8

----------------------------------------------------------------------------
(* The objects on the bus *)

\* The bridge does what it was told first.
LEMMA Performed ==
    ASSUME NEW s, NEW u, NEW q \in Seq(Objects), q # <<>>,
           u = IF Head(q).type = "export" THEN s \cup {Head(q).handle} ELSE s \ {Head(q).handle}
    PROVE  ServedAfter(u, Tail(q)) = ServedAfter(s, q)
<1>1. PICK p : p = Tail(q)
  OBVIOUS
<1>2. PICK x : x = Head(q)
  OBVIOUS
<1>3. /\ Len(q) \in Nat /\ Len(q) > 0 /\ DOMAIN q = 1 .. Len(q) /\ DOMAIN p = 1 .. Len(q) - 1
      /\ x = q[1] /\ \A i \in 1 .. Len(q) - 1 : p[i] = q[i + 1]
  BY <1>1, <1>2, TailIs
<1>4. ASSUME NEW h \in Handles PROVE h \in ServedAfter(u, p) <=> h \in ServedAfter(s, q)
  <2>1. CASE \E i \in DOMAIN p : p[i].handle = h
    <3>1. \E i \in DOMAIN q : q[i].handle = h
      BY <1>3, <2>1
    <3>2. ASSUME NEW i \in DOMAIN p, p[i].type = "export", LastOn(p, h, i)
          PROVE  \E j \in DOMAIN q : q[j].type = "export" /\ LastOn(q, h, j)
      <4>1. i + 1 \in DOMAIN q /\ q[i + 1] = p[i]
        BY <1>3
      <4>2. ASSUME NEW j \in DOMAIN q, i + 1 < j PROVE q[j].handle # h
        <5>1. j - 1 \in DOMAIN p /\ i < j - 1 /\ p[j - 1] = q[j]
          BY <1>3, <4>2
        <5>2. QED
          BY <3>2, <5>1 DEF LastOn
      <4>3. LastOn(q, h, i + 1)
        BY <3>2, <4>1, <4>2 DEF LastOn
      <4>4. QED
        BY <3>2, <4>1, <4>3
    <3>3. ASSUME NEW j \in DOMAIN q, q[j].type = "export", LastOn(q, h, j)
          PROVE  \E i \in DOMAIN p : p[i].type = "export" /\ LastOn(p, h, i)
      <4>1. j # 1
        <5>1. PICK i \in DOMAIN p : p[i].handle = h
          BY <2>1
        <5>2. i + 1 \in DOMAIN q /\ 1 < i + 1 /\ q[i + 1].handle = h
          BY <1>3, <5>1
        <5>3. QED
          BY <3>3, <5>2 DEF LastOn
      <4>2. j - 1 \in DOMAIN p /\ p[j - 1] = q[j]
        BY <1>3, <4>1
      <4>3. ASSUME NEW i \in DOMAIN p, j - 1 < i PROVE p[i].handle # h
        <5>1. i + 1 \in DOMAIN q /\ j < i + 1 /\ q[i + 1] = p[i]
          BY <1>3, <4>3
        <5>2. QED
          BY <3>3, <5>1 DEF LastOn
      <4>4. LastOn(p, h, j - 1)
        BY <3>3, <4>2, <4>3 DEF LastOn
      <4>5. QED
        BY <3>3, <4>2, <4>4
    <3>4. QED
      BY <2>1, <3>1, <3>2, <3>3 DEF ServedAfter
  <2>2. CASE ~ \E i \in DOMAIN p : p[i].handle = h
    <3>1. \A j \in DOMAIN q : q[j].handle = h => j = 1
      <4>1. TAKE j \in DOMAIN q
      <4>2. CASE j # 1
        <5>1. j - 1 \in DOMAIN p /\ p[j - 1] = q[j]
          BY <1>3, <4>2
        <5>2. QED
          BY <2>2, <5>1
      <4>3. QED
        BY <4>2
    <3>2. h \in ServedAfter(u, p) <=> h \in u
      BY <2>2 DEF ServedAfter
    <3>3. CASE x.handle = h
      <4>1. 1 \in DOMAIN q /\ q[1] = x /\ LastOn(q, h, 1)
        <5>1. \A j \in DOMAIN q : 1 < j => q[j].handle # h
          BY <1>3, <3>1
        <5>2. QED
          BY <1>3, <3>3, <5>1 DEF LastOn
      <4>2. h \in ServedAfter(s, q) <=> x.type = "export"
        <5>1. \A i \in DOMAIN q : LastOn(q, h, i) => i = 1
          BY <3>1 DEF LastOn
        <5>2. QED
          BY <3>3, <4>1, <5>1 DEF ServedAfter
      <4>3. QED
        BY <1>2, <3>2, <3>3, <4>2
    <3>4. CASE x.handle # h
      <4>1. \A j \in DOMAIN q : q[j].handle # h
        BY <1>3, <3>1, <3>4
      <4>2. h \in ServedAfter(s, q) <=> h \in s
        BY <4>1 DEF ServedAfter
      <4>3. QED
        BY <1>2, <3>2, <3>4, <4>2
    <3>5. QED
      BY <3>3, <3>4
  <2>3. QED
    BY <2>1, <2>2
<1>5. ServedAfter(u, p) \subseteq Handles /\ ServedAfter(s, q) \subseteq Handles
  BY DEF ServedAfter
<1>6. ServedAfter(u, p) = ServedAfter(s, q)
  BY <1>4, <1>5
<1>7. QED
  BY <1>1, <1>6

\* It is told more: of each handle of which it is, all of that one kind.
LEMMA ServedMore ==
    ASSUME NEW s, NEW q \in Seq(Objects), NEW r \in Seq(Objects), NEW type, \A i \in DOMAIN r : r[i].type = type
    PROVE  \A h \in Handles :
              h \in ServedAfter(s, q \o r) <=> IF \E i \in DOMAIN r : r[i].handle = h THEN type = "export"
                                               ELSE h \in ServedAfter(s, q)
<1>1. PICK p : p = q \o r
  OBVIOUS
<1>2. /\ Len(q) \in Nat /\ Len(r) \in Nat
      /\ DOMAIN q = 1 .. Len(q) /\ DOMAIN r = 1 .. Len(r) /\ DOMAIN p = 1 .. Len(q) + Len(r)
      /\ \A i \in 1 .. Len(q) : p[i] = q[i]
      /\ \A j \in 1 .. Len(r) : p[Len(q) + j] = r[j]
      /\ \A i \in 1 .. Len(q) + Len(r) : i \in 1 .. Len(q) \/ \E j \in 1 .. Len(r) : i = Len(q) + j
  BY <1>1, JoinIs
<1>3. ASSUME NEW h \in Handles, NEW k \in DOMAIN r, r[k].handle = h
      PROVE  h \in ServedAfter(s, p) <=> type = "export"
  <2>1. Len(q) + k \in DOMAIN p /\ p[Len(q) + k].handle = h
    BY <1>2, <1>3
  <2>2. ASSUME NEW i \in DOMAIN p, LastOn(p, h, i) PROVE p[i].type = type
    <3>1. i \notin 1 .. Len(q)
      <4>1. SUFFICES ASSUME i \in 1 .. Len(q) PROVE FALSE
        OBVIOUS
      <4>2. i < Len(q) + k
        BY <1>2, <4>1
      <4>3. QED
        BY <2>1, <2>2, <4>2 DEF LastOn
    <3>2. PICK j \in 1 .. Len(r) : i = Len(q) + j
      BY <1>2, <3>1
    <3>3. QED
      BY <1>2, <3>2
  <2>3. \E i \in DOMAIN p : LastOn(p, h, i)
    <3> DEFINE B == {b \in Nat : \E i \in DOMAIN p : i + b = Len(q) + Len(r) /\ p[i].handle = h}
    <3>1. \E b : b \in B
      <4>1. Len(r) - k \in Nat /\ (Len(q) + k) + (Len(r) - k) = Len(q) + Len(r)
        BY <1>2
      <4>2. QED
        BY <2>1, <4>1
    <3>2. PICK b \in B : \A c \in B : b <= c
      <4>1. B \subseteq Nat /\ B # {}
        BY <3>1
      <4> HIDE DEF B
      <4>2. QED
        BY <4>1, LeastNat
    <3>3. PICK i \in DOMAIN p : i + b = Len(q) + Len(r) /\ p[i].handle = h
      BY <3>2
    <3>4. ASSUME NEW j \in DOMAIN p, i < j, p[j].handle = h PROVE FALSE
      <4>1. PICK c : c = (Len(q) + Len(r)) - j
        OBVIOUS
      <4>2. c \in Nat /\ j + c = Len(q) + Len(r) /\ c < b
        BY <1>2, <3>2, <3>3, <3>4, <4>1
      <4>3. c \in B
        BY <3>4, <4>2
      <4>4. b <= c /\ b \in Nat
        BY <3>2, <4>3
      <4>5. QED
        BY <4>2, <4>4
    <3>5. QED
      BY <3>3, <3>4 DEF LastOn
  <2>4. QED
    BY <2>1, <2>2, <2>3 DEF ServedAfter
<1>4. ASSUME NEW h \in Handles, \A k \in DOMAIN r : r[k].handle # h
      PROVE  h \in ServedAfter(s, p) <=> h \in ServedAfter(s, q)
  <2>1. ASSUME NEW i \in DOMAIN p, p[i].handle = h PROVE i \in DOMAIN q /\ p[i] = q[i]
    <3>1. CASE i \in 1 .. Len(q)
      BY <1>2, <3>1
    <3>2. ASSUME NEW j \in 1 .. Len(r), i = Len(q) + j PROVE FALSE
      BY <1>2, <1>4, <2>1, <3>2
    <3>3. QED
      BY <1>2, <3>1, <3>2
  <2>2. \A i \in DOMAIN q : i \in DOMAIN p /\ p[i] = q[i]
    BY <1>2
  <2>3. \A i \in DOMAIN q : LastOn(q, h, i) <=> LastOn(p, h, i)
    BY <2>1, <2>2 DEF LastOn
  <2>4. (\E i \in DOMAIN p : p[i].handle = h) <=> (\E i \in DOMAIN q : q[i].handle = h)
    BY <2>1, <2>2
  <2>5. (\E i \in DOMAIN p : p[i].type = "export" /\ LastOn(p, h, i))
          <=> (\E i \in DOMAIN q : q[i].type = "export" /\ LastOn(q, h, i))
    BY <2>1, <2>2, <2>3 DEF LastOn
  <2>6. QED
    BY <2>4, <2>5 DEF ServedAfter
<1>5. QED
  BY <1>1, <1>3, <1>4

----------------------------------------------------------------------------
(* What the steps do to the dialogs and the objects *)

\* Some dialogs end: each is dismissed, or was decided on.
LEMMA DialogsKept ==
    ASSUME PromptTypes, DialogsInv, NEW r \in Seq(Tellings), toShell' = toShell \o r,
           \A i \in DOMAIN r : r[i].type = "dismiss",
           prompt' = prompt, chooser' = chooser, askedBy' = askedBy,
           \A i \in DOMAIN fromShell' : \E j \in DOMAIN fromShell : fromShell'[i] = fromShell[j],
           \A t \in Asking \ Asking' : DismissedAfter(r, 0, t) \/ DecidedOn(fromShell, "prompt", t),
           \A t \in Choosing \ Choosing' : DismissedAfter(r, 0, t) \/ DecidedOn(fromShell, "chooser", t)
    PROVE  DialogsInv'
<1>1. toShell \in Seq(Tellings) /\ Len(askedBy) \in Nat /\ Len(askedBy) <= Len(askedBy)
  BY LenProperties DEF PromptTypes, LedgerTypes, ShellTypes
<1>2. PICK a, b, g : a = Asking' /\ b = Choosing' /\ g = fromShell'
  OBVIOUS
<1>3. Truthful("prompt", toShell \o r, prompt, a, g, Len(askedBy))
  BY <1>1, <1>2, MoreTold DEF DialogsInv
<1>4. Truthful("chooser", toShell \o r, chooser, b, g, Len(askedBy))
  BY <1>1, <1>2, MoreTold DEF DialogsInv
<1>5. QED
  BY <1>2, <1>3, <1>4 DEF DialogsInv

\* Nothing is told and no dialog ends.
LEMMA DialogsStay ==
    ASSUME PromptTypes, DialogsInv,
           toShell' = toShell, prompt' = prompt, chooser' = chooser, askedBy' = askedBy,
           \A i \in DOMAIN fromShell' : \E j \in DOMAIN fromShell : fromShell'[i] = fromShell[j],
           \A t \in Asking \ Asking' : DecidedOn(fromShell, "prompt", t),
           \A t \in Choosing \ Choosing' : DecidedOn(fromShell, "chooser", t)
    PROVE  DialogsInv'
<1>1. <<>> \in Seq(Tellings) /\ \A i \in DOMAIN <<>> : <<>>[i].type = "dismiss"
  OBVIOUS
<1>2. toShell' = toShell \o <<>>
  BY DEF PromptTypes, ShellTypes
<1>3. QED
  BY <1>1, <1>2, DialogsKept

LEMMA ServedIs == ASSUME NEW s, NEW q PROVE ServedAfter(s, q) \subseteq Handles
BY DEF ServedAfter

\* Some requests end: those whose object is taken off the bus, and those that are denied.
LEMMA ObjectsKept ==
    ASSUME PromptTypes, ObjectsInv, NEW r \in Seq(Objects), bridge' = bridge \o r,
           \A i \in DOMAIN r : r[i].type = "unexport",
           served' = served, doubled' = doubled, denied \subseteq denied',
           DOMAIN shots' \subseteq DOMAIN shots, DOMAIN choosers' \subseteq DOMAIN choosers,
           \A h \in (DOMAIN shots \cup DOMAIN choosers) \ doubled :
              IF \E i \in DOMAIN r : r[i].handle = h THEN h \notin DOMAIN shots' \cup DOMAIN choosers'
              ELSE h \in DOMAIN shots' \cup DOMAIN choosers' \cup denied'
    PROVE  ObjectsInv'
<1>1. PICK s : s = ServedAfter(served, bridge) /\ s \subseteq Handles
  BY ServedIs
<1>2. PICK u : u = ServedAfter(served, bridge \o r) /\ u \subseteq Handles
  BY ServedIs
<1>3. \A h \in Handles : h \in u <=> IF \E i \in DOMAIN r : r[i].handle = h THEN "unexport" = "export" ELSE h \in s
  <2>1. bridge \in Seq(Objects)
    BY DEF PromptTypes, BusTypes
  <2>2. \A h \in Handles : h \in ServedAfter(served, bridge \o r) <=>
           IF \E i \in DOMAIN r : r[i].handle = h THEN "unexport" = "export" ELSE h \in ServedAfter(served, bridge)
    BY <2>1, ServedMore
  <2>3. QED
    BY <1>1, <1>2, <2>2
<1>4. DOMAIN shots \cup DOMAIN choosers \subseteq Handles
  BY DEF PromptTypes, LedgerTypes, Table
<1>5. (DOMAIN shots' \cup DOMAIN choosers') \ doubled \subseteq u
  BY <1>1, <1>3, <1>4 DEF ObjectsInv
<1>6. u \ doubled \subseteq DOMAIN shots' \cup DOMAIN choosers' \cup denied'
  BY <1>1, <1>2, <1>3 DEF ObjectsInv
<1>7. DOMAIN shots' \cap DOMAIN choosers' \subseteq doubled
  BY DEF ObjectsInv
<1>8. ServedAfter(served, bridge)' = u
  BY <1>2 DEF ServedAfter, LastOn
<1>9. QED
  BY <1>5, <1>6, <1>7, <1>8 DEF ObjectsInv

LEMMA ObjectsStay ==
    ASSUME PromptTypes, ObjectsInv, bridge' = bridge, served' = served, doubled' = doubled, denied \subseteq denied',
           DOMAIN shots' \subseteq DOMAIN shots, DOMAIN choosers' \subseteq DOMAIN choosers,
           DOMAIN shots \cup DOMAIN choosers \subseteq DOMAIN shots' \cup DOMAIN choosers' \cup denied'
    PROVE  ObjectsInv'
<1>1. PICK r : r = <<>>
  OBVIOUS
<1>2. r \in Seq(Objects) /\ DOMAIN r = {}
  BY <1>1, SmallSeqs
<1>5. bridge' = bridge \o r /\ \A i \in DOMAIN r : r[i].type = "unexport"
  <2>1. bridge \in Seq(Objects)
    BY DEF PromptTypes, BusTypes
  <2>2. bridge = bridge \o <<>>
    BY <2>1
  <2>3. QED
    BY <1>1, <1>2, <2>2
<1>3. \A h \in (DOMAIN shots \cup DOMAIN choosers) \ doubled :
         IF \E i \in DOMAIN r : r[i].handle = h THEN h \notin DOMAIN shots' \cup DOMAIN choosers'
         ELSE h \in DOMAIN shots' \cup DOMAIN choosers' \cup denied'
  BY <1>2
<1>4. QED
  BY <1>2, <1>3, <1>5, ObjectsKept

\* A request begins, and its object goes up.
LEMMA ObjectsMore ==
    ASSUME PromptTypes, ObjectsInv, NEW h \in Handles, bridge' = bridge \o <<Object("export", h)>>,
           served' = served, denied' = denied \ {h},
           DOMAIN shots' \cup DOMAIN choosers' = DOMAIN shots \cup DOMAIN choosers \cup {h},
           DOMAIN shots' \cap DOMAIN choosers' \subseteq doubled', doubled \subseteq doubled'
    PROVE  ObjectsInv'
<1>1. PICK s : s = ServedAfter(served, bridge) /\ s \subseteq Handles
  BY ServedIs
<1>2. PICK u : u = ServedAfter(served, bridge \o <<Object("export", h)>>) /\ u \subseteq Handles
  BY ServedIs
<1>3. PICK r : r = <<Object("export", h)>>
  OBVIOUS
<1>4. r \in Seq(Objects) /\ DOMAIN r = {1} /\ r[1].type = "export" /\ r[1].handle = h
  <2>1. PICK x : x = Object("export", h) /\ x.type = "export" /\ x.handle = h
    BY DEF Object
  <2>2. r \in Seq(Objects)
    BY <1>3, SmallSeqs
  <2>3. r = <<x>>
    BY <1>3, <2>1
  <2>4. QED
    BY <2>1, <2>2, <2>3
<1>5. \A k \in Handles : k \in u <=> IF \E i \in DOMAIN r : r[i].handle = k THEN "export" = "export" ELSE k \in s
  <2>1. \A i \in DOMAIN r : r[i].type = "export"
    BY <1>4
  <2>2. bridge \in Seq(Objects)
    BY DEF PromptTypes, BusTypes
  <2>3. \A k \in Handles : k \in ServedAfter(served, bridge \o r) <=>
           IF \E i \in DOMAIN r : r[i].handle = k THEN "export" = "export" ELSE k \in ServedAfter(served, bridge)
    BY <1>4, <2>1, <2>2, ServedMore
  <2>4. QED
    BY <1>1, <1>2, <1>3, <2>3
<1>6. \A k \in Handles : k \in u <=> k = h \/ k \in s
  BY <1>4, <1>5
<1>7. DOMAIN shots \cup DOMAIN choosers \subseteq Handles
  BY DEF PromptTypes, LedgerTypes, Table
<1>8. (DOMAIN shots' \cup DOMAIN choosers') \ doubled' \subseteq u
  BY <1>1, <1>6, <1>7 DEF ObjectsInv
<1>9. u \ doubled' \subseteq DOMAIN shots' \cup DOMAIN choosers' \cup denied'
  BY <1>1, <1>2, <1>6 DEF ObjectsInv
<1>10. ServedAfter(served, bridge)' = u
  BY <1>2 DEF ServedAfter, LastOn
<1>11. QED
  BY <1>8, <1>9, <1>10 DEF ObjectsInv

FollowsInv == DialogsInv /\ ObjectsInv

\* The frontend, the start of the backend, the watch and the workers touch none of it.
LEMMA ElsewhereFollows ==
    ASSUME FollowsInv,
           UNCHANGED <<toShell, prompt, chooser, shots, choosers, fromShell, askedBy, served, bridge, doubled, denied>>
    PROVE  FollowsInv'
<1>1. Asking' = Asking /\ Choosing' = Choosing
  BY DEF Asking, Choosing, Waiting
<1>2. DialogsInv'
  <2>1. PICK a, b : a = Asking' /\ b = Choosing'
    OBVIOUS
  <2>2. Truthful("prompt", toShell, prompt, a, fromShell, Len(askedBy))
        /\ Truthful("chooser", toShell, chooser, b, fromShell, Len(askedBy))
    BY <1>1, <2>1 DEF FollowsInv, DialogsInv
  <2>3. QED
    BY <2>1, <2>2 DEF DialogsInv
<1>3. ServedAfter(served, bridge)' = ServedAfter(served, bridge)
  BY DEF ServedAfter, LastOn
<1>4. ObjectsInv'
  BY <1>3 DEF FollowsInv, ObjectsInv
<1>5. QED
  BY <1>2, <1>4 DEF FollowsInv

LEMMA BridgeFollows == ASSUME PromptInv, FollowsInv, PerformBridgeAction PROVE FollowsInv'
<1>1. /\ bridge # <<>> /\ bridge' = Tail(bridge)
      /\ served' = IF Head(bridge).type = "export" THEN served \cup {Head(bridge).handle}
                   ELSE served \ {Head(bridge).handle}
      /\ UNCHANGED <<toShell, prompt, chooser, shots, choosers, fromShell, askedBy, doubled, denied>>
  BY DEF PerformBridgeAction, ledgerVars, shellVars
<1>2. bridge \in Seq(Objects)
  BY DEF PromptInv, PromptTypes, BusTypes
<1>3. PICK u : u = served'
  OBVIOUS
<1>4. ServedAfter(u, Tail(bridge)) = ServedAfter(served, bridge)
  BY <1>1, <1>2, <1>3, Performed
<1>5. ServedAfter(served, bridge)' = ServedAfter(u, Tail(bridge))
  BY <1>1, <1>3 DEF ServedAfter, LastOn
<1>6. ObjectsInv'
  BY <1>1, <1>4, <1>5 DEF FollowsInv, ObjectsInv
<1>7. Asking' = Asking /\ Choosing' = Choosing
  BY <1>1 DEF Asking, Choosing, Waiting
<1>8. DialogsInv'
  BY <1>1, <1>7, DialogsStay DEF FollowsInv, PromptInv
<1>9. QED
  BY <1>6, <1>8 DEF FollowsInv

LEMMA ShellHearsFollows == ASSUME PromptInv, FollowsInv, ShellHears PROVE FollowsInv'
<1>1. PICK x : x = Head(toShell)
  OBVIOUS
<1>2. /\ toShell # <<>> /\ toShell' = Tail(toShell)
      /\ prompt' = ScreenshotPrompt(x) /\ chooser' = FileChooserRequest(x)
      /\ UNCHANGED <<shots, choosers, fromShell, askedBy, served, bridge, doubled, denied>>
  BY <1>1 DEF ShellHears, ledgerVars
<1>3. toShell \in Seq(Tellings) /\ x \in Tellings /\ Len(askedBy) \in Nat
  BY <1>1, <1>2, TailIs, LenProperties DEF PromptInv, PromptTypes, LedgerTypes, ShellTypes
<1>4. x.type \in {"prompt", "chooser", "dismiss"}
  BY <1>3 DEF Tellings
<1>5. PICK p, c : p = prompt' /\ c = chooser'
  OBVIOUS
<1>6. \/ x.type = "prompt" /\ p = x.token
      \/ x.type = "dismiss" /\ prompt = x.token /\ p = 0
      \/ x.type # "prompt" /\ ~ (x.type = "dismiss" /\ prompt = x.token) /\ p = prompt
  BY <1>2, <1>4, <1>5 DEF ScreenshotPrompt
<1>7. \/ x.type = "chooser" /\ c = x.token
      \/ x.type = "dismiss" /\ chooser = x.token /\ c = 0
      \/ x.type # "chooser" /\ ~ (x.type = "dismiss" /\ chooser = x.token) /\ c = chooser
  BY <1>2, <1>4, <1>5 DEF FileChooserRequest
<1>8. Truthful("prompt", toShell, prompt, Asking, fromShell, Len(askedBy))
      /\ Truthful("chooser", toShell, chooser, Choosing, fromShell, Len(askedBy))
  BY DEF FollowsInv, DialogsInv
<1>9. Truthful("prompt", Tail(toShell), p, Asking, fromShell, Len(askedBy))
  BY <1>1, <1>2, <1>3, <1>6, <1>8, ReadTold
<1>10. Truthful("chooser", Tail(toShell), c, Choosing, fromShell, Len(askedBy))
  BY <1>1, <1>2, <1>3, <1>7, <1>8, ReadTold
<1>11. Asking' = Asking /\ Choosing' = Choosing
  BY <1>2 DEF Asking, Choosing, Waiting
<1>12. DialogsInv'
  BY <1>2, <1>5, <1>9, <1>10, <1>11 DEF DialogsInv
<1>13. ObjectsInv'
  BY <1>2, ObjectsStay DEF PromptInv, FollowsInv
<1>14. QED
  BY <1>12, <1>13 DEF FollowsInv

LEMMA DecideFollows ==
    ASSUME PromptInv, FollowsInv, NEW outcome \in {"approved", "cancelled"},
           DecidePrompt(outcome) \/ DecideChooser(outcome)
    PROVE  FollowsInv'
<1>1. /\ UNCHANGED <<toShell, shots, choosers, askedBy, served, bridge, doubled, denied>>
  BY DEF DecidePrompt, DecideChooser, Told, ledgerVars
<1>2. PICK x : /\ x \in Decisions /\ fromShell' = Append(fromShell, x)
               /\ \/ /\ x.dialog = "prompt" /\ prompt # 0 /\ x.token = prompt /\ prompt' = 0 /\ chooser' = chooser
                  \/ /\ x.dialog = "chooser" /\ chooser # 0 /\ x.token = chooser /\ chooser' = 0 /\ prompt' = prompt
  <2>1. prompt \in Nat /\ chooser \in Nat
    BY DEF PromptInv, PromptTypes, ShellTypes
  <2>2. CASE DecidePrompt(outcome)
    <3>1. PICK x : x = [dialog |-> "prompt", token |-> prompt, outcome |-> outcome]
      OBVIOUS
    <3>2. x \in Decisions /\ x.dialog = "prompt" /\ x.token = prompt
      BY <2>1, <3>1 DEF Decisions
    <3>3. fromShell' = Append(fromShell, x) /\ prompt # 0 /\ prompt' = 0 /\ chooser' = chooser
      BY <2>2, <3>1 DEF DecidePrompt, Told
    <3>4. QED
      BY <3>2, <3>3
  <2>3. CASE DecideChooser(outcome)
    <3>1. PICK x : x = [dialog |-> "chooser", token |-> chooser, outcome |-> outcome]
      OBVIOUS
    <3>2. x \in Decisions /\ x.dialog = "chooser" /\ x.token = chooser
      BY <2>1, <3>1 DEF Decisions
    <3>3. fromShell' = Append(fromShell, x) /\ chooser # 0 /\ chooser' = 0 /\ prompt' = prompt
      BY <2>3, <3>1 DEF DecideChooser, Told
    <3>4. QED
      BY <3>2, <3>3
  <2>4. QED
    BY <2>2, <2>3
<1>3. toShell \in Seq(Tellings) /\ fromShell \in Seq(Decisions) /\ Len(askedBy) \in Nat
  BY LenProperties DEF PromptInv, PromptTypes, LedgerTypes, ShellTypes
<1>4. Truthful("prompt", toShell, prompt, Asking, fromShell, Len(askedBy))
      /\ Truthful("chooser", toShell, chooser, Choosing, fromShell, Len(askedBy))
  BY DEF FollowsInv, DialogsInv
<1>5. x.token \in 1 .. Len(askedBy)
  BY <1>2, <1>4 DEF Truthful
<1>6. PICK p, c : p = prompt' /\ c = chooser'
  OBVIOUS
<1>7. Truthful("prompt", toShell, p, Asking, Append(fromShell, x), Len(askedBy))
  BY <1>2, <1>3, <1>4, <1>5, <1>6, Decides
<1>8. Truthful("chooser", toShell, c, Choosing, Append(fromShell, x), Len(askedBy))
  BY <1>2, <1>3, <1>4, <1>5, <1>6, Decides
<1>9. Asking' = Asking /\ Choosing' = Choosing
  BY <1>1 DEF Asking, Choosing, Waiting
<1>10. DialogsInv'
  BY <1>1, <1>2, <1>6, <1>7, <1>8, <1>9 DEF DialogsInv
<1>11. ObjectsInv'
  BY <1>1, ObjectsStay DEF PromptInv, FollowsInv
<1>12. QED
  BY <1>10, <1>11 DEF FollowsInv

----------------------------------------------------------------------------
(* What the calls do to the dialogs and the objects *)

\* The loop refuses a call, or has nothing to do.
LEMMA IdleFollows ==
    ASSUME PromptInv, FollowsInv, Taken(<<>>, <<>>), UNCHANGED <<shots, choosers, askedBy, denied, doubled>>
    PROVE  FollowsInv'
<1>1. PromptTypes
  BY DEF PromptInv
<1>2. /\ bridge' = bridge \o <<>> /\ toShell' = toShell \o <<>>
      /\ UNCHANGED <<served, prompt, chooser, fromShell>>
  BY DEF Taken, shellVars
<1>3. bridge' = bridge /\ toShell' = toShell
  BY <1>1, <1>2 DEF PromptTypes, BusTypes, ShellTypes
<1>4. QED
  BY <1>2, <1>3, ElsewhereFollows

LEMMA OpenScreenshotFollows ==
    ASSUME PromptInv, FollowsInv, NEW frozen \in BOOLEAN, OpenScreenshot(frozen) PROVE FollowsInv'
<1>1. PICK e : e = Head(calls)
  OBVIOUS
<1>2. PICK token : token = Len(askedBy) + 1
  OBVIOUS
<1>3. PICK x : x = [call |-> e.call, kind |-> e.type, token |-> token, stage |-> "consent"]
  OBVIOUS
<1>20. x.token = token /\ x.stage = "consent"
  BY <1>3
<1>4. /\ CallIs(CaptureKinds) /\ ~ RequestExists(e.type, e.handle)
      /\ Taken(<<Object("export", e.handle)>>, <<Shell("prompt", token)>>)
      /\ askedBy' = Append(askedBy, e.call)
      /\ shots' = With(shots, e.handle, x)
      /\ denied' = denied \ {e.handle}
      /\ doubled' = doubled \cup ({e.handle} \cap DOMAIN choosers)
      /\ choosers' = choosers
  BY <1>1, <1>2, <1>3 DEF OpenScreenshot
<1>5. e.type \in CaptureKinds /\ e.handle \notin DOMAIN shots
  BY <1>1, <1>4 DEF CallIs, RequestExists, CaptureKinds
<1>6. PromptTypes /\ toShell \in Seq(Tellings) /\ Len(askedBy) \in Nat /\ token \in Nat
  BY <1>2, LenProperties DEF PromptInv, PromptTypes, LedgerTypes, ShellTypes
<1>7. e.handle \in Handles /\ e.call \in Nat
  <2>1. calls # <<>> /\ calls \in Seq(Messages)
    BY <1>4, <1>6 DEF CallIs, PromptTypes, BusTypes
  <2>2. e \in Messages
    BY <1>1, <2>1, TailIs
  <2>3. e \in Requests
    BY <1>5, <2>2 DEF Messages, Requests, Closes, Owners, CaptureKinds
  <2>4. QED
    BY <2>3 DEF Requests
<1>8. /\ bridge' = bridge \o <<Object("export", e.handle)>> /\ toShell' = toShell \o <<Shell("prompt", token)>>
      /\ UNCHANGED <<served, prompt, chooser, fromShell>>
  BY <1>4 DEF Taken, shellVars
<1>9. /\ DOMAIN shots' = DOMAIN shots \cup {e.handle} /\ shots'[e.handle] = x
      /\ \A h \in DOMAIN shots \ {e.handle} : shots'[h] = shots[h]
  <2>1. PICK g : g = With(shots, e.handle, x)
    OBVIOUS
  <2>2. /\ DOMAIN g = DOMAIN shots \cup {e.handle} /\ g[e.handle] = x
        /\ \A h \in DOMAIN shots \ {e.handle} : g[h] = shots[h]
    BY <2>1 DEF With
  <2>3. QED
    BY <1>4, <2>1, <2>2
<1>10. ObjectsInv'
  <2>1. DOMAIN shots' \cap DOMAIN choosers' \subseteq doubled'
    BY <1>4, <1>9 DEF FollowsInv, ObjectsInv
  <2>2. ObjectsInv
    BY DEF FollowsInv
  <2>3. DOMAIN shots' \cup DOMAIN choosers' = DOMAIN shots \cup DOMAIN choosers \cup {e.handle}
    BY <1>4, <1>9
  <2>4. QED
    BY <1>4, <1>6, <1>7, <1>8, <2>1, <2>2, <2>3, ObjectsMore
<1>11. Len(askedBy') = token
  <2>1. askedBy \in Seq(Nat)
    BY <1>6 DEF PromptTypes, LedgerTypes
  <2>2. QED
    BY <1>2, <1>4, <1>7, <2>1, AppendIs
<1>12. PICK a, b : a = Asking' /\ b = Choosing'
  OBVIOUS
<1>13. Asking \subseteq a /\ token \in a /\ b = Choosing
  <2>1. \A h \in Waiting(shots) : h \in DOMAIN shots /\ shots[h].stage = "consent" /\ h # e.handle
    BY <1>5 DEF Waiting
  <2>2. \A h \in Waiting(shots) : h \in DOMAIN shots' /\ shots'[h].stage = "consent" /\ shots'[h].token = shots[h].token
    BY <1>9, <2>1
  <2>3. a = {shots'[h].token : h \in {k \in DOMAIN shots' : shots'[k].stage = "consent"}}
    BY <1>12 DEF Asking, Waiting
  <2>4. e.handle \in DOMAIN shots' /\ shots'[e.handle].stage = "consent" /\ shots'[e.handle].token = token
    BY <1>9, <1>20
  <2>5. b = Choosing
    BY <1>4, <1>12 DEF Choosing
  <2>6. QED
    BY <2>2, <2>3, <2>4, <2>5 DEF Asking
<1>21. PICK y : y = Shell("prompt", token)
  OBVIOUS
<1>14. y.type = "prompt" /\ y.token = token /\ y \in Tellings
  BY <1>6, <1>21 DEF Shell, Tellings
<1>15. Truthful("prompt", toShell, prompt, Asking, fromShell, Len(askedBy))
       /\ Truthful("chooser", toShell, chooser, Choosing, fromShell, Len(askedBy))
  BY DEF FollowsInv, DialogsInv
<1>16. Truthful("prompt", toShell \o <<y>>, prompt, a, fromShell, token)
  BY <1>2, <1>6, <1>13, <1>14, <1>15, NewTold
<1>17. Truthful("chooser", toShell \o <<y>>, chooser, b, fromShell, token)
  <2>1. PICK r : r = <<y>>
    OBVIOUS
  <2>2. r \in Seq(Tellings) /\ \A i \in DOMAIN r : r[i].type # "chooser"
    BY <1>14, <2>1
  <2>3. Len(askedBy) <= token
    BY <1>2, <1>6
  <2>4. \A i \in DOMAIN fromShell : \E j \in DOMAIN fromShell : fromShell[i] = fromShell[j]
    OBVIOUS
  <2>5. Truthful("chooser", toShell \o r, chooser, b, fromShell, token)
    BY <1>6, <1>13, <1>15, <2>2, <2>3, <2>4, MoreTold
  <2>6. QED
    BY <2>1, <2>5
<1>18. DialogsInv'
  BY <1>8, <1>11, <1>12, <1>16, <1>17, <1>21 DEF DialogsInv
<1>19. QED
  BY <1>10, <1>18 DEF FollowsInv

LEMMA OpenFileChooserFollows == ASSUME PromptInv, FollowsInv, OpenFileChooser PROVE FollowsInv'
<1>1. PICK e : e = Head(calls)
  OBVIOUS
<1>2. PICK token : token = Len(askedBy) + 1
  OBVIOUS
<1>3. PICK x : x = [call |-> e.call, token |-> token]
  OBVIOUS
<1>20. x.token = token
  BY <1>3
<1>4. /\ CallIs({"file"}) /\ ~ RequestExists("file", e.handle)
      /\ Taken(<<Object("export", e.handle)>>, <<Shell("chooser", token)>>)
      /\ askedBy' = Append(askedBy, e.call)
      /\ choosers' = With(choosers, e.handle, x)
      /\ denied' = denied \ {e.handle}
      /\ doubled' = doubled \cup ({e.handle} \cap DOMAIN shots)
      /\ shots' = shots
  BY <1>1, <1>2, <1>3 DEF OpenFileChooser
<1>5. e.type = "file" /\ e.handle \notin DOMAIN choosers
  BY <1>1, <1>4 DEF CallIs, RequestExists
<1>6. PromptTypes /\ toShell \in Seq(Tellings) /\ Len(askedBy) \in Nat /\ token \in Nat
  BY <1>2, LenProperties DEF PromptInv, PromptTypes, LedgerTypes, ShellTypes
<1>7. e.handle \in Handles /\ e.call \in Nat
  <2>1. calls # <<>> /\ calls \in Seq(Messages)
    BY <1>4, <1>6 DEF CallIs, PromptTypes, BusTypes
  <2>2. e \in Messages
    BY <1>1, <2>1, TailIs
  <2>3. e \in Requests
    BY <1>5, <2>2 DEF Messages, Requests, Closes, Owners, CaptureKinds
  <2>4. QED
    BY <2>3 DEF Requests
<1>8. /\ bridge' = bridge \o <<Object("export", e.handle)>> /\ toShell' = toShell \o <<Shell("chooser", token)>>
      /\ UNCHANGED <<served, prompt, chooser, fromShell>>
  BY <1>4 DEF Taken, shellVars
<1>9. /\ DOMAIN choosers' = DOMAIN choosers \cup {e.handle} /\ choosers'[e.handle] = x
      /\ \A h \in DOMAIN choosers \ {e.handle} : choosers'[h] = choosers[h]
  <2>1. PICK g : g = With(choosers, e.handle, x)
    OBVIOUS
  <2>2. /\ DOMAIN g = DOMAIN choosers \cup {e.handle} /\ g[e.handle] = x
        /\ \A h \in DOMAIN choosers \ {e.handle} : g[h] = choosers[h]
    BY <2>1 DEF With
  <2>3. QED
    BY <1>4, <2>1, <2>2
<1>10. ObjectsInv'
  <2>1. DOMAIN shots' \cap DOMAIN choosers' \subseteq doubled'
    BY <1>4, <1>9 DEF FollowsInv, ObjectsInv
  <2>2. ObjectsInv
    BY DEF FollowsInv
  <2>3. DOMAIN shots' \cup DOMAIN choosers' = DOMAIN shots \cup DOMAIN choosers \cup {e.handle}
    BY <1>4, <1>9
  <2>4. QED
    BY <1>4, <1>6, <1>7, <1>8, <2>1, <2>2, <2>3, ObjectsMore
<1>11. Len(askedBy') = token
  <2>1. askedBy \in Seq(Nat)
    BY <1>6 DEF PromptTypes, LedgerTypes
  <2>2. QED
    BY <1>2, <1>4, <1>7, <2>1, AppendIs
<1>12. PICK a, b : a = Asking' /\ b = Choosing'
  OBVIOUS
<1>13. a = Asking /\ Choosing \subseteq b /\ token \in b
  <2>1. \A h \in DOMAIN choosers : h \in DOMAIN choosers' /\ choosers'[h].token = choosers[h].token
    BY <1>5, <1>9
  <2>2. b = {choosers'[h].token : h \in DOMAIN choosers'}
    BY <1>12 DEF Choosing
  <2>3. a = Asking
    BY <1>4, <1>12 DEF Asking, Waiting
  <2>4. e.handle \in DOMAIN choosers' /\ choosers'[e.handle].token = token
    BY <1>9, <1>20
  <2>5. QED
    BY <2>1, <2>2, <2>3, <2>4 DEF Choosing
<1>21. PICK y : y = Shell("chooser", token)
  OBVIOUS
<1>14. y.type = "chooser" /\ y.token = token /\ y \in Tellings
  BY <1>6, <1>21 DEF Shell, Tellings
<1>15. Truthful("prompt", toShell, prompt, Asking, fromShell, Len(askedBy))
       /\ Truthful("chooser", toShell, chooser, Choosing, fromShell, Len(askedBy))
  BY DEF FollowsInv, DialogsInv
<1>16. Truthful("chooser", toShell \o <<y>>, chooser, b, fromShell, token)
  BY <1>2, <1>6, <1>13, <1>14, <1>15, NewTold
<1>17. Truthful("prompt", toShell \o <<y>>, prompt, a, fromShell, token)
  <2>1. PICK r : r = <<y>>
    OBVIOUS
  <2>2. r \in Seq(Tellings) /\ \A i \in DOMAIN r : r[i].type # "prompt"
    BY <1>14, <2>1
  <2>3. Len(askedBy) <= token
    BY <1>2, <1>6
  <2>4. \A i \in DOMAIN fromShell : \E j \in DOMAIN fromShell : fromShell[i] = fromShell[j]
    OBVIOUS
  <2>5. Truthful("prompt", toShell \o r, prompt, a, fromShell, token)
    BY <1>6, <1>13, <1>15, <2>2, <2>3, <2>4, MoreTold
  <2>6. QED
    BY <2>1, <2>5
<1>18. DialogsInv'
  BY <1>8, <1>11, <1>12, <1>16, <1>17, <1>21 DEF DialogsInv
<1>19. QED
  BY <1>10, <1>18 DEF FollowsInv

\* One entry of a table goes: the tokens of the others stay.
LEMMA AskingWithout ==
    ASSUME NEW h \in DOMAIN shots, shots' = Without(shots, h), NEW t \in Asking \ Asking'
    PROVE  shots[h].stage = "consent" /\ t = shots[h].token
<1>1. DOMAIN shots' = DOMAIN shots \ {h} /\ \A k \in DOMAIN shots \ {h} : shots'[k] = shots[k]
  BY WithoutIs
<1>2. PICK k \in DOMAIN shots : shots[k].stage = "consent" /\ t = shots[k].token
  BY DEF Asking, Waiting
<1>3. PICK a : a = Asking'
  OBVIOUS
<1>4. a = {shots'[j].token : j \in {i \in DOMAIN shots' : shots'[i].stage = "consent"}}
  BY <1>3 DEF Asking, Waiting
<1>5. t \notin a
  BY <1>3
<1>6. k = h
  BY <1>1, <1>2, <1>4, <1>5
<1>7. QED
  BY <1>2, <1>6

LEMMA ChoosingWithout ==
    ASSUME NEW h \in DOMAIN choosers, choosers' = Without(choosers, h), NEW t \in Choosing \ Choosing'
    PROVE  t = choosers[h].token
<1>1. DOMAIN choosers' = DOMAIN choosers \ {h} /\ \A k \in DOMAIN choosers \ {h} : choosers'[k] = choosers[k]
  BY WithoutIs
<1>2. PICK k \in DOMAIN choosers : t = choosers[k].token
  BY DEF Choosing
<1>3. PICK a : a = Choosing'
  OBVIOUS
<1>4. a = {choosers'[j].token : j \in DOMAIN choosers'}
  BY <1>3 DEF Choosing
<1>5. t \notin a
  BY <1>3
<1>6. k = h
  BY <1>1, <1>2, <1>4, <1>5
<1>7. QED
  BY <1>2, <1>6

\* One dialog is dismissed.
LEMMA OneDismissed ==
    ASSUME NEW t \in Nat, NEW r, r = <<Shell("dismiss", t)>>
    PROVE  r \in Seq(Tellings) /\ (\A i \in DOMAIN r : r[i].type = "dismiss") /\ DismissedAfter(r, 0, t)
<1>1. PICK x : x = Shell("dismiss", t) /\ x \in Tellings /\ x.type = "dismiss" /\ x.token = t
  BY DEF Shell, Tellings
<1>2. r = <<x>>
  BY <1>1
<1>3. r \in Seq(Tellings) /\ DOMAIN r = {1} /\ r[1] = x
  BY <1>1, <1>2
<1>4. QED
  BY <1>1, <1>3 DEF DismissedAfter

LEMMA OneUnexported ==
    ASSUME NEW h \in Handles, NEW r, r = <<Object("unexport", h)>>
    PROVE  /\ r \in Seq(Objects) /\ \A i \in DOMAIN r : r[i].type = "unexport"
           /\ \A k : (\E i \in DOMAIN r : r[i].handle = k) <=> k = h
<1>1. PICK x : x = Object("unexport", h) /\ x \in Objects /\ x.type = "unexport" /\ x.handle = h
  BY DEF Object, Objects
<1>2. r = <<x>>
  BY <1>1
<1>3. r \in Seq(Objects) /\ DOMAIN r = {1} /\ r[1] = x
  BY <1>1, <1>2
<1>4. QED
  BY <1>1, <1>3

LEMMA CloseScreenshotFollows == ASSUME PromptInv, FollowsInv, CloseScreenshot PROVE FollowsInv'
<1>1. PICK h : h = Head(calls).handle
  OBVIOUS
<1>2. PICK r, u : /\ u = <<Object("unexport", h)>>
                  /\ r = IF shots[h].stage = "consent" THEN <<Shell("dismiss", shots[h].token)>> ELSE <<>>
  OBVIOUS
<1>3. /\ h \in DOMAIN shots /\ Taken(u, r) /\ shots' = Without(shots, h)
      /\ UNCHANGED <<choosers, askedBy, denied, doubled>>
  BY <1>1, <1>2 DEF CloseScreenshot
<1>4. PromptTypes /\ DialogsInv /\ ObjectsInv /\ h \in Handles /\ shots[h].token \in Nat
  BY <1>3 DEF PromptInv, FollowsInv, PromptTypes, LedgerTypes, Table, Shots
<1>5. /\ bridge' = bridge \o u /\ toShell' = toShell \o r
      /\ UNCHANGED <<served, prompt, chooser, fromShell>>
  BY <1>3 DEF Taken, shellVars
<1>6. DOMAIN shots' = DOMAIN shots \ {h}
  BY <1>3, WithoutIs
<1>7. ObjectsInv'
  <2>1. /\ u \in Seq(Objects) /\ \A i \in DOMAIN u : u[i].type = "unexport"
        /\ \A k : (\E i \in DOMAIN u : u[i].handle = k) <=> k = h
    BY <1>2, <1>4, OneUnexported
  <2>2. \A k \in (DOMAIN shots \cup DOMAIN choosers) \ doubled :
           IF \E i \in DOMAIN u : u[i].handle = k THEN k \notin DOMAIN shots' \cup DOMAIN choosers'
           ELSE k \in DOMAIN shots' \cup DOMAIN choosers' \cup denied'
    BY <1>3, <1>4, <1>6, <2>1 DEF ObjectsInv
  <2>3. QED
    BY <1>3, <1>4, <1>5, <1>6, <2>1, <2>2, ObjectsKept
<1>8. DialogsInv'
  <2>1. /\ r \in Seq(Tellings) /\ \A i \in DOMAIN r : r[i].type = "dismiss"
        /\ shots[h].stage = "consent" => DismissedAfter(r, 0, shots[h].token)
    <3>1. CASE shots[h].stage = "consent"
      BY <1>2, <1>4, <3>1, OneDismissed
    <3>2. CASE shots[h].stage # "consent"
      <4>1. r = <<>>
        BY <1>2, <3>2
      <4>2. QED
        BY <3>2, <4>1
    <3>3. QED
      BY <3>1, <3>2
  <2>2. \A t \in Asking \ Asking' : DismissedAfter(r, 0, t)
    BY <1>3, <2>1, AskingWithout
  <2>3. Choosing' = Choosing
    BY <1>3 DEF Choosing
  <2>4. \A i \in DOMAIN fromShell' : \E j \in DOMAIN fromShell : fromShell'[i] = fromShell[j]
    BY <1>5
  <2>5. QED
    BY <1>3, <1>4, <1>5, <2>1, <2>2, <2>3, <2>4, DialogsKept
<1>9. QED
  BY <1>7, <1>8 DEF FollowsInv

LEMMA CloseFileChooserFollows == ASSUME PromptInv, FollowsInv, CloseFileChooser PROVE FollowsInv'
<1>1. PICK h : h = Head(calls).handle
  OBVIOUS
<1>2. PICK r, u : u = <<Object("unexport", h)>> /\ r = <<Shell("dismiss", choosers[h].token)>>
  OBVIOUS
<1>3. /\ h \notin DOMAIN shots /\ h \in DOMAIN choosers /\ Taken(u, r) /\ choosers' = Without(choosers, h)
      /\ UNCHANGED <<shots, askedBy, denied, doubled>>
  BY <1>1, <1>2 DEF CloseFileChooser
<1>4. PromptTypes /\ DialogsInv /\ ObjectsInv /\ h \in Handles /\ choosers[h].token \in Nat
  BY <1>3 DEF PromptInv, FollowsInv, PromptTypes, LedgerTypes, Table, Choosers
<1>5. /\ bridge' = bridge \o u /\ toShell' = toShell \o r
      /\ UNCHANGED <<served, prompt, chooser, fromShell>>
  BY <1>3 DEF Taken, shellVars
<1>6. DOMAIN choosers' = DOMAIN choosers \ {h}
  BY <1>3, WithoutIs
<1>7. ObjectsInv'
  <2>1. /\ u \in Seq(Objects) /\ \A i \in DOMAIN u : u[i].type = "unexport"
        /\ \A k : (\E i \in DOMAIN u : u[i].handle = k) <=> k = h
    BY <1>2, <1>4, OneUnexported
  <2>2. \A k \in (DOMAIN shots \cup DOMAIN choosers) \ doubled :
           IF \E i \in DOMAIN u : u[i].handle = k THEN k \notin DOMAIN shots' \cup DOMAIN choosers'
           ELSE k \in DOMAIN shots' \cup DOMAIN choosers' \cup denied'
    BY <1>3, <1>6, <2>1
  <2>3. QED
    BY <1>3, <1>4, <1>5, <1>6, <2>1, <2>2, ObjectsKept
<1>8. DialogsInv'
  <2>1. /\ r \in Seq(Tellings) /\ \A i \in DOMAIN r : r[i].type = "dismiss"
        /\ DismissedAfter(r, 0, choosers[h].token)
    BY <1>2, <1>4, OneDismissed
  <2>2. \A t \in Choosing \ Choosing' : DismissedAfter(r, 0, t)
    BY <1>3, <2>1, ChoosingWithout
  <2>3. Asking' = Asking
    BY <1>3 DEF Asking, Waiting
  <2>4. \A i \in DOMAIN fromShell' : \E j \in DOMAIN fromShell : fromShell'[i] = fromShell[j]
    BY <1>5
  <2>5. QED
    BY <1>3, <1>4, <1>5, <2>1, <2>2, <2>3, <2>4, DialogsKept
<1>9. QED
  BY <1>7, <1>8 DEF FollowsInv

\* Every object of some handles is taken off, every dialog of some tokens dismissed.
UnexportsOf(hs) == [i \in 1 .. Len(SetToSeq(hs)) |-> Object("unexport", SetToSeq(hs)[i])]
AllUnexported(q, hs) ==
    /\ q \in Seq(Objects) /\ \A i \in DOMAIN q : q[i].type = "unexport"
    /\ \A h \in hs : \E i \in DOMAIN q : q[i].handle = h
DismissalsOf(ts) == [i \in 1 .. Len(SetToSeq(ts)) |-> Shell("dismiss", SetToSeq(ts)[i])]
AllDismissed(q, ts) ==
    /\ q \in Seq(Tellings) /\ \A i \in DOMAIN q : q[i].type = "dismiss"
    /\ \A t \in ts : DismissedAfter(q, 0, t)

LEMMA UnexportsDone ==
    ASSUME NEW hs, hs \subseteq Handles, NEW q, q = UnexportsOf(hs) PROVE AllUnexported(q, hs)
<1>1. q = [i \in 1 .. Len(SetToSeq(hs)) |-> Object("unexport", SetToSeq(hs)[i])]
  BY DEF UnexportsOf
<1>2. q \in Seq(Objects)
  BY <1>1, UnexportsAre
<1>3. \A i \in DOMAIN q : \E h \in hs : q[i] = Object("unexport", h)
  BY <1>1, UnexportsAre
<1>4. \A h \in hs : \E i \in DOMAIN q : q[i] = Object("unexport", h)
  BY <1>1, UnexportsAre
<1>5. \A h : Object("unexport", h).type = "unexport" /\ Object("unexport", h).handle = h
  BY DEF Object
<1>6. \A i \in DOMAIN q : q[i].type = "unexport"
  BY <1>3, <1>5
<1>7. \A h \in hs : \E i \in DOMAIN q : q[i].handle = h
  BY <1>4, <1>5
<1>8. QED
  BY <1>2, <1>6, <1>7 DEF AllUnexported

LEMMA DismissalsDone ==
    ASSUME NEW ts, ts \subseteq Nat, IsFiniteSet(ts), NEW q, q = DismissalsOf(ts) PROVE AllDismissed(q, ts)
<1>1. q = [i \in 1 .. Len(SetToSeq(ts)) |-> Shell("dismiss", SetToSeq(ts)[i])]
  BY DEF DismissalsOf
<1>2. q \in Seq(Tellings)
  BY <1>1, DismissalsAre
<1>3. \A i \in DOMAIN q : \E t \in ts : q[i] = Shell("dismiss", t)
  BY <1>1, DismissalsAre
<1>4. \A t \in ts : \E i \in DOMAIN q : q[i] = Shell("dismiss", t)
  <2>1. PICK s : s = SetToSeq(ts)
    OBVIOUS
  <2>2. s \in Seq(ts) /\ \A t \in ts : \E i \in DOMAIN s : s[i] = t
    BY <2>1, SetAsSeq
  <2>3. q = [i \in 1 .. Len(s) |-> Shell("dismiss", s[i])] /\ DOMAIN s = 1 .. Len(s)
    BY <1>1, <2>1, <2>2, ElementIs
  <2>4. QED
    BY <2>2, <2>3
<1>5. \A t : Shell("dismiss", t).type = "dismiss" /\ Shell("dismiss", t).token = t
  BY DEF Shell
<1>6. \A i \in DOMAIN q : q[i].type = "dismiss" /\ 0 < i
  BY <1>2, <1>3, <1>5, ElementIs
<1>7. \A t \in ts : \E i \in DOMAIN q : q[i].token = t
  BY <1>4, <1>5
<1>8. \A t \in ts : DismissedAfter(q, 0, t)
  BY <1>6, <1>7 DEF DismissedAfter
<1>9. QED
  BY <1>2, <1>6, <1>8 DEF AllDismissed

LEMMA FrontendOwnerChangedFollows == ASSUME PromptInv, FollowsInv, FrontendOwnerChanged PROVE FollowsInv'
<1> DEFINE o == Head(calls).handle
           dismissed == {shots[h].token : h \in Waiting(shots)} \cup {choosers[h].token : h \in DOMAIN choosers}
<1>1. PromptTypes /\ DialogsInv /\ ObjectsInv
  BY DEF PromptInv, FollowsInv
<1>2. UNCHANGED <<askedBy, denied, doubled>>
  BY DEF FrontendOwnerChanged
<1>3. CASE frontend # 0 /\ o = frontend
  <2>1. Taken(<<>>, <<>>) /\ UNCHANGED <<shots, choosers>>
    BY <1>3 DEF FrontendOwnerChanged
  <2>2. QED
    BY <1>2, <2>1, IdleFollows
<1>4. CASE ~ (frontend # 0 /\ o = frontend)
  <2>1. PICK q, p, ui :
           /\ q = Each(DOMAIN shots, LAMBDA h : Object("unexport", h))
           /\ p = Each(DOMAIN choosers, LAMBDA h : Object("unexport", h))
           /\ ui = Each(dismissed, LAMBDA t : Shell("dismiss", t))
           /\ Taken(q \o p, ui)
    BY <1>4 DEF FrontendOwnerChanged
  <2>2. shots' = Empty /\ choosers' = Empty
    BY <1>4 DEF FrontendOwnerChanged
  <2>3. /\ bridge' = bridge \o (q \o p) /\ toShell' = toShell \o ui
        /\ UNCHANGED <<served, prompt, chooser, fromShell>>
    BY <2>1 DEF Taken, shellVars
  <2>4. DOMAIN shots \subseteq Handles /\ DOMAIN choosers \subseteq Handles
    BY <1>1 DEF PromptTypes, LedgerTypes, Table
  <2>5. q = UnexportsOf(DOMAIN shots) /\ p = UnexportsOf(DOMAIN choosers)
    BY <2>1 DEF Each, UnexportsOf
  <2>7. AllUnexported(q, DOMAIN shots)
    BY <2>4, <2>5, UnexportsDone
  <2>8. AllUnexported(p, DOMAIN choosers)
    BY <2>4, <2>5, UnexportsDone
  <2>9. DOMAIN shots' = {} /\ DOMAIN choosers' = {}
    BY <2>2, EmptyIs
  <2>10. ObjectsInv'
    <3>1. PICK r : r = q \o p
      OBVIOUS
    <3>7. q \in Seq(Objects) /\ p \in Seq(Objects)
      BY <2>7, <2>8 DEF AllUnexported
    <3>2. /\ r \in Seq(Objects) /\ Len(q) \in Nat /\ Len(p) \in Nat
          /\ DOMAIN q = 1 .. Len(q) /\ DOMAIN p = 1 .. Len(p) /\ DOMAIN r = 1 .. Len(q) + Len(p)
          /\ \A i \in 1 .. Len(q) : r[i] = q[i]
          /\ \A j \in 1 .. Len(p) : r[Len(q) + j] = p[j]
          /\ \A i \in 1 .. Len(q) + Len(p) : i \in 1 .. Len(q) \/ \E j \in 1 .. Len(p) : i = Len(q) + j
      BY <3>1, <3>7, JoinIs
    <3>4. ASSUME NEW i \in DOMAIN r PROVE r[i].type = "unexport"
      <4>1. CASE i \in 1 .. Len(q)
        BY <2>7, <3>2, <4>1 DEF AllUnexported
      <4>2. ASSUME NEW j \in 1 .. Len(p), i = Len(q) + j PROVE r[i].type = "unexport"
        <5>1. r[i] = p[j] /\ p[j].type = "unexport"
          BY <2>8, <3>2, <4>2 DEF AllUnexported
        <5>2. QED
          BY <5>1
      <4>3. QED
        BY <3>2, <4>1, <4>2
    <3>5. ASSUME NEW h \in DOMAIN shots \cup DOMAIN choosers PROVE \E i \in DOMAIN r : r[i].handle = h
      <4>1. CASE h \in DOMAIN shots
        <5>1. PICK i \in DOMAIN q : q[i].handle = h
          BY <2>7, <4>1 DEF AllUnexported
        <5>2. i \in DOMAIN r /\ r[i] = q[i]
          BY <3>2
        <5>3. QED
          BY <5>1, <5>2
      <4>2. CASE h \in DOMAIN choosers
        <5>1. PICK i \in DOMAIN p : p[i].handle = h
          BY <2>8, <4>2 DEF AllUnexported
        <5>2. Len(q) + i \in DOMAIN r /\ r[Len(q) + i] = p[i]
          BY <3>2
        <5>3. QED
          BY <5>1, <5>2
      <4>3. QED
        BY <4>1, <4>2
    <3>6. QED
      BY <1>1, <1>2, <2>3, <2>9, <3>1, <3>2, <3>4, <3>5, ObjectsKept
  <2>11. DialogsInv'
    <3>1. Waiting(shots) \subseteq Handles
      BY <2>4 DEF Waiting
    <3>2. IsFiniteSet(dismissed)
      BY <2>4, <3>1, FiniteTokens, FS_Union
    <3>3. dismissed \subseteq Nat
      BY <1>1 DEF PromptTypes, LedgerTypes, Table, Waiting, Shots, Choosers
    <3>4. Asking \subseteq dismissed /\ Choosing \subseteq dismissed
      BY DEF Asking, Choosing
    <3> HIDE DEF dismissed
    <3>5. ui = DismissalsOf(dismissed)
      BY <2>1 DEF Each, DismissalsOf
    <3>6. AllDismissed(ui, dismissed)
      BY <3>2, <3>3, <3>5, DismissalsDone
    <3>8. /\ ui \in Seq(Tellings) /\ \A i \in DOMAIN ui : ui[i].type = "dismiss"
          /\ \A t \in dismissed : DismissedAfter(ui, 0, t)
      BY <3>6 DEF AllDismissed
    <3>11. \A i \in DOMAIN fromShell' : \E j \in DOMAIN fromShell : fromShell'[i] = fromShell[j]
      BY <2>3
    <3>12. QED
      BY <1>1, <1>2, <2>3, <3>4, <3>8, <3>11, DialogsKept
  <2>12. QED
    BY <2>10, <2>11 DEF FollowsInv
<1>5. QED
  BY <1>3, <1>4

LEMMA HandlePortalCallFollows == ASSUME PromptInv, FollowsInv, HandlePortalCall PROVE FollowsInv'
<1>1. CASE Unauthorized \/ Duplicate \/ CloseNothing
  BY <1>1, IdleFollows DEF Unauthorized, Duplicate, CloseNothing
<1>2. QED
  BY <1>1, FrontendOwnerChangedFollows, OpenScreenshotFollows, OpenFileChooserFollows, CloseScreenshotFollows,
     CloseFileChooserFollows
  DEF HandlePortalCall

----------------------------------------------------------------------------
(* What the decisions and the captures do to the dialogs and the objects *)

LEMMA DecisionTold ==
    ASSUME PromptTypes, fromShell # <<>>, DecisionTaken
    PROVE  /\ DecidedOn(fromShell, Head(fromShell).dialog, Head(fromShell).token)
           /\ \A i \in DOMAIN fromShell' : \E j \in DOMAIN fromShell : fromShell'[i] = fromShell[j]
           /\ UNCHANGED <<served, prompt, chooser, toShell, askedBy>>
<1>1. fromShell \in Seq(Decisions) /\ fromShell' = Tail(fromShell)
  BY DEF PromptTypes, ShellTypes, DecisionTaken
<1>2. /\ Head(fromShell) = fromShell[1] /\ Len(fromShell) \in Nat /\ Len(fromShell) > 0
      /\ DOMAIN fromShell = 1 .. Len(fromShell) /\ DOMAIN fromShell' = 1 .. Len(fromShell) - 1
      /\ \A i \in 1 .. Len(fromShell) - 1 : fromShell'[i] = fromShell[i + 1]
  BY <1>1, TailIs
<1>3. 1 \in DOMAIN fromShell /\ \A i \in 1 .. Len(fromShell) - 1 : i + 1 \in DOMAIN fromShell
  BY <1>2
<1>4. DecidedOn(fromShell, Head(fromShell).dialog, Head(fromShell).token)
  BY <1>2, <1>3 DEF DecidedOn
<1>5. \A i \in DOMAIN fromShell' : \E j \in DOMAIN fromShell : fromShell'[i] = fromShell[j]
  BY <1>2, <1>3
<1>6. UNCHANGED <<served, prompt, chooser, toShell, askedBy>>
  BY DEF DecisionTaken, shellVars
<1>7. QED
  BY <1>4, <1>5, <1>6

LEMMA StaleDecisionFollows == ASSUME PromptInv, FollowsInv, StaleDecision PROVE FollowsInv'
<1>1. /\ fromShell # <<>> /\ DecisionTaken
      /\ UNCHANGED <<shots, choosers, bridge, denied, doubled>>
  BY DEF StaleDecision, DecisionFor
<1>2. PromptTypes /\ DialogsInv /\ ObjectsInv
  BY DEF PromptInv, FollowsInv
<1>3. /\ \A i \in DOMAIN fromShell' : \E j \in DOMAIN fromShell : fromShell'[i] = fromShell[j]
      /\ UNCHANGED <<served, prompt, chooser, toShell, askedBy>>
  BY <1>1, <1>2, DecisionTold
<1>4. Asking' = Asking /\ Choosing' = Choosing
  BY <1>1 DEF Asking, Choosing, Waiting
<1>5. DialogsInv'
  BY <1>2, <1>3, <1>4, DialogsStay
<1>6. ObjectsInv'
  BY <1>1, <1>2, <1>3, ObjectsStay
<1>7. QED
  BY <1>5, <1>6 DEF FollowsInv

LEMMA PromptDeniedFollows == ASSUME PromptInv, FollowsInv, PromptDenied PROVE FollowsInv'
<1>1. PICK d : d = Head(fromShell)
  OBVIOUS
<1>2. /\ fromShell # <<>> /\ DecisionTaken /\ d.dialog = "prompt"
      /\ UNCHANGED <<choosers, bridge, doubled>>
  BY <1>1 DEF PromptDenied, DecisionFor
<1>3. PICK h \in DOMAIN shots : /\ shots[h].token = d.token
                               /\ shots' = Without(shots, h) /\ denied' = denied \cup {h}
  BY <1>1 DEF PromptDenied, HoldsToken
<1>4. PromptTypes /\ DialogsInv /\ ObjectsInv
  BY DEF PromptInv, FollowsInv
<1>5. /\ DecidedOn(fromShell, "prompt", d.token)
      /\ \A i \in DOMAIN fromShell' : \E j \in DOMAIN fromShell : fromShell'[i] = fromShell[j]
      /\ UNCHANGED <<served, prompt, chooser, toShell, askedBy>>
  BY <1>1, <1>2, <1>4, DecisionTold
<1>6. DialogsInv'
  <2>1. \A t \in Asking \ Asking' : DecidedOn(fromShell, "prompt", t)
    BY <1>3, <1>5, AskingWithout
  <2>2. Choosing' = Choosing
    BY <1>2 DEF Choosing
  <2>3. QED
    BY <1>4, <1>5, <2>1, <2>2, DialogsStay
<1>7. ObjectsInv'
  <2>1. DOMAIN shots' = DOMAIN shots \ {h}
    BY <1>3, WithoutIs
  <2>2. DOMAIN shots \cup DOMAIN choosers \subseteq DOMAIN shots' \cup DOMAIN choosers' \cup denied'
    BY <1>2, <1>3, <2>1
  <2>3. QED
    BY <1>2, <1>3, <1>4, <1>5, <2>1, <2>2, ObjectsStay
<1>8. QED
  BY <1>6, <1>7 DEF FollowsInv

LEMMA PromptApprovedFollows ==
    ASSUME PromptInv, FollowsInv, NEW output \in BOOLEAN, NEW captured \in BOOLEAN, PromptApproved(output, captured)
    PROVE  FollowsInv'
<1>1. PICK d : d = Head(fromShell)
  OBVIOUS
<1>2. /\ fromShell # <<>> /\ DecisionTaken /\ d.dialog = "prompt"
      /\ UNCHANGED <<choosers, bridge, denied, doubled>>
  BY <1>1 DEF PromptApproved, DecisionFor
<1>3. PICK h \in DOMAIN shots : shots[h].token = d.token /\ shots' = [shots EXCEPT ![h].stage = "capture"]
  BY <1>1 DEF PromptApproved, HoldsToken
<1>4. PromptTypes /\ DialogsInv /\ ObjectsInv
  BY DEF PromptInv, FollowsInv
<1>5. /\ DecidedOn(fromShell, "prompt", d.token)
      /\ \A i \in DOMAIN fromShell' : \E j \in DOMAIN fromShell : fromShell'[i] = fromShell[j]
      /\ UNCHANGED <<served, prompt, chooser, toShell, askedBy>>
  BY <1>1, <1>2, <1>4, DecisionTold
<1>6. DOMAIN shots' = DOMAIN shots /\ \A k \in DOMAIN shots \ {h} : shots'[k] = shots[k]
  BY <1>3
<1>7. DialogsInv'
  <2>1. ASSUME NEW t \in Asking \ Asking' PROVE t = shots[h].token
    <3>1. PICK k \in DOMAIN shots : shots[k].stage = "consent" /\ t = shots[k].token
      BY DEF Asking, Waiting
    <3>2. PICK a : a = Asking'
      OBVIOUS
    <3>3. a = {shots'[j].token : j \in {i \in DOMAIN shots' : shots'[i].stage = "consent"}}
      BY <3>2 DEF Asking, Waiting
    <3>4. t \notin a
      BY <3>2
    <3>5. k = h
      BY <1>6, <3>1, <3>3, <3>4
    <3>6. QED
      BY <3>1, <3>5
  <2>2. \A t \in Asking \ Asking' : DecidedOn(fromShell, "prompt", t)
    BY <1>3, <1>5, <2>1
  <2>3. Choosing' = Choosing
    BY <1>2 DEF Choosing
  <2>4. QED
    BY <1>4, <1>5, <2>2, <2>3, DialogsStay
<1>8. ObjectsInv'
  BY <1>2, <1>4, <1>5, <1>6, ObjectsStay
<1>9. QED
  BY <1>7, <1>8 DEF FollowsInv

LEMMA ChooserDecisionFollows == ASSUME PromptInv, FollowsInv, ChooserDecision PROVE FollowsInv'
<1>1. PICK d : d = Head(fromShell)
  OBVIOUS
<1>2. /\ fromShell # <<>> /\ DecisionTaken /\ d.dialog = "chooser"
      /\ UNCHANGED <<shots, denied, doubled>>
  BY <1>1 DEF ChooserDecision, DecisionFor
<1>3. PICK h \in DOMAIN choosers :
         /\ choosers[h].token = d.token /\ choosers' = Without(choosers, h)
         /\ bridge' = Append(bridge, Object("unexport", h))
  BY <1>1 DEF ChooserDecision, HoldsToken
<1>4. PromptTypes /\ DialogsInv /\ ObjectsInv /\ h \in Handles
  BY DEF PromptInv, FollowsInv, PromptTypes, LedgerTypes, Table
<1>5. /\ DecidedOn(fromShell, "chooser", d.token)
      /\ \A i \in DOMAIN fromShell' : \E j \in DOMAIN fromShell : fromShell'[i] = fromShell[j]
      /\ UNCHANGED <<served, prompt, chooser, toShell, askedBy>>
  BY <1>1, <1>2, <1>4, DecisionTold
<1>6. DialogsInv'
  <2>1. \A t \in Choosing \ Choosing' : DecidedOn(fromShell, "chooser", t)
    BY <1>3, <1>5, ChoosingWithout
  <2>2. Asking' = Asking
    BY <1>2 DEF Asking, Waiting
  <2>3. QED
    BY <1>4, <1>5, <2>1, <2>2, DialogsStay
<1>7. ObjectsInv'
  <2>1. PICK u : u = <<Object("unexport", h)>>
    OBVIOUS
  <2>2. /\ u \in Seq(Objects) /\ \A i \in DOMAIN u : u[i].type = "unexport"
        /\ \A k : (\E i \in DOMAIN u : u[i].handle = k) <=> k = h
    BY <1>4, <2>1, OneUnexported
  <2>3. bridge' = bridge \o u
    BY <1>3, <2>1
  <2>4. DOMAIN choosers' = DOMAIN choosers \ {h}
    BY <1>3, WithoutIs
  <2>5. \A k \in (DOMAIN shots \cup DOMAIN choosers) \ doubled :
           IF \E i \in DOMAIN u : u[i].handle = k THEN k \notin DOMAIN shots' \cup DOMAIN choosers'
           ELSE k \in DOMAIN shots' \cup DOMAIN choosers' \cup denied'
    BY <1>2, <1>4, <2>2, <2>4 DEF ObjectsInv
  <2>6. QED
    BY <1>2, <1>4, <1>5, <2>2, <2>3, <2>4, <2>5, ObjectsKept
<1>8. QED
  BY <1>6, <1>7 DEF FollowsInv

LEMMA PortalCaptureOutcomeFollows == ASSUME PromptInv, FollowsInv, PortalCaptureOutcome PROVE FollowsInv'
<1>1. PICK o : o = Head(outcomes)
  OBVIOUS
<1>2. UNCHANGED <<choosers, askedBy, served, prompt, chooser, toShell, fromShell, denied, doubled>>
  BY DEF PortalCaptureOutcome, shellVars
<1>3. CASE OutcomeMatches(o)
  <2>1. PICK h : h = o.handle
    OBVIOUS
  <2>2. shots' = Without(shots, h) /\ bridge' = Append(bridge, Object("unexport", h))
    BY <1>1, <1>3, <2>1 DEF PortalCaptureOutcome
  <2>3. h \in DOMAIN shots /\ shots[h].stage = "capture"
    BY <1>3, <2>1 DEF OutcomeMatches
  <2>4. PromptTypes /\ DialogsInv /\ ObjectsInv /\ h \in Handles
    BY <2>3 DEF PromptInv, FollowsInv, PromptTypes, LedgerTypes, Table
  <2>5. DialogsInv'
    <3>1. \A t \in Asking \ Asking' : FALSE
      BY <2>2, <2>3, AskingWithout
    <3>2. Choosing' = Choosing
      BY <1>2 DEF Choosing
    <3>3. \A i \in DOMAIN fromShell' : \E j \in DOMAIN fromShell : fromShell'[i] = fromShell[j]
      BY <1>2
    <3>4. QED
      BY <1>2, <2>4, <3>1, <3>2, <3>3, DialogsStay
  <2>6. ObjectsInv'
    <3>1. PICK u : u = <<Object("unexport", h)>>
      OBVIOUS
    <3>2. /\ u \in Seq(Objects) /\ \A i \in DOMAIN u : u[i].type = "unexport"
          /\ \A k : (\E i \in DOMAIN u : u[i].handle = k) <=> k = h
      BY <2>4, <3>1, OneUnexported
    <3>3. bridge' = bridge \o u
      BY <2>2, <3>1
    <3>4. DOMAIN shots' = DOMAIN shots \ {h}
      BY <2>2, WithoutIs
    <3>5. \A k \in (DOMAIN shots \cup DOMAIN choosers) \ doubled :
             IF \E i \in DOMAIN u : u[i].handle = k THEN k \notin DOMAIN shots' \cup DOMAIN choosers'
             ELSE k \in DOMAIN shots' \cup DOMAIN choosers' \cup denied'
      BY <1>2, <2>3, <2>4, <3>2, <3>4 DEF ObjectsInv
    <3>6. QED
      BY <1>2, <2>4, <3>2, <3>3, <3>4, <3>5, ObjectsKept
  <2>7. QED
    BY <2>5, <2>6 DEF FollowsInv
<1>4. CASE ~ OutcomeMatches(o)
  <2>1. UNCHANGED <<shots, bridge>>
    BY <1>1, <1>4 DEF PortalCaptureOutcome
  <2>2. QED
    BY <1>2, <2>1, ElsewhereFollows
<1>5. QED
  BY <1>3, <1>4

LEMMA AskedFollows ==
    ASSUME FollowsInv, NEW kind, NEW h, NEW refused, Asked(kind, h, refused) PROVE FollowsInv'
BY ElsewhereFollows DEF Asked, ledgerVars, shellVars

LEMMA FollowsStep == ASSUME PromptInv, FollowsInv, [PromptNext]_vars PROVE FollowsInv'
<1>1. ASSUME NEW h \in Handles, NEW k \in CaptureKinds, NEW target \in {"none", "screen", "window"},
             ScreenshotCall(k, h, target)
      PROVE  FollowsInv'
  BY <1>1, AskedFollows DEF ScreenshotCall
<1>2. ASSUME NEW h \in Handles, NEW method \in {"OpenFile", "SaveFile", "SaveFiles"}, NEW files \in 0 .. 1,
             FileChooserCall(method, h, files)
      PROVE  FollowsInv'
  BY <1>2, AskedFollows DEF FileChooserCall
<1>3. CASE Loop
  BY <1>3, HandlePortalCallFollows, StaleDecisionFollows, PromptDeniedFollows, PromptApprovedFollows,
     ChooserDecisionFollows, PortalCaptureOutcomeFollows
  DEF Loop
<1>4. ASSUME NEW h \in Handles, CloseRequest(h) PROVE FollowsInv'
  BY <1>4, ElsewhereFollows DEF CloseRequest, ledgerVars, shellVars
<1>5. ASSUME NEW o \in 0 .. MaxOwners, OwnerChanges(o) PROVE FollowsInv'
  BY <1>5, ElsewhereFollows DEF OwnerChanges, ledgerVars, shellVars
<1>6. CASE Lookup \/ Subscribe \/ ForwardOwner
  <2>1. UNCHANGED <<toShell, prompt, chooser, shots, choosers, fromShell, askedBy, served, bridge, doubled, denied>>
    BY <1>6 DEF Lookup, Subscribe, ForwardOwner, ledgerVars, shellVars, channelVars
  <2>2. QED
    BY <2>1, ElsewhereFollows
<1>7. ASSUME NEW w \in working, NEW ok \in BOOLEAN, Encode(w, ok) PROVE FollowsInv'
  BY <1>7, ElsewhereFollows DEF Encode, ledgerVars, shellVars
<1>8. CASE UNCHANGED vars
  <2>1. UNCHANGED <<toShell, prompt, chooser, shots, choosers, fromShell, askedBy, served, bridge, doubled, denied>>
    BY <1>8 DEF vars, ledgerVars, shellVars, channelVars
  <2>2. QED
    BY <2>1, ElsewhereFollows
<1>9. QED
  BY <1>1, <1>2, <1>3, <1>4, <1>5, <1>6, <1>7, <1>8, BridgeFollows, ShellHearsFollows, DecideFollows
  DEF PromptNext

----------------------------------------------------------------------------
(* The frozen pixels *)

\* What a step may do to the pixels
PixelsStep ==
    /\ Cardinality(stash') <= StashCap
    /\ Len(calls') < Len(calls) => stash' \subseteq Tokens(shots')
    /\ \A t \in stash \ stash' :
          t \in {shots'[h].token : h \in Waiting(shots')} =>
              /\ Cardinality(stash') = StashCap
              /\ stash' \subseteq Tokens(shots')

PixelsGoOn == StashInv' /\ PixelsStep

LEMMA PixelsStay ==
    ASSUME StashInv, stash' = stash, ~ (Len(calls') < Len(calls)) PROVE PixelsGoOn
<1>1. PICK u : u = stash'
  OBVIOUS
<1>2. IsFiniteSet(u) /\ Cardinality(u) <= StashCap
  BY <1>1 DEF StashInv
<1>3. StashInv'
  BY <1>1, <1>2 DEF StashInv
<1>4. PixelsStep
  BY <1>1, <1>2 DEF PixelsStep
<1>5. QED
  BY <1>3, <1>4 DEF PixelsGoOn

LEMMA PixelsReconciled == ASSUME StashInv, stash' = Reconciled(shots') PROVE PixelsGoOn
<1>1. PICK s : s = shots'
  OBVIOUS
<1>2. PICK u : u = stash \cap Tokens(s)
  OBVIOUS
<1>3. stash' = u
  BY <1>1, <1>2 DEF Reconciled
<1>4. IsFiniteSet(u) /\ Cardinality(u) <= Cardinality(stash)
  BY <1>2, FS_Subset DEF StashInv
<1>5. Cardinality(u) \in Nat /\ Cardinality(stash) \in Nat
  BY <1>4, FS_CardinalityType DEF StashInv
<1>6. Cardinality(u) <= StashCap
  BY <1>4, <1>5, PromptBounds DEF StashInv
<1>7. StashInv'
  BY <1>3, <1>4, <1>6 DEF StashInv
<1>8. {s[k].token : k \in Waiting(s)} \subseteq Tokens(s)
  BY DEF Tokens, Waiting
<1>9. \A t \in stash \ u : t \notin {s[k].token : k \in Waiting(s)}
  BY <1>2, <1>8
<1>10. u \subseteq Tokens(s)
  BY <1>2
<1>11. PixelsStep
  BY <1>1, <1>3, <1>6, <1>9, <1>10 DEF PixelsStep
<1>12. QED
  BY <1>7, <1>11 DEF PixelsGoOn

\* Past the bound the oldest desktop goes, and only that one.
LEMMA StashedFew ==
    ASSUME NEW held, held \subseteq Nat, IsFiniteSet(held), Cardinality(held) <= StashCap, NEW token \in Nat
    PROVE  /\ IsFiniteSet(Stashed(held, token)) /\ Cardinality(Stashed(held, token)) <= StashCap
           /\ Stashed(held, token) \subseteq held \cup {token}
           /\ \A t \in held \ Stashed(held, token) : Cardinality(Stashed(held, token)) = StashCap
<1>1. PICK u : u = Stashed(held, token)
  OBVIOUS
<1>2. PICK all : all = held \cup {token}
  OBVIOUS
<1>3. u = IF Cardinality(all) > StashCap THEN all \ {Min(all)} ELSE all
  BY <1>1, <1>2 DEF Stashed
<1>4. /\ IsFiniteSet(all) /\ Cardinality(held) \in Nat /\ Cardinality(all) \in Nat
      /\ Cardinality(all) = Cardinality(held) \/ Cardinality(all) = Cardinality(held) + 1
  BY <1>2, FS_AddElement, FS_CardinalityType
<1>5. StashCap \in Nat
  BY PromptBounds
<1>6. CASE Cardinality(all) > StashCap
  <2>1. Cardinality(all) = StashCap + 1
    BY <1>4, <1>5, <1>6
  <2>2. Min(all) \in all
    <3>1. all \subseteq Nat /\ all # {}
      BY <1>2
    <3>2. \E n \in all : \A m \in all : n <= m
      BY <3>1, LeastNat
    <3>3. QED
      BY <3>2 DEF Min
  <2>3. PICK m \in all : m = Min(all)
    BY <2>2
  <2>4. u = all \ {m}
    BY <1>3, <1>6, <2>3
  <2>5. IsFiniteSet(u) /\ Cardinality(u) = Cardinality(all) - 1
    BY <1>4, <2>3, <2>4, FS_RemoveElement
  <2>6. Cardinality(u) = StashCap /\ u \subseteq all
    BY <1>5, <2>1, <2>4, <2>5
  <2>7. QED
    BY <1>1, <1>2, <1>5, <2>5, <2>6
<1>7. CASE ~ (Cardinality(all) > StashCap)
  <2>1. u = all
    BY <1>3, <1>7
  <2>2. QED
    BY <1>1, <1>2, <1>4, <1>5, <1>7, <2>1
<1>8. QED
  BY <1>6, <1>7

LEMMA OpenScreenshotPixels ==
    ASSUME PromptInv, StashInv, NEW frozen \in BOOLEAN, OpenScreenshot(frozen) PROVE PixelsGoOn
<1>1. PICK e : e = Head(calls)
  OBVIOUS
<1>2. PICK token : token = Len(askedBy) + 1
  OBVIOUS
<1>3. PICK x : x = [call |-> e.call, kind |-> e.type, token |-> token, stage |-> "consent"]
  OBVIOUS
<1>4. /\ shots' = With(shots, e.handle, x)
      /\ stash' = IF frozen THEN Stashed(Reconciled(shots'), token) ELSE Reconciled(shots')
  BY <1>1, <1>2, <1>3 DEF OpenScreenshot
<1>5. CASE ~ frozen
  BY <1>4, <1>5, PixelsReconciled
<1>6. CASE frozen
  <2>1. PICK s : s = shots'
    OBVIOUS
  <2>2. PICK held : held = stash \cap Tokens(s)
    OBVIOUS
  <2>3. PICK u : u = Stashed(held, token)
    OBVIOUS
  <2>4. stash' = u
    BY <1>4, <1>6, <2>1, <2>2, <2>3 DEF Reconciled
  <2>5. stash \subseteq Nat /\ token \in Nat
    BY <1>2, ElementIs DEF PromptInv, PromptTypes, LedgerTypes
  <2>6. IsFiniteSet(held) /\ Cardinality(held) <= Cardinality(stash)
    BY <2>2, FS_Subset DEF StashInv
  <2>7. Cardinality(held) \in Nat /\ Cardinality(stash) \in Nat
    BY <2>6, FS_CardinalityType DEF StashInv
  <2>8. Cardinality(held) <= StashCap /\ held \subseteq Nat
    <3>1. held \subseteq Nat
      BY <2>2, <2>5
    <3>2. Cardinality(stash) <= StashCap /\ StashCap \in Nat
      BY PromptBounds DEF StashInv
    <3>3. QED
      BY <2>6, <2>7, <3>1, <3>2
  <2>9. /\ IsFiniteSet(u) /\ Cardinality(u) <= StashCap /\ u \subseteq held \cup {token}
        /\ \A t \in held \ u : Cardinality(u) = StashCap
    BY <2>3, <2>5, <2>6, <2>8, StashedFew
  <2>10. token \in Tokens(s)
    <3>1. e.handle \in DOMAIN s /\ s[e.handle] = x
      <4>1. PICK g : g = With(shots, e.handle, x)
        OBVIOUS
      <4>2. e.handle \in DOMAIN g /\ g[e.handle] = x
        BY <4>1 DEF With
      <4>3. QED
        BY <1>4, <2>1, <4>1, <4>2
    <3>2. x.token = token
      BY <1>3
    <3>3. QED
      BY <3>1, <3>2 DEF Tokens
  <2>11. u \subseteq Tokens(s)
    BY <2>2, <2>9, <2>10
  <2>12. {s[k].token : k \in Waiting(s)} \subseteq Tokens(s)
    BY DEF Tokens, Waiting
  <2>13. \A t \in stash \ u : t \in {s[k].token : k \in Waiting(s)} => Cardinality(u) = StashCap
    BY <2>2, <2>9, <2>12
  <2>14. StashInv'
    BY <2>4, <2>9 DEF StashInv
  <2>15. PixelsStep
    BY <2>1, <2>4, <2>9, <2>11, <2>13 DEF PixelsStep
  <2>16. QED
    BY <2>14, <2>15 DEF PixelsGoOn
<1>7. QED
  BY <1>5, <1>6

LEMMA HandlePortalCallPixels == ASSUME PromptInv, StashInv, HandlePortalCall PROVE PixelsGoOn
<1>1. CASE FrontendOwnerChanged
  BY <1>1, PixelsReconciled DEF FrontendOwnerChanged
<1>2. CASE Unauthorized \/ Duplicate \/ OpenFileChooser \/ CloseFileChooser \/ CloseNothing
  <2>1. stash' = Reconciled(shots) /\ shots' = shots
    BY <1>2 DEF Unauthorized, Duplicate, OpenFileChooser, CloseFileChooser, CloseNothing
  <2>2. QED
    BY <2>1, PixelsReconciled
<1>3. CASE CloseScreenshot
  BY <1>3, PixelsReconciled DEF CloseScreenshot
<1>4. QED
  BY <1>1, <1>2, <1>3, OpenScreenshotPixels DEF HandlePortalCall

\* The pixels that are taken are those of the one request that has the token.
LEMMA PromptApprovedPixels ==
    ASSUME PromptInv, StashInv, NEW output \in BOOLEAN, NEW captured \in BOOLEAN, PromptApproved(output, captured)
    PROVE  PixelsGoOn
<1>1. PICK d : d = Head(fromShell)
  OBVIOUS
<1>2. stash' = (IF output THEN stash \ {d.token} ELSE stash) /\ calls' = calls
  BY <1>1 DEF PromptApproved, DecisionTaken
<1>3. PICK h \in DOMAIN shots : shots[h].token = d.token /\ shots' = [shots EXCEPT ![h].stage = "capture"]
  BY <1>1 DEF PromptApproved, HoldsToken
<1>4. PICK u : u = stash'
  OBVIOUS
<1>5. u \subseteq stash /\ \A t \in stash \ u : t = d.token
  BY <1>2, <1>4
<1>6. IsFiniteSet(u) /\ Cardinality(u) <= Cardinality(stash)
  BY <1>5, FS_Subset DEF StashInv
<1>7. Cardinality(u) \in Nat /\ Cardinality(stash) \in Nat
  BY <1>6, FS_CardinalityType DEF StashInv
<1>8. Cardinality(u) <= StashCap
  BY <1>6, <1>7, PromptBounds DEF StashInv
<1>9. calls \in Seq(Messages) /\ ~ (Len(calls) < Len(calls))
  BY LenProperties DEF PromptInv, PromptTypes, BusTypes
<1>10. PICK s : s = shots'
  OBVIOUS
<1>11. d.token \notin {s[k].token : k \in Waiting(s)}
  <2>1. SUFFICES ASSUME NEW k \in DOMAIN s, s[k].stage = "consent", s[k].token = d.token PROVE FALSE
    BY DEF Waiting
  <2>2. DOMAIN s = DOMAIN shots
    BY <1>3, <1>10
  <2>3. k # h
    <3>1. SUFFICES ASSUME k = h PROVE FALSE
      OBVIOUS
    <3>2. PICK x : x = [shots[h] EXCEPT !.stage = "capture"]
      OBVIOUS
    <3>3. shots[h] \in Shots
      BY DEF PromptInv, PromptTypes, LedgerTypes, Table
    <3>4. x.stage = "capture"
      BY <3>2, <3>3 DEF Shots
    <3>5. s[h] = x
      BY <1>3, <1>10, <3>2
    <3>6. QED
      BY <2>1, <3>1, <3>4, <3>5
  <2>4. s[k] = shots[k]
    BY <1>3, <1>10, <2>2, <2>3
  <2>5. ShotKnown(shots[h]) /\ ShotKnown(shots[k]) /\ HeldApart(shots)
    BY <2>2 DEF PromptInv, EntriesInv, AccountsInv
  <2>6. shots[h].call = shots[k].call
    BY <1>3, <2>1, <2>4, <2>5 DEF ShotKnown
  <2>7. QED
    BY <2>2, <2>3, <2>5, <2>6 DEF HeldApart
<1>12. StashInv'
  BY <1>4, <1>6, <1>8 DEF StashInv
<1>13. PixelsStep
  BY <1>2, <1>4, <1>5, <1>8, <1>9, <1>10, <1>11 DEF PixelsStep
<1>14. QED
  BY <1>12, <1>13 DEF PixelsGoOn

\* What is not the loop's takes no call off its channel.
LEMMA CallsGrow ==
    ASSUME PromptInv, calls' = calls \/ \E m : calls' = Append(calls, m) PROVE ~ (Len(calls') < Len(calls))
<1>1. calls \in Seq(Messages) /\ Len(calls) \in Nat
  BY LenProperties DEF PromptInv, PromptTypes, BusTypes
<1>2. ASSUME NEW m, calls' = Append(calls, m) PROVE Len(calls') = Len(calls) + 1
  <2>1. calls \in Seq(Messages \cup {m})
    BY <1>1
  <2>2. QED
    BY <1>2, <2>1, AppendIs
<1>3. QED
  BY <1>1, <1>2

LEMMA PixelsGo == ASSUME PromptInv, StashInv, [PromptNext]_vars PROVE PixelsGoOn
<1>1. CASE HandlePortalCall
  BY <1>1, HandlePortalCallPixels
<1>2. ASSUME NEW output \in BOOLEAN, NEW captured \in BOOLEAN, PromptApproved(output, captured) PROVE PixelsGoOn
  BY <1>2, PromptApprovedPixels
<1>3. ASSUME NEW kind, NEW h, NEW refused, Asked(kind, h, refused) PROVE PixelsGoOn
  <2>1. stash' = stash /\ (calls' = calls \/ \E m : calls' = Append(calls, m))
    BY <1>3 DEF Asked, ledgerVars
  <2>2. QED
    BY <2>1, CallsGrow, PixelsStay
<1>4. ASSUME NEW h, CloseRequest(h) PROVE PixelsGoOn
  <2>1. stash' = stash /\ (calls' = calls \/ \E m : calls' = Append(calls, m))
    BY <1>4 DEF CloseRequest, ledgerVars
  <2>2. QED
    BY <2>1, CallsGrow, PixelsStay
<1>5. CASE ForwardOwner
  <2>1. stash' = stash /\ (calls' = calls \/ \E m : calls' = Append(calls, m))
    BY <1>5 DEF ForwardOwner, ledgerVars
  <2>2. QED
    BY <2>1, CallsGrow, PixelsStay
<1>6. CASE \/ StaleDecision \/ PromptDenied \/ ChooserDecision \/ PortalCaptureOutcome
           \/ Lookup \/ Subscribe \/ PerformBridgeAction \/ ShellHears \/ UNCHANGED vars
  <2>1. stash' = stash /\ calls' = calls
    BY <1>6 DEF StaleDecision, PromptDenied, ChooserDecision, DecisionTaken, PortalCaptureOutcome, Lookup, Subscribe,
                PerformBridgeAction, ShellHears, vars, ledgerVars, channelVars
  <2>2. QED
    BY <2>1, CallsGrow, PixelsStay
<1>7. ASSUME NEW o, OwnerChanges(o) PROVE PixelsGoOn
  <2>1. stash' = stash /\ calls' = calls
    BY <1>7 DEF OwnerChanges, ledgerVars
  <2>2. QED
    BY <2>1, CallsGrow, PixelsStay
<1>8. ASSUME NEW outcome, DecidePrompt(outcome) \/ DecideChooser(outcome) PROVE PixelsGoOn
  <2>1. stash' = stash /\ calls' = calls
    BY <1>8 DEF DecidePrompt, DecideChooser, Told, ledgerVars
  <2>2. QED
    BY <2>1, CallsGrow, PixelsStay
<1>9. ASSUME NEW w, NEW ok, Encode(w, ok) PROVE PixelsGoOn
  <2>1. stash' = stash /\ calls' = calls
    BY <1>9 DEF Encode, ledgerVars
  <2>2. QED
    BY <2>1, CallsGrow, PixelsStay
<1>10. QED
  BY <1>1, <1>2, <1>3, <1>4, <1>5, <1>6, <1>7, <1>8, <1>9 DEF PromptNext, Loop, ScreenshotCall, FileChooserCall

----------------------------------------------------------------------------
(* What outlives a request *)

LEMMA FollowInit == ASSUME PromptInit PROVE FollowInv
<1>1. /\ shots = Empty /\ choosers = Empty /\ askedBy = <<>> /\ stash = {}
      /\ served = {} /\ bridge = <<>> /\ toShell = <<>> /\ fromShell = <<>>
      /\ prompt = 0 /\ chooser = 0 /\ doubled = {}
  BY DEF PromptInit
<1>2. DOMAIN shots = {} /\ DOMAIN choosers = {}
  BY <1>1, EmptyIs
<1>3. DialogsInv
  <2>1. DOMAIN toShell = {} /\ DOMAIN fromShell = {}
    BY <1>1
  <2>2. ASSUME NEW dialog, NEW alive, NEW n PROVE Truthful(dialog, toShell, 0, alive, fromShell, n)
    BY <2>1 DEF Truthful
  <2>3. QED
    BY <1>1, <2>2 DEF DialogsInv
<1>4. ObjectsInv
  <2>1. DOMAIN bridge = {}
    BY <1>1
  <2>2. ServedAfter(served, bridge) = {}
    BY <1>1, <2>1 DEF ServedAfter
  <2>3. QED
    BY <1>2, <2>2 DEF ObjectsInv
<1>5. StashInv
  BY <1>1, FS_EmptySet, PromptBounds DEF StashInv
<1>6. QED
  BY <1>3, <1>4, <1>5, PromptInitInv DEF FollowInv

LEMMA FollowStep == ASSUME FollowInv, [PromptNext]_vars PROVE FollowInv' /\ PixelsStep
<1>1. PromptInv /\ FollowsInv /\ StashInv
  BY DEF FollowInv, FollowsInv
<1>2. PromptInv' /\ FollowsInv' /\ PixelsGoOn
  BY <1>1, PromptStep, FollowsStep, PixelsGo
<1>3. QED
  BY <1>2 DEF FollowInv, FollowsInv, PixelsGoOn

\* With nothing under way the dialogs are those of live requests, the objects theirs.
LEMMA InvFollow == ASSUME FollowInv PROVE DialogsAndObjectsFollow
<1>1. DialogsInv /\ ObjectsInv /\ PromptTypes
  BY DEF FollowInv, PromptInv
<1>2. ASSUME toShell = <<>>
      PROVE  /\ prompt # 0 => HoldsToken(shots, prompt) \cap Waiting(shots) # {}
             /\ chooser # 0 => HoldsToken(choosers, chooser) # {}
  <2>1. \A i, t : ~ DismissedAfter(toShell, i, t)
    BY <1>2 DEF DismissedAfter
  <2>2. prompt # 0 => prompt \in Asking
    BY <1>1, <2>1 DEF DialogsInv, Truthful
  <2>3. chooser # 0 => chooser \in Choosing
    BY <1>1, <2>1 DEF DialogsInv, Truthful
  <2>4. QED
    BY <2>2, <2>3 DEF Asking, Choosing, HoldsToken, Waiting
<1>3. ASSUME bridge = <<>>
      PROVE  /\ (DOMAIN shots \cup DOMAIN choosers) \ doubled \subseteq served
             /\ served \ doubled \subseteq DOMAIN shots \cup DOMAIN choosers \cup denied
  <2>1. served \subseteq Handles
    BY <1>1 DEF PromptTypes, BusTypes
  <2>2. DOMAIN bridge = {}
    BY <1>3
  <2>3. ServedAfter(served, bridge) = served
    BY <2>1, <2>2 DEF ServedAfter
  <2>4. QED
    BY <1>1, <2>3 DEF ObjectsInv
<1>4. QED
  BY <1>2, <1>3 DEF DialogsAndObjectsFollow

\* Every reachable state satisfies the invariant of what outlives a request
\* (embedder/portal/service.rs).
THEOREM FollowInvariant == PromptSpec => []FollowInv
<1>1. PromptInit => FollowInv
  BY FollowInit
<1>2. FollowInv /\ [PromptNext]_vars => FollowInv'
  BY FollowStep
<1>3. QED
  BY <1>1, <1>2, PTL DEF PromptSpec

\* Neither pixels, nor a dialog, nor an object on the bus outlives the request it was made
\* for, or is gone before it (reconcile_portal_pending_pixels, resolve_screenshot_consent).
THEOREM RequestsOutlived == PromptSpec => NothingOutlivesItsRequest
<1>1. FollowInv => DialogsAndObjectsFollow
  BY InvFollow
<1>2. FollowInv /\ [PromptNext]_vars => [PixelsStep]_vars
  BY FollowStep
<1>3. PixelsFollowRequests <=> [][PixelsStep]_vars
  BY DEF PixelsFollowRequests, PixelsStep
<1>4. QED
  BY <1>1, <1>2, <1>3, FollowInvariant, PTL DEF PromptSpec, NothingOutlivesItsRequest

=============================================================================
