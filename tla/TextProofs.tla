--------------------------- MODULE TextProofs ------------------------------
(***************************************************************************)
(* What TLAPS proves about the two modules that rewrite texts: Launcher,   *)
(* for rc files and edits of any length, any commands and configurations,  *)
(* and Rewriter, for bodies of any shape and size and any policies.        *)
(*                                                                         *)
(* Filtering lines and putting fields back are recursive, so what they     *)
(* compute takes an induction.  It is made with sets: a set that has 0 and *)
(* the successor of each of its numbers has all of them, which is an       *)
(* instance of well-founded relations having minimal elements.             *)
(***************************************************************************)
EXTENDS Launcher, Rewriter, SequenceTheorems, FunctionTheorems, FiniteSetTheorems, WellFoundedInduction, TLAPS

LEMMA NatHasLeast == \A T \in SUBSET Nat : T # {} => \E x \in T : \A y \in T : ~(y < x)
<1> DEFINE R == {ss \in Nat \X Nat : ss[1] < ss[2]}
<1>1. R = OpToRel(<, Nat)
  BY DEF OpToRel
<1>2. IsWellFoundedOn(R, Nat)
  BY <1>1, NatLessThanWellFounded
<1> TAKE T \in SUBSET Nat
<1> HAVE T # {}
<1>3. \A x \in Nat, y \in Nat : y < x => <<y, x>> \in R
  OBVIOUS
<1> HIDE DEF R
<1>4. PICK x \in T : \A y \in T : ~(<<y, x>> \in R)
  BY <1>2, WFMin
<1> QED BY <1>3, <1>4

LEMMA NatBySet ==
    ASSUME NEW S, 0 \in S, \A n \in Nat : n \in S => n + 1 \in S
    PROVE  Nat \subseteq S
<1> DEFINE T == Nat \ S
<1>1. SUFFICES ASSUME T # {} PROVE FALSE
  OBVIOUS
<1>2. PICK x \in T : \A y \in T : ~(y < x)
  BY <1>1, NatHasLeast
<1>3. x # 0 /\ x \in Nat
  OBVIOUS
<1>4. x - 1 \in Nat /\ x - 1 < x /\ (x - 1) + 1 = x
  BY <1>3
<1>5. x - 1 \in S
  BY <1>2, <1>4
<1> QED BY <1>4, <1>5

-----------------------------------------------------------------------------
(* The recursive function of a filter: what it is at 0 and at n + 1. *)
KeptEquation(items, drop, g, n) ==
    g = [m \in 0 .. n |-> IF m = 0 THEN << >>
                          ELSE IF items[m] \in drop THEN g[m - 1] ELSE Append(g[m - 1], items[m])]

LEMMA KeptExists ==
    ASSUME NEW items, NEW drop, NEW n \in Nat
    PROVE  \E g : KeptEquation(items, drop, g, n)
<1> DEFINE S == {k \in Nat : \E g : KeptEquation(items, drop, g, k)}
<1>1. 0 \in S
  <2>1. KeptEquation(items, drop, [m \in 0 .. 0 |-> << >>], 0)
    BY DEF KeptEquation
  <2> QED BY <2>1
<1>2. ASSUME NEW k \in Nat, k \in S PROVE k + 1 \in S
  <2>1. PICK g : KeptEquation(items, drop, g, k)
    BY <1>2
  <2> DEFINE last == IF items[k + 1] \in drop THEN g[k] ELSE Append(g[k], items[k + 1])
             h == [m \in 0 .. k + 1 |-> IF m = k + 1 THEN last ELSE g[m]]
  <2>2. ASSUME NEW m \in 0 .. k + 1
        PROVE  h[m] = IF m = 0 THEN << >>
                      ELSE IF items[m] \in drop THEN h[m - 1] ELSE Append(h[m - 1], items[m])
    <3>1. CASE m = k + 1
      <4>1. h[m] = last /\ h[m - 1] = g[k] /\ m # 0
        BY <3>1
      <4> QED BY <3>1, <4>1
    <3>2. CASE m # k + 1
      <4>1. m \in 0 .. k /\ h[m] = g[m] /\ (m # 0 => h[m - 1] = g[m - 1])
        BY <3>2
      <4>2. g[m] = IF m = 0 THEN << >>
                   ELSE IF items[m] \in drop THEN g[m - 1] ELSE Append(g[m - 1], items[m])
        BY <2>1, <4>1 DEF KeptEquation
      <4> QED BY <4>1, <4>2
    <3> QED BY <3>1, <3>2
  <2>3. h = [m \in 0 .. k + 1 |-> h[m]]
    OBVIOUS
  <2> HIDE DEF h
  <2>4. KeptEquation(items, drop, h, k + 1)
    BY <2>2, <2>3 DEF KeptEquation
  <2> QED BY <2>4
<1> HIDE DEF S
<1>3. n \in S
  BY <1>1, <1>2, NatBySet
<1> QED BY <1>3 DEF S

LEMMA KeptIs ==
    ASSUME NEW items, NEW drop, Len(items) \in Nat
    PROVE  KeptEquation(items, drop, KeptOf(items, drop), Len(items))
<1>1. \E g : KeptEquation(items, drop, g, Len(items))
  BY KeptExists
<1>2. KeptOf(items, drop) = CHOOSE g : KeptEquation(items, drop, g, Len(items))
  BY DEF KeptOf, KeptEquation
<1> QED BY <1>1, <1>2

LEMMA FilterStep ==
    ASSUME NEW S, NEW items \in Seq(S), NEW drop
    PROVE  /\ KeptOf(items, drop)[0] = << >>
           /\ \A n \in Nat : n + 1 <= Len(items) =>
                KeptOf(items, drop)[n + 1] =
                    IF items[n + 1] \in drop THEN KeptOf(items, drop)[n]
                    ELSE Append(KeptOf(items, drop)[n], items[n + 1])
<1>1. Len(items) \in Nat
  BY LenProperties
<1> DEFINE k == KeptOf(items, drop)
           l == Len(items)
<1>2. KeptEquation(items, drop, k, l)
  BY <1>1, KeptIs
<1> HIDE DEF k, l
<1>3. k[0] = << >>
  BY <1>1, <1>2 DEF KeptEquation, l
<1>4. ASSUME NEW n \in Nat, n + 1 <= l
      PROVE  k[n + 1] = IF items[n + 1] \in drop THEN k[n] ELSE Append(k[n], items[n + 1])
  <2>1. n + 1 \in 0 .. l /\ n + 1 # 0 /\ (n + 1) - 1 = n
    BY <1>1, <1>4 DEF l
  <2> QED BY <1>2, <2>1 DEF KeptEquation
<1> QED BY <1>3, <1>4 DEF k, l

(* What is kept are items. *)
LEMMA FilterSeq ==
    ASSUME NEW S, NEW items \in Seq(S), NEW drop
    PROVE  Without(items, drop) \in Seq(S)
<1> DEFINE T == {k \in Nat : k <= Len(items) => KeptOf(items, drop)[k] \in Seq(S)}
<1>0. Len(items) \in Nat
  BY LenProperties
<1>1. 0 \in T
  <2>1. KeptOf(items, drop)[0] = << >> /\ << >> \in Seq(S)
    BY FilterStep, EmptySeq
  <2> QED BY <2>1
<1>2. ASSUME NEW k \in Nat, k \in T PROVE k + 1 \in T
  <2>1. SUFFICES ASSUME k + 1 <= Len(items) PROVE KeptOf(items, drop)[k + 1] \in Seq(S)
    OBVIOUS
  <2>2. KeptOf(items, drop)[k] \in Seq(S) /\ items[k + 1] \in S
    BY <1>0, <1>2, <2>1, ElementOfSeq
  <2>3. KeptOf(items, drop)[k + 1] = IF items[k + 1] \in drop THEN KeptOf(items, drop)[k]
                                     ELSE Append(KeptOf(items, drop)[k], items[k + 1])
    BY <2>1, FilterStep
  <2> QED BY <2>2, <2>3, AppendProperties
<1> HIDE DEF T
<1>3. Len(items) \in T
  BY <1>0, <1>1, <1>2, NatBySet
<1> QED BY <1>0, <1>3 DEF T, Without

(* Where nothing is dropped all is kept. *)
LEMMA WithoutNothing ==
    ASSUME NEW S, NEW items \in Seq(S), NEW drop, \A i \in DOMAIN items : items[i] \notin drop
    PROVE  Without(items, drop) = items
<1> DEFINE P(n) == n <= Len(items) => KeptOf(items, drop)[n] = SubSeq(items, 1, n)
<1>0. Len(items) \in Nat /\ DOMAIN items = 1 .. Len(items) /\ items = [i \in 1 .. Len(items) |-> items[i]]
  BY LenProperties
<1>1. 0 \in {n \in Nat : P(n)}
  <2>1. SubSeq(items, 1, 0) = << >>
    OBVIOUS
  <2> QED BY <2>1, FilterStep
<1>2. ASSUME NEW n \in Nat, n \in {m \in Nat : P(m)} PROVE n + 1 \in {m \in Nat : P(m)}
  <2> SUFFICES ASSUME n + 1 <= Len(items) PROVE KeptOf(items, drop)[n + 1] = SubSeq(items, 1, n + 1)
    OBVIOUS
  <2>1. n + 1 \in DOMAIN items /\ n <= Len(items)
    BY <1>0
  <2>2. KeptOf(items, drop)[n + 1] = Append(SubSeq(items, 1, n), items[n + 1])
    <3>1. KeptOf(items, drop)[n] = SubSeq(items, 1, n)
      BY <1>2, <2>1
    <3>2. items[n + 1] \notin drop
      BY <2>1
    <3>3. KeptOf(items, drop)[n + 1] = IF items[n + 1] \in drop THEN KeptOf(items, drop)[n]
                                       ELSE Append(KeptOf(items, drop)[n], items[n + 1])
      <4> HIDE DEF P
      <4> QED BY FilterStep
    <3> QED BY <3>1, <3>2, <3>3
  <2>3. Append(SubSeq(items, 1, n), items[n + 1]) = SubSeq(items, 1, n + 1)
    BY <1>0, <2>1
  <2> QED BY <2>2, <2>3
<1>3. Nat \subseteq {n \in Nat : P(n)}
  <2> HIDE DEF P
  <2> QED BY <1>1, <1>2, NatBySet
<1>4. KeptOf(items, drop)[Len(items)] = SubSeq(items, 1, Len(items))
  BY <1>0, <1>3
<1>5. SubSeq(items, 1, Len(items)) = items
  BY <1>0
<1> QED BY <1>4, <1>5 DEF Without

-----------------------------------------------------------------------------
(* The lines of an rc file. *)
Kept(lines) == KeptOf(lines, Tags)
LineSet == Written \cup {"alias", "mention"}

LEMMA TaggedLines ==
    /\ \A line \in Written : ~Tagged(line)
    /\ \A line \in LineSet : ~Tagged(line) => line \in Written
    /\ Tagged("alias") /\ Tagged("mention")
BY WrittenAssumption DEF Tagged, Tags, LineSet

LEMMA KeptStep ==
    ASSUME NEW lines \in Seq(LineSet)
    PROVE  /\ Kept(lines)[0] = << >>
           /\ \A n \in Nat : n + 1 <= Len(lines) =>
                Kept(lines)[n + 1] = IF Tagged(lines[n + 1]) THEN Kept(lines)[n]
                                     ELSE Append(Kept(lines)[n], lines[n + 1])
BY FilterStep DEF Kept, Tagged

(* What is kept are lines of the user. *)
LEMMA KeptLines ==
    ASSUME NEW lines \in Seq(LineSet), NEW n \in 0 .. Len(lines)
    PROVE  Kept(lines)[n] \in Seq(Written)
<1> DEFINE S == {k \in Nat : k <= Len(lines) => Kept(lines)[k] \in Seq(Written)}
<1>0. Len(lines) \in Nat
  BY LenProperties
<1>1. 0 \in S
  <2>1. Kept(lines)[0] = << >> /\ << >> \in Seq(Written)
    BY KeptStep, EmptySeq
  <2> QED BY <2>1
<1>2. ASSUME NEW k \in Nat, k \in S PROVE k + 1 \in S
  <2>1. SUFFICES ASSUME k + 1 <= Len(lines) PROVE Kept(lines)[k + 1] \in Seq(Written)
    OBVIOUS
  <2>2. Kept(lines)[k] \in Seq(Written) /\ lines[k + 1] \in LineSet
    BY <1>0, <1>2, <2>1, ElementOfSeq
  <2>3. Kept(lines)[k + 1] = IF Tagged(lines[k + 1]) THEN Kept(lines)[k]
                             ELSE Append(Kept(lines)[k], lines[k + 1])
    BY <2>1, KeptStep
  <2>4. ~Tagged(lines[k + 1]) => lines[k + 1] \in Written
    BY <2>2, TaggedLines
  <2> QED BY <2>2, <2>3, <2>4, AppendProperties
<1> HIDE DEF S
<1>3. n \in S
  BY <1>0, <1>1, <1>2, NatBySet
<1> QED BY <1>0, <1>3 DEF S

(* Texts that agree in their untagged lines, one by one, agree in what is  *)
(* kept of them.                                                           *)
LEMMA KeptSame ==
    ASSUME NEW lines \in Seq(LineSet), NEW more \in Seq(LineSet), NEW n \in Nat,
           n <= Len(lines), n <= Len(more),
           \A i \in 1 .. n : lines[i] = more[i] \/ (Tagged(lines[i]) /\ Tagged(more[i]))
    PROVE  Kept(lines)[n] = Kept(more)[n]
<1> DEFINE S == {k \in Nat : k <= n => Kept(lines)[k] = Kept(more)[k]}
<1>0. Len(lines) \in Nat /\ Len(more) \in Nat
  BY LenProperties
<1>1. 0 \in S
  BY KeptStep
<1>2. ASSUME NEW k \in Nat, k \in S PROVE k + 1 \in S
  <2>1. SUFFICES ASSUME k + 1 <= n PROVE Kept(lines)[k + 1] = Kept(more)[k + 1]
    OBVIOUS
  <2>2. Kept(lines)[k] = Kept(more)[k] /\ k + 1 \in 1 .. n /\ k + 1 <= Len(lines) /\ k + 1 <= Len(more)
    BY <1>0, <1>2, <2>1
  <2>3. /\ Kept(lines)[k + 1] = IF Tagged(lines[k + 1]) THEN Kept(lines)[k]
                                ELSE Append(Kept(lines)[k], lines[k + 1])
        /\ Kept(more)[k + 1] = IF Tagged(more[k + 1]) THEN Kept(more)[k]
                               ELSE Append(Kept(more)[k], more[k + 1])
    BY <2>2, KeptStep
  <2> QED BY <2>2, <2>3
<1> HIDE DEF S
<1>3. n \in S
  BY <1>1, <1>2, NatBySet
<1> QED BY <1>3 DEF S

-----------------------------------------------------------------------------
(* The same of texts. *)
Texts == [lines : Seq(LineSet), ended : BOOLEAN]
OneIn(lines) == \A i, j \in DOMAIN lines : lines[i] = "alias" /\ lines[j] = "alias" => i = j

LEMMA LinesOfText ==
    ASSUME NEW lines \in Seq(LineSet), NEW ended \in BOOLEAN
    PROVE  RcText(lines, ended) \in Texts /\ Lines(RcText(lines, ended)) = lines
<1>1. RcText(lines, ended) # Missing
  BY DEF RcText, Missing
<1> QED BY <1>1 DEF RcText, Texts, Lines

LEMMA LinesAreLines ==
    ASSUME NEW text \in Texts \cup {Missing}
    PROVE  Lines(text) \in Seq(LineSet) /\ UserLines(text) \in Seq(Written)
<1>1. Lines(text) \in Seq(LineSet)
  BY EmptySeq DEF Lines, Texts
<1>2. Len(Lines(text)) \in 0 .. Len(Lines(text))
  BY <1>1, LenProperties
<1> QED BY <1>1, <1>2, KeptLines DEF UserLines, Without, Kept

LEMMA EmptyText == Empty \in Texts /\ Lines(Empty) = << >> /\ UserLines(Empty) = << >> /\ OneIn(Lines(Empty))
<1>1. << >> \in Seq(LineSet)
  BY EmptySeq
<1>2. Empty \in Texts /\ Lines(Empty) = << >>
  BY <1>1, LinesOfText DEF Empty
<1>3. UserLines(Empty) = << >>
  BY <1>1, <1>2, KeptStep, EmptySeq DEF UserLines, Without, Kept
<1>4. OneIn(Lines(Empty))
  BY <1>1, <1>2, LenProperties, EmptySeq DEF OneIn
<1> QED BY <1>2, <1>3, <1>4

(* add_alias, and a line of the user. *)
LEMMA AppendedText ==
    ASSUME NEW text \in Texts \cup {Missing}, NEW line \in LineSet, NEW ended \in BOOLEAN
    PROVE  LET new == RcText(Append(Lines(text), line), ended)
           IN  /\ new \in Texts
               /\ UserLines(new) = IF Tagged(line) THEN UserLines(text) ELSE Append(UserLines(text), line)
               /\ OneIn(Lines(text)) /\ (line = "alias" => ~HasAlias(text)) => OneIn(Lines(new))
<1> DEFINE lines == Lines(text)
           more == Append(lines, line)
           n == Len(lines)
<1>1. lines \in Seq(LineSet) /\ n \in Nat
  BY LinesAreLines, LenProperties
<1> HIDE DEF lines
<1>2. /\ more \in Seq(LineSet) /\ Len(more) = n + 1 /\ more[n + 1] = line
      /\ \A i \in 1 .. n : more[i] = lines[i]
  BY <1>1, AppendProperties
<1> HIDE DEF more, n
<1>3. RcText(more, ended) \in Texts /\ Lines(RcText(more, ended)) = more
  BY <1>2, LinesOfText
<1>4. Kept(more)[n + 1] = IF Tagged(line) THEN Kept(lines)[n] ELSE Append(Kept(lines)[n], line)
  <2>1. n <= Len(lines) /\ n <= Len(more) /\ n + 1 <= Len(more)
    BY <1>1, <1>2 DEF n
  <2>2. Kept(lines)[n] = Kept(more)[n]
    BY <1>1, <1>2, <2>1, KeptSame
  <2>3. Kept(more)[n + 1] = IF Tagged(more[n + 1]) THEN Kept(more)[n] ELSE Append(Kept(more)[n], more[n + 1])
    BY <1>1, <1>2, <2>1, KeptStep
  <2> QED BY <1>2, <2>2, <2>3
<1>5. UserLines(RcText(more, ended)) = IF Tagged(line) THEN UserLines(text) ELSE Append(UserLines(text), line)
  BY <1>2, <1>3, <1>4 DEF UserLines, Without, Kept, lines, n
<1>6. ASSUME OneIn(lines), line = "alias" => ~HasAlias(text) PROVE OneIn(more)
  <2>1. DOMAIN lines = 1 .. n /\ DOMAIN more = 1 .. n + 1
    BY <1>1, <1>2, LenProperties DEF n
  <2>2. ASSUME NEW i \in 1 .. n + 1, NEW j \in 1 .. n + 1, more[i] = "alias", more[j] = "alias"
        PROVE  i = j
    <3>1. CASE line = "alias"
      <4>1. \A k \in 1 .. n : lines[k] # "alias"
        BY <1>6, <2>1, <3>1, TaggedLines DEF HasAlias, lines
      <4> QED BY <1>1, <1>2, <2>2, <4>1
    <3>2. CASE line # "alias"
      <4>1. i \in 1 .. n /\ j \in 1 .. n
        BY <1>1, <1>2, <2>2, <3>2
      <4> QED BY <1>2, <1>6, <2>1, <2>2, <4>1 DEF OneIn
    <3> QED BY <3>1, <3>2
  <2> QED BY <2>1, <2>2 DEF OneIn
<1> QED BY <1>3, <1>5, <1>6 DEF lines, more

(* remove_alias. *)
LEMMA CleanedText ==
    ASSUME NEW text \in Texts \cup {Missing}
    PROVE  LET new == WithoutAlias(text)
           IN  /\ new \in Texts /\ UserLines(new) = UserLines(text)
               /\ \A i \in DOMAIN Lines(new) : ~Tagged(Lines(new)[i])
<1> DEFINE kept == UserLines(text)
<1>1. kept \in Seq(Written)
  BY LinesAreLines
<1> HIDE DEF kept
<1>2. kept \in Seq(LineSet)
  BY <1>1, SeqMonotonic DEF LineSet
<1>3. RcText(kept, TRUE) \in Texts /\ Lines(RcText(kept, TRUE)) = kept
  BY <1>2, LinesOfText
<1>4. \A i \in DOMAIN kept : ~Tagged(kept[i])
  BY <1>1, LenProperties, ElementOfSeq, TaggedLines
<1>5. UserLines(RcText(kept, TRUE)) = kept
  BY <1>1, <1>3, <1>4, WithoutNothing DEF UserLines, Tagged
<1> QED BY <1>3, <1>4, <1>5 DEF WithoutAlias, kept

(* The alias is commented out. *)
LEMMA CommentedText ==
    ASSUME NEW text \in Texts
    PROVE  LET new == RcText(CommentedOut(text.lines), text.ended)
           IN  new \in Texts /\ UserLines(new) = UserLines(text) /\ OneIn(Lines(new))
<1> DEFINE lines == text.lines
           more == CommentedOut(lines)
<1>1. lines \in Seq(LineSet) /\ text.ended \in BOOLEAN /\ Lines(text) = lines
  <2>1. text = RcText(text.lines, text.ended) /\ text.lines \in Seq(LineSet) /\ text.ended \in BOOLEAN
    BY DEF Texts, RcText
  <2> QED BY <2>1, LinesOfText
<1> HIDE DEF lines
<1>2. Len(lines) \in Nat /\ DOMAIN lines = 1 .. Len(lines) /\ \A i \in 1 .. Len(lines) : lines[i] \in LineSet
  BY <1>1, LenProperties, ElementOfSeq
<1>3. /\ more \in [1 .. Len(lines) -> LineSet]
      /\ \A i \in 1 .. Len(lines) : more[i] # "alias" /\ (more[i] = lines[i] \/ (Tagged(more[i]) /\ Tagged(lines[i])))
  BY <1>2, TaggedLines DEF CommentedOut, LineSet
<1>4. more \in Seq(LineSet) /\ Len(more) = Len(lines)
  <2> HIDE DEF more
  <2>1. more \in Seq(LineSet)
    BY <1>2, <1>3, SeqDef
  <2>2. DOMAIN more = 1 .. Len(lines) /\ DOMAIN more = 1 .. Len(more) /\ Len(more) \in Nat
    BY <1>3, <2>1, LenProperties
  <2> QED BY <1>2, <2>1, <2>2
<1> HIDE DEF more
<1>5. RcText(more, text.ended) \in Texts /\ Lines(RcText(more, text.ended)) = more
  BY <1>1, <1>4, LinesOfText
<1>6. Kept(lines)[Len(lines)] = Kept(more)[Len(lines)]
  <2>1. Len(lines) <= Len(lines) /\ Len(lines) <= Len(more)
    BY <1>2, <1>4
  <2> QED BY <1>1, <1>2, <1>3, <1>4, <2>1, KeptSame
<1>7. OneIn(more)
  BY <1>3 DEF OneIn
<1> QED BY <1>1, <1>4, <1>5, <1>6, <1>7 DEF UserLines, Without, Kept, lines, more

-----------------------------------------------------------------------------
(* Types, whoever types what: the rc files are texts, and a command under  *)
(* way has a shell and knows what it is.                                   *)
Names == {"hijack", "release", "uninstall"}
Preparing == [stage : {"adding", "reading", "removing"}, name : Names, shell : Shells]
Writing == [stage : {"truncating", "filling"}, name : Names, shell : Shells, text : Texts]
Command(c) == c.stage = "idle" \/ c \in Preparing \cup Writing
TypeOK ==
    /\ rc \in [Shells -> Texts \cup {Missing}]
    /\ mine \in [Shells -> Seq(Written)]
    /\ cmd = [t \in Terminals |-> cmd[t]]
    /\ \A t \in Terminals : Command(cmd[t])

(* What a launch says is what config.json and the environment say.         *)
Launched(c) == c.stage = "idle" /\ c.result = "launch" => c.config = LoadConfig(file, env)
LaunchInv == \A t \in Terminals : Launched(cmd[t])

(* One terminal: the files are the user's, with an alias at most; what a   *)
(* command is about to write is too; who adds an alias has seen none.      *)
RcInv(s) ==
    /\ OneIn(Lines(rc[s]))
    /\ (\A t \in Terminals : ~(At(t, "filling") /\ cmd[t].shell = s)) => UserLines(rc[s]) = mine[s]
CommandInv(c) ==
    /\ c.stage = "reading" => ~HasAlias(rc[c.shell])
    /\ c.stage \in {"truncating", "filling"} =>
        /\ OneIn(Lines(c.text)) /\ UserLines(c.text) = mine[c.shell]
FileInv == (\A s \in Shells : RcInv(s)) /\ (\A t \in Terminals : CommandInv(cmd[t]))

(* One shell too: who has uninstalled, or is about to, leaves no alias.    *)
NoAlias(text) == \A i \in DOMAIN Lines(text) : Lines(text)[i] # "alias"
Uninstalls(c) ==
    /\ c.stage \in {"adding", "reading"} => c.name = "hijack"
    /\ c.stage \in {"truncating", "filling"} /\ c.name = "uninstall" => NoAlias(c.text)
    /\ c.stage = "idle" /\ c.result = "uninstalled" => \A s \in Shells : NoAlias(rc[s])
UninstallInv == \A t \in Terminals : Uninstalls(cmd[t])

OneTerminal == \A t, u \in Terminals : t = u
OneShell == \A s, r \in Shells : s = r

LEMMA CommandStep ==
    ASSUME TypeOK, LaunchInv, NEW t \in Terminals, NEW c, cmd' = [cmd EXCEPT ![t] = c],
           Command(c), Launched(c), UNCHANGED <<file, env>>,
           rc' \in [Shells -> Texts \cup {Missing}], mine' = mine
    PROVE  /\ TypeOK' /\ LaunchInv'
           /\ cmd'[t] = c /\ \A u \in Terminals : u # t => cmd'[u] = cmd[u]
<1>1. cmd'[t] = c /\ (\A u \in Terminals : u # t => cmd'[u] = cmd[u]) /\ cmd' = [u \in Terminals |-> cmd'[u]]
  BY DEF TypeOK
<1>2. TypeOK'
  BY <1>1 DEF TypeOK, Command
<1>3. LaunchInv'
  BY <1>1 DEF LaunchInv, Launched
<1> QED BY <1>1, <1>2, <1>3

LEMMA IdleCommand ==
    ASSUME NEW r, r # "launch"
    PROVE  Idle(r).stage = "idle" /\ Idle(r).result = r /\ Command(Idle(r)) /\ Launched(Idle(r))
BY DEF Idle, Command, Launched

LEMMA PreparingCommand ==
    ASSUME NEW step \in {"adding", "reading", "removing"}, NEW name \in Names, NEW s \in Shells
    PROVE  LET c == [stage |-> step, name |-> name, shell |-> s]
           IN  c \in Preparing /\ Command(c) /\ Launched(c)
BY DEF Preparing, Command, Launched

LEMMA EndedIs ==
    ASSUME TypeOK, NEW t \in Terminals, cmd[t].stage # "idle"
    PROVE  Ended(t) # "launch" /\ (Ended(t) = "uninstalled" <=> cmd[t].name = "uninstall")
<1>1. cmd[t].name \in Names
  BY DEF TypeOK, Command, Preparing, Writing
<1> QED BY <1>1 DEF Ended, Names

(* The commands that only prepare or answer: what they do to their own     *)
(* terminal, and that no file changes.                                     *)
Begins(t) ==
    \/ Install(t) \/ AddAlias(t) \/ Launch(t)
    \/ \E s \in Shells : Uninstall(t, s) \/ Hijack(t, s) \/ Release(t, s) \/ Status(t, s)
Answers(t, c) ==
    /\ cmd' = [cmd EXCEPT ![t] = c]
    /\ Command(c) /\ Launched(c)
    /\ c.stage \in {"idle", "adding", "reading", "removing"}
    /\ c.stage = "idle" => c.result # "uninstalled"
    /\ c.stage = "reading" => ~HasAlias(rc[c.shell])
    /\ c.stage \in {"adding", "reading"} => c.name = "hijack"

LEMMA BeginsStep ==
    ASSUME TypeOK, NEW t \in Terminals, Begins(t)
    PROVE  /\ \E c : Answers(t, c)
           /\ cmd[t].stage \in {"idle", "adding"}
           /\ UNCHANGED <<rc, mine, file, env>>
<1>1. \A r \in {"installed", "failed", "already active", "hijacked", "nothing to undo"} :
          Return(t, r) => Answers(t, Idle(r))
  BY IdleCommand DEF Return, Answers
<1>2. ASSUME NEW step \in {"adding", "reading", "removing"}, NEW name \in Names, NEW s \in Shells,
             Goto(t, step, name, s), step # "removing" => name = "hijack",
             step = "reading" => ~HasAlias(rc[s])
      PROVE  \E c : Answers(t, c)
  <2> DEFINE c == [stage |-> step, name |-> name, shell |-> s]
  <2>1. cmd' = [cmd EXCEPT ![t] = c] /\ Command(c) /\ Launched(c)
    BY <1>2, PreparingCommand DEF Goto
  <2>2. c.stage = step /\ c.name = name /\ c.shell = s
    OBVIOUS
  <2> HIDE DEF c
  <2>3. Answers(t, c)
    BY <1>2, <2>1, <2>2 DEF Answers
  <2> QED BY <2>3
<1>3. CASE Install(t)
  BY <1>1, <1>3 DEF Install, At
<1>4. CASE AddAlias(t)
  <2>1. cmd[t].shell \in Shells
    BY <1>4 DEF AddAlias, At, TypeOK, Command, Preparing, Writing
  <2> QED BY <1>1, <1>2, <1>4, <2>1 DEF AddAlias, At, Names, Rc
<1>5. CASE Launch(t)
  <2> DEFINE c == [stage |-> "idle", result |-> "launch", config |-> LoadConfig(file, env)]
  <2>1. Command(c) /\ Launched(c) /\ c.stage = "idle" /\ c.result # "uninstalled"
    BY DEF Command, Launched
  <2>2. cmd' = [cmd EXCEPT ![t] = c]
    BY <1>5 DEF Launch
  <2> HIDE DEF c
  <2>3. Answers(t, c)
    BY <2>1, <2>2 DEF Answers
  <2> QED BY <1>5, <2>3 DEF Launch, At
<1>6. ASSUME NEW s \in Shells, Uninstall(t, s) \/ Hijack(t, s) \/ Release(t, s)
      PROVE  (\E c : Answers(t, c)) /\ At(t, "idle") /\ UNCHANGED <<rc, mine, file, env>>
  BY <1>1, <1>2, <1>6 DEF Uninstall, Hijack, Release, Names
<1>7. ASSUME NEW s \in Shells, Status(t, s)
      PROVE  (\E c : Answers(t, c)) /\ At(t, "idle") /\ UNCHANGED <<rc, mine, file, env>>
  <2> DEFINE c == [stage |-> "idle", result |-> "status", hijack |-> HasAlias(rc[s]), runs |-> Runs(s)]
  <2>1. Command(c) /\ Launched(c) /\ c.stage = "idle" /\ c.result # "uninstalled"
    BY DEF Command, Launched
  <2>2. cmd' = [cmd EXCEPT ![t] = c]
    BY <1>7 DEF Status
  <2> HIDE DEF c
  <2>3. Answers(t, c)
    BY <2>1, <2>2 DEF Answers
  <2> QED BY <1>7, <2>3 DEF Status
<1> QED BY <1>3, <1>4, <1>5, <1>6, <1>7 DEF Begins, At

(* ReadRc ends a removal that finds nothing, or has a new text to write.   *)
LEMMA ReadRcStep ==
    ASSUME TypeOK, NEW t \in Terminals, ReadRc(t)
    PROVE  LET s == cmd[t].shell
               adding == At(t, "reading")
               new == IF adding THEN WithAlias(rc[s]) ELSE WithoutAlias(rc[s])
               c == [stage |-> "truncating", name |-> cmd[t].name, shell |-> s, text |-> new]
           IN  /\ UNCHANGED <<rc, mine, binary, file, env>>
               /\ s \in Shells /\ cmd[t].stage \in {"reading", "removing"} /\ new \in Texts
               /\ \/ ~adding /\ ~HasAlias(rc[s]) /\ Return(t, Ended(t))
                  \/ cmd' = [cmd EXCEPT ![t] = c] /\ c \in Writing
<1> DEFINE s == cmd[t].shell
           adding == At(t, "reading")
           new == IF adding THEN WithAlias(rc[s]) ELSE WithoutAlias(rc[s])
           c == [stage |-> "truncating", name |-> cmd[t].name, shell |-> s, text |-> new]
<1>1. s \in Shells /\ cmd[t].name \in Names /\ cmd[t].stage \in {"reading", "removing"}
  BY DEF ReadRc, TypeOK, Command, Preparing, Writing
<1>2. rc[s] \in Texts \cup {Missing}
  BY <1>1 DEF TypeOK
<1>3. new \in Texts
  BY <1>2, AppendedText, CleanedText DEF WithAlias, LineSet
<1>4. c \in Writing
  <2> HIDE DEF new, s
  <2> QED BY <1>1, <1>3 DEF Writing
<1>5. At(t, "removing") <=> ~adding
  BY <1>1 DEF At
<1> QED BY <1>1, <1>3, <1>4, <1>5 DEF ReadRc, Rc

LEMMA TruncateStep ==
    ASSUME TypeOK, NEW t \in Terminals, Truncate(t)
    PROVE  LET c == [stage |-> "filling", name |-> cmd[t].name, shell |-> cmd[t].shell, text |-> cmd[t].text]
           IN  /\ UNCHANGED <<mine, binary, file, env>> /\ rc' = [rc EXCEPT ![cmd[t].shell] = Empty]
               /\ cmd[t] \in Writing /\ cmd[t].stage = "truncating"
               /\ cmd' = [cmd EXCEPT ![t] = c] /\ c \in Writing
<1> DEFINE c == [stage |-> "filling", name |-> cmd[t].name, shell |-> cmd[t].shell, text |-> cmd[t].text]
<1>1. cmd[t] \in Writing /\ cmd[t].stage = "truncating"
  BY DEF Truncate, At, TypeOK, Command, Preparing
<1>2. c \in Writing /\ [cmd[t] EXCEPT !.stage = "filling"] = c
  BY <1>1 DEF Writing
<1>3. cmd' = [cmd EXCEPT ![t] = c]
  BY <1>2 DEF Truncate
<1> QED BY <1>1, <1>2, <1>3 DEF Truncate

LEMMA FillStep ==
    ASSUME TypeOK, NEW t \in Terminals, Fill(t)
    PROVE  LET c == [stage |-> "idle", result |-> Ended(t), shell |-> cmd[t].shell]
           IN  /\ UNCHANGED <<mine, binary, file, env>> /\ rc' = [rc EXCEPT ![cmd[t].shell] = cmd[t].text]
               /\ cmd[t] \in Writing /\ cmd[t].stage = "filling"
               /\ cmd' = [cmd EXCEPT ![t] = c] /\ Command(c) /\ Launched(c)
<1>1. cmd[t] \in Writing /\ cmd[t].stage = "filling"
  BY DEF Fill, At, TypeOK, Command, Preparing
<1> QED BY <1>1, EndedIs DEF Fill, Command, Launched

(* The user's edit of one file. *)
LEMMA EditRcStep ==
    ASSUME TypeOK, NEW s \in Shells, EditRc(s)
    PROVE  /\ UNCHANGED <<binary, file, env>> /\ \A t \in Terminals : At(t, "idle")
           /\ cmd' = [t \in Terminals |-> Idle("none")]
           /\ \E new \in Texts, lines \in Seq(Written) :
                /\ rc' = [rc EXCEPT ![s] = new] /\ mine' = [mine EXCEPT ![s] = lines]
                /\ UserLines(rc[s]) = mine[s] => UserLines(new) = lines
                /\ OneIn(Lines(rc[s])) => OneIn(Lines(new))
<1>0. rc[s] \in Texts \cup {Missing} /\ mine[s] \in Seq(Written) /\ mine = [r \in Shells |-> mine[r]]
  BY DEF TypeOK
<1>1. ASSUME NEW line \in Written, NEW ended \in BOOLEAN,
             rc' = [rc EXCEPT ![s] = RcText(Append(Lines(@), line), ended)],
             mine' = [mine EXCEPT ![s] = Append(@, line)]
      PROVE  \E new \in Texts, lines \in Seq(Written) :
                /\ rc' = [rc EXCEPT ![s] = new] /\ mine' = [mine EXCEPT ![s] = lines]
                /\ UserLines(rc[s]) = mine[s] => UserLines(new) = lines
                /\ OneIn(Lines(rc[s])) => OneIn(Lines(new))
  <2> DEFINE new == RcText(Append(Lines(rc[s]), line), ended)
             lines == Append(mine[s], line)
  <2>1. line \in LineSet /\ ~Tagged(line) /\ line # "alias"
    BY TaggedLines DEF LineSet
  <2>2. /\ new \in Texts /\ UserLines(new) = Append(UserLines(rc[s]), line)
        /\ OneIn(Lines(rc[s])) => OneIn(Lines(new))
    BY <1>0, <2>1, AppendedText
  <2>3. lines \in Seq(Written)
    BY <1>0, AppendProperties
  <2>4. rc' = [rc EXCEPT ![s] = new] /\ mine' = [mine EXCEPT ![s] = lines]
    BY <1>1
  <2>5. UserLines(rc[s]) = mine[s] => UserLines(new) = lines
    BY <2>2
  <2> HIDE DEF new, lines
  <2> QED BY <2>2, <2>3, <2>4, <2>5
<1>2. ASSUME Contains(Lines(rc[s]), "alias"), UNCHANGED mine,
             rc' = [rc EXCEPT ![s] = RcText(CommentedOut(@.lines), @.ended)]
      PROVE  \E new \in Texts, lines \in Seq(Written) :
                /\ rc' = [rc EXCEPT ![s] = new] /\ mine' = [mine EXCEPT ![s] = lines]
                /\ UserLines(rc[s]) = mine[s] => UserLines(new) = lines
                /\ OneIn(Lines(rc[s])) => OneIn(Lines(new))
  <2> DEFINE new == RcText(CommentedOut(rc[s].lines), rc[s].ended)
  <2>1. rc[s] # Missing
    BY <1>2, EmptySeq DEF Lines, Contains
  <2>2. new \in Texts /\ UserLines(new) = UserLines(rc[s]) /\ OneIn(Lines(new))
    BY <1>0, <2>1, CommentedText
  <2>3. rc' = [rc EXCEPT ![s] = new] /\ mine' = [mine EXCEPT ![s] = mine[s]]
    BY <1>0, <1>2
  <2> HIDE DEF new
  <2> QED BY <1>0, <2>2, <2>3
<1> QED BY <1>1, <1>2 DEF EditRc

-----------------------------------------------------------------------------
(* TypeOK and LaunchInv are kept by every step. *)
LEMMA TypeStep == TypeOK /\ LaunchInv /\ [Next]_vars => TypeOK' /\ LaunchInv'
<1> SUFFICES ASSUME TypeOK, LaunchInv, [Next]_vars PROVE TypeOK' /\ LaunchInv'
  OBVIOUS
<1>1. ASSUME NEW t \in Terminals, Begins(t) PROVE TypeOK' /\ LaunchInv'
  <2>1. PICK c : Answers(t, c)
    BY <1>1, BeginsStep
  <2> QED BY <1>1, <2>1, BeginsStep, CommandStep DEF Answers, TypeOK
<1>2. ASSUME NEW t \in Terminals, ReadRc(t) PROVE TypeOK' /\ LaunchInv'
  <2>1. UNCHANGED <<rc, mine, file, env>> /\ cmd[t].stage # "idle"
    BY <1>2 DEF ReadRc
  <2>2. \E d : cmd' = [cmd EXCEPT ![t] = d] /\ Command(d) /\ Launched(d)
    <3>1. CASE Return(t, Ended(t))
      BY <2>1, <3>1, IdleCommand, EndedIs DEF Return
    <3>2. ASSUME NEW d \in Writing, cmd' = [cmd EXCEPT ![t] = d]
          PROVE  Command(d) /\ Launched(d)
      BY DEF Command, Launched, Writing
    <3> QED BY <1>2, <3>1, <3>2, ReadRcStep
  <2> QED BY <2>1, <2>2, CommandStep DEF TypeOK
<1>3. ASSUME NEW t \in Terminals, Truncate(t) PROVE TypeOK' /\ LaunchInv'
  <2>1. PICK c \in Writing : cmd' = [cmd EXCEPT ![t] = c]
    BY <1>3, TruncateStep
  <2>2. rc' \in [Shells -> Texts \cup {Missing}]
    BY <1>3, TruncateStep, EmptyText DEF TypeOK
  <2>3. Command(c) /\ Launched(c)
    BY DEF Command, Launched, Writing
  <2> QED BY <1>3, <2>1, <2>2, <2>3, TruncateStep, CommandStep
<1>4. ASSUME NEW t \in Terminals, Fill(t) PROVE TypeOK' /\ LaunchInv'
  <2>1. PICK c : cmd' = [cmd EXCEPT ![t] = c] /\ Command(c) /\ Launched(c)
    BY <1>4, FillStep
  <2>2. rc' \in [Shells -> Texts \cup {Missing}]
    BY <1>4, FillStep DEF TypeOK, Writing
  <2> QED BY <1>4, <2>1, <2>2, FillStep, CommandStep
<1>5. ASSUME NEW s \in Shells, EditRc(s) PROVE TypeOK' /\ LaunchInv'
  <2>1. rc' \in [Shells -> Texts \cup {Missing}] /\ mine' \in [Shells -> Seq(Written)]
    BY <1>5, EditRcStep DEF TypeOK
  <2>2. cmd' = [t \in Terminals |-> cmd'[t]] /\ \A t \in Terminals : cmd'[t] = Idle("none")
    BY <1>5, EditRcStep
  <2>3. Idle("none").stage = "idle" /\ Idle("none").result = "none"
    BY IdleCommand
  <2> QED BY <2>1, <2>2, <2>3 DEF TypeOK, Command, LaunchInv, Launched
<1>6. CASE UNCHANGED vars
  BY <1>6 DEF vars, TypeOK, LaunchInv, Command, Launched
<1> QED BY <1>1, <1>2, <1>3, <1>4, <1>5, <1>6 DEF Next, Begins

(* With one terminal FileInv is too. *)
LEMMA FileStep == ASSUME OneTerminal PROVE TypeOK /\ LaunchInv /\ FileInv /\ [Next]_vars => FileInv'
<1> SUFFICES ASSUME TypeOK, LaunchInv, FileInv, [Next]_vars PROVE FileInv'
  OBVIOUS
<1>0. /\ \A t, u \in Terminals : t = u
      /\ \A s \in Shells : rc[s] \in Texts \cup {Missing}
  BY DEF OneTerminal, TypeOK
<1>1. ASSUME NEW t \in Terminals, Begins(t) PROVE FileInv'
  <2>1. PICK c : Answers(t, c)
    BY <1>1, BeginsStep
  <2>2. /\ cmd'[t] = c /\ cmd[t].stage \in {"idle", "adding"} /\ UNCHANGED <<rc, mine>>
    BY <1>1, <2>1, BeginsStep DEF Answers, TypeOK
  <2>3. ASSUME NEW s \in Shells PROVE RcInv(s)'
    BY <1>0, <2>2 DEF FileInv, RcInv, At
  <2>4. ASSUME NEW u \in Terminals PROVE CommandInv(cmd[u])'
    BY <1>0, <2>1, <2>2 DEF Answers, CommandInv
  <2> QED BY <2>3, <2>4 DEF FileInv
<1>2. ASSUME NEW t \in Terminals, ReadRc(t) PROVE FileInv'
  <2> DEFINE s == cmd[t].shell
             new == IF At(t, "reading") THEN WithAlias(rc[s]) ELSE WithoutAlias(rc[s])
             c == [stage |-> "truncating", name |-> cmd[t].name, shell |-> s, text |-> new]
  <2>1. /\ UNCHANGED <<rc, mine>> /\ s \in Shells /\ cmd[t].stage \in {"reading", "removing"} /\ new \in Texts
        /\ Return(t, Ended(t)) \/ cmd' = [cmd EXCEPT ![t] = c]
    BY <1>2, ReadRcStep
  <2>2. UserLines(rc[s]) = mine[s] /\ OneIn(Lines(rc[s])) /\ (At(t, "reading") => ~HasAlias(rc[s]))
    BY <1>0, <2>1 DEF FileInv, RcInv, CommandInv, At
  <2>3. UserLines(new) = mine[s] /\ OneIn(Lines(new))
    <3>1. CASE At(t, "reading")
      <4>1. "alias" \in LineSet /\ Tagged("alias")
        BY TaggedLines DEF LineSet
      <4> QED BY <1>0, <2>1, <2>2, <3>1, <4>1, AppendedText DEF WithAlias
    <3>2. CASE ~At(t, "reading")
      BY <1>0, <2>1, <2>2, <3>2, CleanedText, TaggedLines DEF OneIn
    <3> QED BY <3>1, <3>2
  <2>4. cmd'[t].stage \in {"idle", "truncating"} /\ (cmd'[t].stage = "truncating" => cmd'[t].text = new /\ cmd'[t].shell = s)
    <3>1. CASE Return(t, Ended(t))
      BY <3>1 DEF Return, Idle, TypeOK
    <3>2. CASE cmd' = [cmd EXCEPT ![t] = c]
      <4>1. cmd'[t] = c
        BY <3>2 DEF TypeOK
      <4> QED BY <4>1
    <3> QED BY <2>1, <3>1, <3>2
  <2> HIDE DEF new, c, s
  <2>5. ASSUME NEW r \in Shells PROVE RcInv(r)'
    BY <1>0, <2>1, <2>4 DEF FileInv, RcInv, At
  <2>6. ASSUME NEW u \in Terminals PROVE CommandInv(cmd[u])'
    BY <1>0, <2>1, <2>3, <2>4 DEF CommandInv
  <2> QED BY <2>5, <2>6 DEF FileInv
<1>3. ASSUME NEW t \in Terminals, Truncate(t) PROVE FileInv'
  <2> DEFINE s == cmd[t].shell
             c == [stage |-> "filling", name |-> cmd[t].name, shell |-> s, text |-> cmd[t].text]
  <2>1. /\ UNCHANGED mine /\ rc' = [rc EXCEPT ![s] = Empty] /\ s \in Shells
        /\ cmd[t].stage = "truncating" /\ cmd' = [cmd EXCEPT ![t] = c]
    BY <1>3, TruncateStep DEF Writing
  <2>2. cmd'[t] = c
    BY <2>1 DEF TypeOK
  <2>3. cmd'[t].stage = "filling" /\ cmd'[t].shell = s /\ cmd'[t].text = cmd[t].text
    BY <2>2
  <2>4. OneIn(Lines(cmd[t].text)) /\ UserLines(cmd[t].text) = mine[s]
    BY <2>1 DEF FileInv, CommandInv
  <2> HIDE DEF s, c
  <2>5. rc'[s] = Empty /\ \A r \in Shells : r # s => rc'[r] = rc[r]
    BY <2>1 DEF TypeOK
  <2>6. ASSUME NEW r \in Shells PROVE RcInv(r)'
    <3>1. CASE r = s
      BY <2>3, <2>5, <3>1, EmptyText DEF RcInv, At
    <3>2. CASE r # s
      BY <1>0, <2>1, <2>5, <3>2 DEF FileInv, RcInv, At
    <3> QED BY <3>1, <3>2
  <2>7. ASSUME NEW u \in Terminals PROVE CommandInv(cmd[u])'
    BY <1>0, <2>1, <2>3, <2>4 DEF CommandInv
  <2> QED BY <2>6, <2>7 DEF FileInv
<1>4. ASSUME NEW t \in Terminals, Fill(t) PROVE FileInv'
  <2> DEFINE s == cmd[t].shell
             c == [stage |-> "idle", result |-> Ended(t), shell |-> s]
  <2>1. /\ UNCHANGED mine /\ rc' = [rc EXCEPT ![s] = cmd[t].text] /\ s \in Shells
        /\ cmd[t].stage = "filling" /\ cmd' = [cmd EXCEPT ![t] = c]
    BY <1>4, FillStep DEF Writing
  <2>2. cmd'[t] = c
    BY <2>1 DEF TypeOK
  <2>3. cmd'[t].stage = "idle"
    BY <2>2
  <2>4. OneIn(Lines(cmd[t].text)) /\ UserLines(cmd[t].text) = mine[s]
    BY <2>1 DEF FileInv, CommandInv
  <2>5. rc'[s] = cmd[t].text /\ \A r \in Shells : r # s => rc'[r] = rc[r]
    BY <2>1 DEF TypeOK
  <2>6. ASSUME NEW r \in Shells PROVE RcInv(r)'
    <3>1. CASE r = s
      BY <2>1, <2>4, <2>5, <3>1 DEF RcInv
    <3>2. CASE r # s
      BY <1>0, <2>1, <2>5, <3>2 DEF FileInv, RcInv, At
    <3> QED BY <3>1, <3>2
  <2>7. ASSUME NEW u \in Terminals PROVE CommandInv(cmd[u])'
    BY <1>0, <2>3 DEF CommandInv
  <2> QED BY <2>6, <2>7 DEF FileInv
<1>5. ASSUME NEW s \in Shells, EditRc(s) PROVE FileInv'
  <2>1. PICK new \in Texts, lines \in Seq(Written) :
             /\ rc' = [rc EXCEPT ![s] = new] /\ mine' = [mine EXCEPT ![s] = lines]
             /\ UserLines(rc[s]) = mine[s] => UserLines(new) = lines
             /\ OneIn(Lines(rc[s])) => OneIn(Lines(new))
    BY <1>5, EditRcStep
  <2>2. \A t \in Terminals : cmd[t].stage = "idle" /\ cmd'[t].stage = "idle"
    BY <1>5, EditRcStep, IdleCommand DEF At
  <2>3. ASSUME NEW r \in Shells PROVE RcInv(r)'
    <3>1. UserLines(rc[r]) = mine[r] /\ OneIn(Lines(rc[r]))
      BY <2>2 DEF FileInv, RcInv, At
    <3>2. CASE r = s
      <4>1. rc'[r] = new /\ mine'[r] = lines
        BY <2>1, <3>2 DEF TypeOK
      <4> QED BY <2>1, <3>1, <3>2, <4>1 DEF RcInv
    <3>3. CASE r # s
      <4>1. rc'[r] = rc[r] /\ mine'[r] = mine[r]
        BY <2>1, <3>3 DEF TypeOK
      <4> QED BY <3>1, <4>1 DEF RcInv
    <3> QED BY <3>2, <3>3
  <2> QED BY <2>2, <2>3 DEF FileInv, CommandInv
<1>6. CASE UNCHANGED vars
  BY <1>6 DEF vars, FileInv, RcInv, CommandInv, At
<1> QED BY <1>1, <1>2, <1>3, <1>4, <1>5, <1>6 DEF Next, Begins

(* With one shell too, UninstallInv is. *)
LEMMA UninstallStep ==
    ASSUME OneTerminal, OneShell
    PROVE  TypeOK /\ LaunchInv /\ UninstallInv /\ [Next]_vars => UninstallInv'
<1> SUFFICES ASSUME TypeOK, LaunchInv, UninstallInv, [Next]_vars PROVE UninstallInv'
  OBVIOUS
<1>0. /\ \A t, u \in Terminals : t = u
      /\ \A s \in Shells : rc[s] \in Texts \cup {Missing}
      /\ \A s, r \in Shells : s = r
  BY DEF OneTerminal, OneShell, TypeOK
<1>1. ASSUME NEW t \in Terminals, Begins(t) PROVE UninstallInv'
  <2>1. PICK c : Answers(t, c)
    BY <1>1, BeginsStep
  <2>2. cmd'[t] = c
    BY <2>1 DEF Answers, TypeOK
  <2> QED BY <1>0, <2>1, <2>2 DEF Answers, UninstallInv, Uninstalls
<1>2. ASSUME NEW t \in Terminals, ReadRc(t) PROVE UninstallInv'
  <2> DEFINE s == cmd[t].shell
             new == IF At(t, "reading") THEN WithAlias(rc[s]) ELSE WithoutAlias(rc[s])
             c == [stage |-> "truncating", name |-> cmd[t].name, shell |-> s, text |-> new]
  <2>1. /\ UNCHANGED rc /\ s \in Shells /\ cmd[t].stage \in {"reading", "removing"}
        /\ \/ ~HasAlias(rc[s]) /\ Return(t, Ended(t))
           \/ cmd' = [cmd EXCEPT ![t] = c]
    BY <1>2, ReadRcStep
  <2>2. CASE ~HasAlias(rc[s]) /\ Return(t, Ended(t))
    <3>1. cmd'[t].stage = "idle"
      BY <2>2, IdleCommand, EndedIs, <2>1 DEF Return, TypeOK
    <3>2. NoAlias(rc[s])
      BY <2>2, TaggedLines DEF HasAlias, NoAlias
    <3>3. \A r \in Shells : NoAlias(rc[r])'
      BY <1>0, <2>1, <3>2 DEF NoAlias
    <3> QED BY <1>0, <3>1, <3>3 DEF UninstallInv, Uninstalls
  <2>3. CASE cmd' = [cmd EXCEPT ![t] = c]
    <3>1. cmd'[t] = c
      BY <2>3 DEF TypeOK
    <3>2. cmd'[t].stage = "truncating" /\ cmd'[t].name = cmd[t].name /\ cmd'[t].text = new
      BY <3>1
    <3>3. cmd[t].name = "uninstall" => ~At(t, "reading")
      BY DEF UninstallInv, Uninstalls, At
    <3>4. ~At(t, "reading") => NoAlias(new)
      BY <1>0, <2>1, CleanedText, TaggedLines DEF NoAlias
    <3> HIDE DEF new, c
    <3>5. Uninstalls(cmd[t])'
      BY <3>2, <3>3, <3>4 DEF Uninstalls, NoAlias
    <3> QED BY <1>0, <3>5 DEF UninstallInv
  <2> QED BY <2>1, <2>2, <2>3
<1>3. ASSUME NEW t \in Terminals, Truncate(t) PROVE UninstallInv'
  <2> DEFINE c == [stage |-> "filling", name |-> cmd[t].name, shell |-> cmd[t].shell, text |-> cmd[t].text]
  <2>1. cmd[t].stage = "truncating" /\ cmd' = [cmd EXCEPT ![t] = c]
    BY <1>3, TruncateStep
  <2>2. cmd'[t] = c
    BY <2>1 DEF TypeOK
  <2>3. cmd'[t].stage = "filling" /\ cmd'[t].name = cmd[t].name /\ cmd'[t].text = cmd[t].text
    BY <2>2
  <2>4. Uninstalls(cmd[t])'
    BY <2>1, <2>3 DEF UninstallInv, Uninstalls, NoAlias
  <2> QED BY <1>0, <2>4 DEF UninstallInv
<1>4. ASSUME NEW t \in Terminals, Fill(t) PROVE UninstallInv'
  <2> DEFINE s == cmd[t].shell
             c == [stage |-> "idle", result |-> Ended(t), shell |-> s]
  <2>1. /\ rc' = [rc EXCEPT ![s] = cmd[t].text] /\ s \in Shells
        /\ cmd[t].stage = "filling" /\ cmd' = [cmd EXCEPT ![t] = c]
    BY <1>4, FillStep DEF Writing
  <2>2. cmd'[t] = c
    BY <2>1 DEF TypeOK
  <2>3. cmd'[t].stage = "idle" /\ cmd'[t].result = Ended(t)
    BY <2>2
  <2>4. Ended(t) = "uninstalled" => cmd[t].name = "uninstall"
    BY <2>1, EndedIs
  <2>5. ASSUME Ended(t) = "uninstalled", NEW r \in Shells PROVE NoAlias(rc[r])'
    <3>1. NoAlias(cmd[t].text)
      BY <2>1, <2>4, <2>5 DEF UninstallInv, Uninstalls
    <3>2. rc'[r] = cmd[t].text
      BY <1>0, <2>1 DEF TypeOK
    <3> QED BY <3>1, <3>2 DEF NoAlias
  <2>6. Uninstalls(cmd[t])'
    BY <2>3, <2>5 DEF Uninstalls
  <2> QED BY <1>0, <2>6 DEF UninstallInv
<1>5. ASSUME NEW s \in Shells, EditRc(s) PROVE UninstallInv'
  <2>1. \A t \in Terminals : cmd'[t].stage = "idle" /\ cmd'[t].result = "none"
    BY <1>5, EditRcStep, IdleCommand
  <2> QED BY <2>1 DEF UninstallInv, Uninstalls
<1>6. CASE UNCHANGED vars
  BY <1>6 DEF vars, UninstallInv, Uninstalls, NoAlias
<1> QED BY <1>1, <1>2, <1>3, <1>4, <1>5, <1>6 DEF Next, Begins

LEMMA InitInv == Init => TypeOK /\ LaunchInv /\ FileInv /\ UninstallInv
<1> SUFFICES ASSUME Init PROVE TypeOK /\ LaunchInv /\ FileInv /\ UninstallInv
  OBVIOUS
<1>1. ASSUME NEW line \in Written, NEW ended \in BOOLEAN
      PROVE  RcText(<<line>>, ended) \in Texts /\ OneIn(Lines(RcText(<<line>>, ended)))
  <2> DEFINE lines == <<line>>
  <2>1. lines \in Seq(LineSet) /\ DOMAIN lines = {1}
    BY DEF LineSet
  <2> HIDE DEF lines
  <2>2. OneIn(lines)
    BY <2>1 DEF OneIn
  <2> QED BY <2>1, <2>2, LinesOfText DEF lines
<1>2. OneIn(Lines(Missing))
  BY EmptyText DEF Lines, OneIn
<1>3. rc \in [Shells -> Texts \cup {Missing}] /\ \A s \in Shells : OneIn(Lines(rc[s]))
  <2> DEFINE first == {Missing, Empty} \cup {RcText(<<line>>, TRUE) : line \in Written}
                                       \cup {RcText(<<line>>, FALSE) : line \in Written}
  <2>1. \A text \in first : text \in Texts \cup {Missing} /\ OneIn(Lines(text))
    BY <1>1, <1>2, EmptyText
  <2>2. rc \in [Shells -> first]
    BY DEF Init
  <2> HIDE DEF first
  <2> QED BY <2>1, <2>2
<1>4. mine = [s \in Shells |-> UserLines(rc[s])] /\ mine \in [Shells -> Seq(Written)]
  BY <1>3, LinesAreLines DEF Init
<1>5. /\ cmd = [t \in Terminals |-> cmd[t]]
      /\ \A t \in Terminals : cmd[t].stage = "idle" /\ cmd[t].result = "none"
  BY IdleCommand DEF Init
<1> QED BY <1>3, <1>4, <1>5
  DEF TypeOK, Command, LaunchInv, Launched, FileInv, RcInv, CommandInv, UninstallInv, Uninstalls

-----------------------------------------------------------------------------
LEMMA AtMostOne ==
    ASSUME NEW lines \in Seq(LineSet), OneIn(lines)
    PROVE  Cardinality({i \in DOMAIN lines : lines[i] = "alias"}) <= 1
<1> DEFINE found == {i \in DOMAIN lines : lines[i] = "alias"}
<1>1. CASE found = {}
  BY <1>1, FS_EmptySet
<1>2. CASE found # {}
  <2>1. PICK i \in found : TRUE
    BY <1>2
  <2>2. found = {i}
    BY <2>1 DEF OneIn
  <2> HIDE DEF found
  <2>3. Cardinality(found) = 1
    BY <2>2, FS_Singleton
  <2> QED BY <2>3 DEF found
<1> QED BY <1>1, <1>2

(* With one terminal, after any commands and edits an rc file has the      *)
(* user's lines, in order, and one alias at most.                          *)
THEOREM RcFileKeptHolds == ASSUME OneTerminal PROVE Spec => []RcFileKept
<1>1. TypeOK /\ FileInv => RcFileKept
  <2> SUFFICES ASSUME TypeOK, FileInv PROVE RcFileKept
    OBVIOUS
  <2>1. ASSUME NEW s \in Shells
        PROVE  Cardinality({i \in DOMAIN Lines(rc[s]) : Lines(rc[s])[i] = "alias"}) <= 1
    BY LinesAreLines, AtMostOne DEF TypeOK, FileInv, RcInv
  <2> QED BY <2>1 DEF RcFileKept, OneAlias, OthersPreserved, FileInv, RcInv
<1> QED BY <1>1, InitInv, TypeStep, FileStep, PTL DEF Spec

(* With one terminal and one shell nothing looks for a ccg that uninstall  *)
(* has removed.                                                            *)
THEOREM UninstalledIsNativeHolds == ASSUME OneTerminal, OneShell PROVE Spec => []UninstalledIsNative
<1>1. TypeOK /\ UninstallInv => UninstalledIsNative
  <2> SUFFICES ASSUME TypeOK, UninstallInv, NEW s \in Shells, NoAlias(rc[s]) PROVE Runs(s) # "not found"
    BY DEF UninstalledIsNative, UninstallInv, Uninstalls, At
  <2>1. Lines(rc[s]) \in Seq(LineSet)
    BY LinesAreLines DEF TypeOK
  <2>2. ~Contains(Lines(rc[s]), "alias")
    BY <2>1, LenProperties DEF Contains, NoAlias
  <2> QED BY <2>2 DEF Runs
<1> QED BY <1>1, InitInv, TypeStep, UninstallStep, PTL DEF Spec

(* In any terminals, what a launch uses is from one source, and from the   *)
(* file if there is one.                                                   *)
THEOREM CredentialsBelongTogetherHolds == Spec => []CredentialsBelongTogether
<1>1. LaunchInv => CredentialsBelongTogether
  <2> SUFFICES ASSUME NEW c, c = LoadConfig(file, env), c # Failed
               PROVE  c.url = c.token /\ (file # {"no file"} => c.url = "file")
    BY DEF CredentialsBelongTogether, LaunchInv, Launched, At
  <2>1. {"no file"} # Fields
    BY DEF Fields
  <2>2. CASE file = {"no file"}
    BY <2>1, <2>2 DEF LoadConfig, From
  <2>3. CASE file = Fields
    BY <2>1, <2>3 DEF LoadConfig, From
  <2>4. CASE file # {"no file"} /\ file # Fields
    BY <2>4 DEF LoadConfig
  <2> QED BY <2>2, <2>3, <2>4
<1> QED BY <1>1, InitInv, TypeStep, PTL DEF Spec

-----------------------------------------------------------------------------
(* The rewriter. *)

(* Documents.  A path is a sequence of keys.  The words are strings, which *)
(* no prover knows; Index may be asked for a key beyond its end.           *)
Words == {"system", "text", "messages", "role", "content", "type", "metadata", "user_id",
          "events", "event_data", "env", "process", "additional_metadata", "platform", "build_time",
          "rss", "heapTotal", "heapUsed"} \cup IdKeys \cup GatewayKeys
Keys == STRING \cup Words \cup {Index[i] : i \in Nat}
Paths == Seq(Keys)

LEMMA PrefixIs ==
    ASSUME NEW p \in Paths, NEW q \in Paths
    PROVE  IsPrefix(p, q) <=> Len(p) <= Len(q) /\ \A i \in 1 .. Len(p) : p[i] = q[i]
<1>1. Len(p) \in Nat /\ Len(q) \in Nat
  BY LenProperties DEF Paths
<1>2. ASSUME Len(p) <= Len(q)
      PROVE  /\ SubSeq(q, 1, Len(p)) \in Paths /\ Len(SubSeq(q, 1, Len(p))) = Len(p)
             /\ \A i \in 1 .. Len(p) : SubSeq(q, 1, Len(p))[i] = q[i]
  <2>1. \A i \in 1 .. Len(p) : q[i] \in Keys
    BY <1>1, <1>2, ElementOfSeq DEF Paths
  <2> QED BY <1>1, <2>1, SubSeqProperties DEF Paths
<1>3. SubSeq(p, 1, Len(p)) = p
  <2>1. \A i \in 1 .. Len(p) : p[i] \in Keys
    BY ElementOfSeq DEF Paths
  <2>2. /\ SubSeq(p, 1, Len(p)) \in Paths /\ Len(SubSeq(p, 1, Len(p))) = Len(p)
        /\ \A i \in 1 .. Len(p) : SubSeq(p, 1, Len(p))[i] = p[i]
    BY <1>1, <2>1, SubSeqProperties DEF Paths
  <2> QED BY <2>2, SeqEqual DEF Paths
<1>4. ASSUME Len(p) <= Len(q)
      PROVE  (p = SubSeq(q, 1, Len(p))) <=> \A i \in 1 .. Len(p) : p[i] = q[i]
  BY <1>2, <1>4, SeqEqual DEF Paths
<1> QED BY <1>3, <1>4 DEF IsPrefix

LEMMA RestIs ==
    ASSUME NEW p \in Paths, NEW q \in Paths, IsPrefix(p, q)
    PROVE  Rest(p, q) \in Paths /\ p \o Rest(p, q) = q
<1>1. Len(p) \in Nat /\ Len(q) \in Nat /\ Len(p) <= Len(q) /\ \A i \in 1 .. Len(p) : p[i] = q[i]
  BY LenProperties, PrefixIs DEF Paths
<1>2. \A i \in Len(p) + 1 .. Len(q) : q[i] \in Keys
  BY <1>1, ElementOfSeq DEF Paths
<1>3. /\ Rest(p, q) \in Paths /\ Len(Rest(p, q)) = Len(q) - Len(p)
      /\ \A i \in 1 .. Len(q) - Len(p) : Rest(p, q)[i] = q[Len(p) + i]
  <2>1. Len(p) + 1 \in Int /\ Len(q) \in Int
    BY <1>1
  <2>2. /\ Rest(p, q) \in Paths /\ Len(Rest(p, q)) = IF Len(p) + 1 <= Len(q) THEN Len(q) - (Len(p) + 1) + 1 ELSE 0
        /\ \A i \in 1 .. Len(q) - (Len(p) + 1) + 1 : Rest(p, q)[i] = q[(Len(p) + 1) + i - 1]
    BY <1>2, <2>1, SubSeqProperties DEF Paths, Rest
  <2> QED BY <1>1, <2>2
<1>4. /\ p \o Rest(p, q) \in Paths /\ Len(p \o Rest(p, q)) = Len(q)
      /\ \A i \in 1 .. Len(q) : (p \o Rest(p, q))[i] = IF i <= Len(p) THEN p[i] ELSE Rest(p, q)[i - Len(p)]
  BY <1>1, <1>3, ConcatProperties DEF Paths
<1>5. \A i \in 1 .. Len(q) : (p \o Rest(p, q))[i] = q[i]
  BY <1>1, <1>3, <1>4
<1> QED BY <1>3, <1>4, <1>5, SeqEqual DEF Paths

LEMMA ConcatIs ==
    ASSUME NEW p \in Paths, NEW r \in Paths
    PROVE  p \o r \in Paths /\ IsPrefix(p, p \o r) /\ Rest(p, p \o r) = r
<1>1. Len(p) \in Nat /\ Len(r) \in Nat
  BY LenProperties DEF Paths
<1>2. /\ p \o r \in Paths /\ Len(p \o r) = Len(p) + Len(r)
      /\ \A i \in 1 .. Len(p) + Len(r) : (p \o r)[i] = IF i <= Len(p) THEN p[i] ELSE r[i - Len(p)]
  BY ConcatProperties DEF Paths
<1>3. IsPrefix(p, p \o r)
  <2>1. Len(p) <= Len(p \o r) /\ \A i \in 1 .. Len(p) : p[i] = (p \o r)[i]
    BY <1>1, <1>2
  <2> QED BY <1>2, <2>1, PrefixIs
<1>4. Rest(p, p \o r) \in Paths /\ p \o Rest(p, p \o r) = p \o r
  BY <1>2, <1>3, RestIs
<1> QED BY <1>2, <1>3, <1>4, ConcatSimplifications DEF Paths

(* Two paths above a third one are one above the other. *)
LEMMA PrefixesOfOne ==
    ASSUME NEW p \in Paths, NEW q \in Paths, NEW r \in Paths, IsPrefix(p, r), IsPrefix(q, r)
    PROVE  IsPrefix(p, q) \/ IsPrefix(q, p)
<1>1. Len(p) \in Nat /\ Len(q) \in Nat /\ Len(r) \in Nat
  BY LenProperties DEF Paths
<1> QED BY <1>1, PrefixIs

LEMMA PrefixOfPrefix ==
    ASSUME NEW p \in Paths, NEW q \in Paths, NEW r \in Paths, IsPrefix(p, q), IsPrefix(q, r)
    PROVE  IsPrefix(p, r)
<1>1. Len(p) \in Nat /\ Len(q) \in Nat /\ Len(r) \in Nat
  BY LenProperties DEF Paths
<1> QED BY <1>1, PrefixIs
-----------------------------------------------------------------------------
(* What Put changes: nothing that is not below the path. *)
Same(d, e, q) == (q \in DOMAIN d <=> q \in DOMAIN e) /\ (q \in DOMAIN d => d[q] = e[q])
Document(d) == DOMAIN d \subseteq Paths

(* Documents put at several paths. *)
Placed(new) == \A p \in DOMAIN new : p \in Paths /\ Document(new[p])

LEMMA PutAllOutside ==
    ASSUME NEW d, NEW new, Placed(new), NEW q \in Paths, \A p \in DOMAIN new : ~IsPrefix(p, q)
    PROVE  Same(PutAll(d, new), d, q)
<1>1. \A p \in DOMAIN new : q \notin {p \o r : r \in DOMAIN new[p]} /\ q \notin Below(d, p)
  BY ConcatIs DEF Document, Placed, Below
<1> QED BY <1>1 DEF PutAll, Same

LEMMA PutAllInside ==
    ASSUME NEW d, NEW new, Placed(new), NEW p \in DOMAIN new, NEW q \in Paths, IsPrefix(p, q),
           \A x \in DOMAIN new : IsPrefix(x, q) => x = p
    PROVE  /\ q \in DOMAIN PutAll(d, new) <=> Rest(p, q) \in DOMAIN new[p]
           /\ q \in DOMAIN PutAll(d, new) => PutAll(d, new)[q] = new[p][Rest(p, q)]
<1>0. p \in Paths /\ Document(new[p])
  BY DEF Placed
<1>1. p \o Rest(p, q) = q /\ Rest(p, q) \in Paths
  BY <1>0, RestIs
<1>2. ASSUME NEW x \in DOMAIN new, q \in {x \o r : r \in DOMAIN new[x]}
      PROVE  x = p /\ Rest(p, q) \in DOMAIN new[p]
  <2>1. PICK r \in DOMAIN new[x] : q = x \o r
    BY <1>2
  <2>2. x \in Paths /\ r \in Paths
    BY DEF Placed, Document
  <2> QED BY <2>1, <2>2, ConcatIs
<1>3. q \in DOMAIN d => q \in Below(d, p)
  BY DEF Below
<1>4. q \in DOMAIN PutAll(d, new) <=> Rest(p, q) \in DOMAIN new[p]
  BY <1>1, <1>2, <1>3 DEF PutAll
<1>5. p = CHOOSE x \in DOMAIN new : IsPrefix(x, q)
  OBVIOUS
<1> QED BY <1>4, <1>5 DEF PutAll

LEMMA PutAllDocument ==
    ASSUME NEW d, Document(d), NEW new, Placed(new)
    PROVE  Document(PutAll(d, new))
<1>1. \A p \in DOMAIN new : {p \o r : r \in DOMAIN new[p]} \subseteq Paths
  BY ConcatIs DEF Document, Placed
<1>2. UNION {{p \o r : r \in DOMAIN new[p]} : p \in DOMAIN new} \subseteq Paths
  BY <1>1
<1> QED BY <1>2 DEF Document, PutAll

LEMMA LeafIs ==
    ASSUME NEW node
    PROVE  Leaf(node) = [q \in {<< >>} |-> node] /\ Document(Leaf(node))
<1>1. Leaf(node) = [q \in {<< >>} |-> node]
  BY DEF Leaf
<1>2. << >> \in Paths
  BY EmptySeq DEF Paths
<1> QED BY <1>1, <1>2 DEF Document

LEMMA PutOutside ==
    ASSUME NEW d, NEW v, Document(v), NEW p \in Paths, NEW q \in Paths, ~IsPrefix(p, q)
    PROVE  Same(Put(d, p, v), d, q)
<1> DEFINE new == [x \in {p} |-> v]
<1>1. DOMAIN new = {p} /\ new[p] = v
  OBVIOUS
<1> HIDE DEF new
<1>2. Placed(new)
  BY <1>1 DEF Placed
<1>3. Same(PutAll(d, new), d, q)
  BY <1>1, <1>2, PutAllOutside
<1> QED BY <1>3 DEF Put, new

LEMMA PutInside ==
    ASSUME NEW d, NEW v, Document(v), NEW p \in Paths, NEW q \in Paths, IsPrefix(p, q)
    PROVE  /\ q \in DOMAIN Put(d, p, v) <=> Rest(p, q) \in DOMAIN v
           /\ q \in DOMAIN Put(d, p, v) => Put(d, p, v)[q] = v[Rest(p, q)]
<1> DEFINE new == [x \in {p} |-> v]
<1>1. DOMAIN new = {p} /\ new[p] = v
  OBVIOUS
<1> HIDE DEF new
<1>2. Placed(new)
  BY <1>1 DEF Placed
<1>3. /\ q \in DOMAIN PutAll(d, new) <=> Rest(p, q) \in DOMAIN new[p]
      /\ q \in DOMAIN PutAll(d, new) => PutAll(d, new)[q] = new[p][Rest(p, q)]
  BY <1>1, <1>2, PutAllInside
<1> QED BY <1>1, <1>3 DEF Put, new

LEMMA PutDocument ==
    ASSUME NEW d, NEW v, Document(d), Document(v), NEW p \in Paths
    PROVE  Document(Put(d, p, v))
<1>1. Placed([x \in {p} |-> v])
  BY DEF Placed
<1> QED BY <1>1, PutAllDocument DEF Put

LEMMA SubDocument ==
    ASSUME NEW d, Document(d), NEW p \in Paths
    PROVE  Document(Sub(d, p))
BY RestIs DEF Document, Sub, Below

LEMMA SubIs ==
    ASSUME NEW d, Document(d), NEW p \in Paths, NEW q \in Paths, IsPrefix(p, q)
    PROVE  /\ Rest(p, q) \in DOMAIN Sub(d, p) <=> q \in DOMAIN d
           /\ q \in DOMAIN d => Sub(d, p)[Rest(p, q)] = d[q]
<1>1. p \o Rest(p, q) = q /\ Rest(p, q) \in Paths
  BY RestIs
<1>2. q \in DOMAIN d => q \in Below(d, p)
  BY DEF Below
<1>3. ASSUME NEW x \in Below(d, p), Rest(p, q) = Rest(p, x) PROVE x = q
  BY <1>1, <1>3, RestIs DEF Below, Document
<1>4. Rest(p, q) \in DOMAIN Sub(d, p) <=> q \in DOMAIN d
  BY <1>2, <1>3 DEF Sub, Below
<1> QED BY <1>1, <1>2, <1>4 DEF Sub

-----------------------------------------------------------------------------
(* preserve_fields: a path that it does not name keeps what the rewriting  *)
(* gave it, one that it names may have its original again.                 *)
PreservedEquation(original, d, paths, g, n) ==
    g = [m \in 0 .. n |-> IF m = 0 THEN d ELSE PreserveField(original, g[m - 1], paths[m])]

LEMMA PreservedExists ==
    ASSUME NEW original, NEW d, NEW paths, NEW n \in Nat
    PROVE  \E g : PreservedEquation(original, d, paths, g, n)
<1> DEFINE S == {k \in Nat : \E g : PreservedEquation(original, d, paths, g, k)}
<1>1. 0 \in S
  <2>1. PreservedEquation(original, d, paths, [m \in 0 .. 0 |-> d], 0)
    BY DEF PreservedEquation
  <2> QED BY <2>1
<1>2. ASSUME NEW k \in Nat, k \in S PROVE k + 1 \in S
  <2>1. PICK g : PreservedEquation(original, d, paths, g, k)
    BY <1>2
  <2> DEFINE last == PreserveField(original, g[k], paths[k + 1])
             h == [m \in 0 .. k + 1 |-> IF m = k + 1 THEN last ELSE g[m]]
  <2>2. ASSUME NEW m \in 0 .. k + 1
        PROVE  h[m] = IF m = 0 THEN d ELSE PreserveField(original, h[m - 1], paths[m])
    <3>1. CASE m = k + 1
      <4>1. h[m] = last /\ h[m - 1] = g[k] /\ m # 0
        BY <3>1
      <4> QED BY <3>1, <4>1
    <3>2. CASE m # k + 1
      <4>1. m \in 0 .. k /\ h[m] = g[m] /\ (m # 0 => h[m - 1] = g[m - 1])
        BY <3>2
      <4>2. g[m] = IF m = 0 THEN d ELSE PreserveField(original, g[m - 1], paths[m])
        BY <2>1, <4>1 DEF PreservedEquation
      <4> QED BY <4>1, <4>2
    <3> QED BY <3>1, <3>2
  <2>3. h = [m \in 0 .. k + 1 |-> h[m]]
    OBVIOUS
  <2> HIDE DEF h
  <2>4. PreservedEquation(original, d, paths, h, k + 1)
    BY <2>2, <2>3 DEF PreservedEquation
  <2> QED BY <2>4
<1> HIDE DEF S
<1>3. n \in S
  BY <1>1, <1>2, NatBySet
<1> QED BY <1>3 DEF S

LEMMA PreservedIs ==
    ASSUME NEW original, NEW d, NEW paths, Len(paths) \in Nat
    PROVE  \E g : /\ PreservedEquation(original, d, paths, g, Len(paths))
                  /\ PreserveFields(original, d, paths) = g[Len(paths)]
<1> DEFINE g == CHOOSE f : PreservedEquation(original, d, paths, f, Len(paths))
<1>1. PreservedEquation(original, d, paths, g, Len(paths))
  BY PreservedExists
<1>2. PreserveFields(original, d, paths) = g[Len(paths)]
  BY DEF PreserveFields, PreservedEquation
<1> QED BY <1>1, <1>2

(* PreserveFields, one field at a time. *)
FieldByField(original, d, paths, g) ==
    /\ Len(paths) \in Nat /\ g[0] = d /\ PreserveFields(original, d, paths) = g[Len(paths)]
    /\ \A k \in 0 .. Len(paths) - 1 :
            /\ k + 1 \in DOMAIN paths /\ paths[k + 1] \in Paths
            /\ g[k + 1] = PreserveField(original, g[k], paths[k + 1])

LEMMA PreservedInTurn ==
    ASSUME NEW original, NEW d, NEW paths \in Seq(Paths)
    PROVE  \E g : FieldByField(original, d, paths, g)
<1>0. Len(paths) \in Nat /\ DOMAIN paths = 1 .. Len(paths) /\ \A i \in 1 .. Len(paths) : paths[i] \in Paths
  BY LenProperties, ElementOfSeq
<1>1. PICK g : /\ PreservedEquation(original, d, paths, g, Len(paths))
               /\ PreserveFields(original, d, paths) = g[Len(paths)]
  BY <1>0, PreservedIs
<1>2. g[0] = d
  BY <1>0, <1>1 DEF PreservedEquation
<1>3. ASSUME NEW k \in 0 .. Len(paths) - 1
      PROVE  k + 1 \in 1 .. Len(paths) /\ g[k + 1] = PreserveField(original, g[k], paths[k + 1])
  <2>1. k + 1 \in 1 .. Len(paths) /\ k + 1 \in 0 .. Len(paths) /\ (k + 1) - 1 = k /\ k + 1 # 0
    BY <1>0
  <2> QED BY <1>1, <2>1 DEF PreservedEquation
<1> QED BY <1>0, <1>1, <1>2, <1>3 DEF FieldByField

LEMMA InTurn ==
    ASSUME NEW n \in Nat, NEW S, 0 \in S, \A k \in 0 .. n - 1 : k \in S => k + 1 \in S
    PROVE  n \in S
<1> DEFINE T == {k \in Nat : k <= n => k \in S}
<1>1. 0 \in T /\ \A k \in Nat : k \in T => k + 1 \in T
  OBVIOUS
<1> HIDE DEF T
<1>2. n \in T
  BY <1>1, NatBySet
<1> QED BY <1>2 DEF T

LEMMA PreserveFieldOutside ==
    ASSUME NEW original, Document(original), NEW d, NEW p \in Paths, NEW q \in Paths, ~IsPrefix(p, q)
    PROVE  Same(PreserveField(original, d, p), d, q)
<1>1. Same(Put(d, p, Sub(original, p)), d, q)
  BY SubDocument, PutOutside
<1> QED BY <1>1 DEF PreserveField, Same

LEMMA PreserveFieldEither ==
    ASSUME NEW original, Document(original), NEW d, NEW p \in Paths, NEW q \in Paths,
           q \in DOMAIN original, q \in DOMAIN d
    PROVE  LET e == PreserveField(original, d, p)
           IN  q \in DOMAIN e /\ (e[q] = d[q] \/ e[q] = original[q])
<1> DEFINE e == Put(d, p, Sub(original, p))
<1>1. q \in DOMAIN e /\ (e[q] = d[q] \/ e[q] = original[q])
  <2>1. CASE IsPrefix(p, q)
    BY <2>1, SubDocument, SubIs, PutInside
  <2>2. CASE ~IsPrefix(p, q)
    BY <2>2, SubDocument, PutOutside DEF Same
  <2> QED BY <2>1, <2>2
<1> QED BY <1>1 DEF PreserveField

LEMMA PreserveFieldsOutside ==
    ASSUME NEW original, Document(original), NEW d, NEW paths \in Seq(Paths), NEW q \in Paths,
           \A i \in DOMAIN paths : ~IsPrefix(paths[i], q)
    PROVE  Same(PreserveFields(original, d, paths), d, q)
<1>1. PICK g : FieldByField(original, d, paths, g)
  BY PreservedInTurn
<1> DEFINE S == {k \in Nat : Same(g[k], d, q)}
<1>2. 0 \in S
  BY <1>1 DEF FieldByField, Same
<1>3. ASSUME NEW k \in 0 .. Len(paths) - 1, k \in S PROVE k + 1 \in S
  <2>1. Same(PreserveField(original, g[k], paths[k + 1]), g[k], q)
    BY <1>1, PreserveFieldOutside DEF FieldByField
  <2> QED BY <1>1, <1>3, <2>1 DEF FieldByField, Same
<1> HIDE DEF S
<1>4. Len(paths) \in S
  BY <1>1, <1>2, <1>3, InTurn DEF FieldByField
<1> QED BY <1>1, <1>4 DEF FieldByField, S

LEMMA PreserveFieldsEither ==
    ASSUME NEW original, Document(original), NEW d, NEW paths \in Seq(Paths), NEW q \in Paths,
           q \in DOMAIN original, q \in DOMAIN d
    PROVE  LET e == PreserveFields(original, d, paths)
           IN  q \in DOMAIN e /\ (e[q] = d[q] \/ e[q] = original[q])
<1>1. PICK g : FieldByField(original, d, paths, g)
  BY PreservedInTurn
<1> DEFINE S == {k \in Nat : q \in DOMAIN g[k] /\ (g[k][q] = d[q] \/ g[k][q] = original[q])}
<1>2. 0 \in S
  BY <1>1 DEF FieldByField, Same
<1>3. ASSUME NEW k \in 0 .. Len(paths) - 1, k \in S PROVE k + 1 \in S
  <2>1. q \in DOMAIN g[k + 1] /\ (g[k + 1][q] = g[k][q] \/ g[k + 1][q] = original[q])
    BY <1>1, <1>3, PreserveFieldEither DEF FieldByField
  <2> QED BY <1>3, <2>1
<1> HIDE DEF S
<1>4. Len(paths) \in S
  BY <1>1, <1>2, <1>3, InTurn DEF FieldByField
<1> QED BY <1>1, <1>4 DEF FieldByField, S

-----------------------------------------------------------------------------
(* The system of a document. *)
LEMMA Few ==
    ASSUME NEW x \in Keys
    PROVE  /\ <<x>> \in Paths /\ Len(<<x>>) = 1 /\ <<x>>[1] = x
           /\ \A q \in Paths : IsPrefix(<<x>>, q) <=> q # << >> /\ q[1] = x
<1>1. <<x>> \in Paths /\ Len(<<x>>) = 1 /\ <<x>>[1] = x
  BY DEF Paths
<1>2. ASSUME NEW q \in Paths PROVE IsPrefix(<<x>>, q) <=> q # << >> /\ q[1] = x
  <2>1. Len(q) \in Nat /\ (q # << >> <=> Len(q) >= 1)
    BY EmptySeq, LenProperties DEF Paths
  <2>2. IsPrefix(<<x>>, q) <=> 1 <= Len(q) /\ \A i \in 1 .. 1 : <<x>>[i] = q[i]
    BY <1>1, PrefixIs
  <2> QED BY <1>1, <2>1, <2>2
<1> QED BY <1>1, <1>2

LEMMA TextPath == <<"text">> \in Paths
<1>1. "text" \in Keys
  BY DEF Keys, Words
<1> QED BY <1>1, Few

LEMMA SystemPath ==
    /\ System \in Paths /\ System \o <<"text">> \in Paths /\ IsPrefix(System, System)
    /\ \A q \in Paths : IsPrefix(System, q) <=> q # << >> /\ q[1] = "system"
<1>1. "system" \in Keys /\ "text" \in Keys
  BY DEF Keys, Words
<1>2. System \in Paths /\ <<"text">> \in Paths
  BY <1>1, Few DEF System
<1>3. System # << >> /\ System[1] = "system"
  BY DEF System
<1>4. \A q \in Paths : IsPrefix(System, q) <=> q # << >> /\ q[1] = "system"
  BY <1>1, Few DEF System
<1> QED BY <1>2, <1>3, <1>4, ConcatIs

LEMMA ElementsBelow ==
    ASSUME NEW d, Document(d), NEW p \in Paths, NEW c \in Elements(d, p)
    PROVE  c \in Paths /\ c \in DOMAIN d /\ IsPrefix(p, c) /\ c \o <<"text">> \in Paths /\ IsPrefix(p, c \o <<"text">>)
<1>1. c \in Paths /\ c \in DOMAIN d /\ IsPrefix(p, c)
  BY DEF Elements, Children, Below, Document
<1>2. <<"text">> \in Paths
  BY TextPath
<1> QED BY <1>1, <1>2, ConcatIs, PrefixOfPrefix

LEMMA SystemTextsBelow ==
    ASSUME NEW d, Document(d), NEW q \in SystemTexts(d)
    PROVE  q \in Paths /\ q \in DOMAIN d /\ IsPrefix(System, q)
<1>1. CASE IsArr(d, System)
  <2>1. PICK c \in Elements(d, System) : q \in ItemText(d, c)
    BY <1>1 DEF SystemTexts, SystemItems
  <2> QED BY <2>1, SystemPath, ElementsBelow DEF ItemText
<1>2. CASE ~IsArr(d, System)
  <2>1. q \in TextContainer(d, System)
    BY <1>2 DEF SystemTexts
  <2>2. System \in DOMAIN d
    BY <2>1 DEF TextContainer, IsArr, IsObj
  <2>3. q \in {System \o <<"text">>, System} \cap DOMAIN d
    BY <1>2, <2>1, <2>2 DEF TextContainer, IsObj
  <2>4. IsPrefix(System, System \o <<"text">>)
    BY SystemPath, ConcatIs, TextPath
  <2> QED BY <2>3, <2>4, SystemPath
<1> QED BY <1>1, <1>2

LEMMA ArrayDocument ==
    ASSUME NEW S, \A e \in S : Document(e), NEW docs \in Seq(S)
    PROVE  Document(ArrayOf(docs))
<1>1. << >> \in Paths
  BY EmptySeq DEF Paths
<1>2. ASSUME NEW i \in DOMAIN docs, NEW r \in DOMAIN docs[i]
      PROVE  <<Index[i]>> \o r \in Paths
  <2>1. DOMAIN docs = 1 .. Len(docs) /\ Len(docs) \in Nat
    BY LenProperties
  <2>2. i \in Nat /\ docs[i] \in S
    BY <2>1, ElementOfSeq
  <2>3. r \in Paths
    BY <2>2 DEF Document
  <2>4. <<Index[i]>> \in Paths
    BY <2>2, Few DEF Keys
  <2> QED BY <2>3, <2>4, ConcatIs
<1> DEFINE parts == {{<<Index[i]>> \o r : r \in DOMAIN docs[i]} : i \in DOMAIN docs}
<1>3. DOMAIN ArrayOf(docs) = {<< >>} \cup UNION parts
  BY DEF ArrayOf
<1>4. ASSUME NEW part \in parts PROVE part \subseteq Paths
  <2>1. PICK i \in DOMAIN docs : part = {<<Index[i]>> \o r : r \in DOMAIN docs[i]}
    OBVIOUS
  <2> QED BY <1>2, <2>1
<1> QED BY <1>1, <1>3, <1>4 DEF Document

LEMMA ItemsAre ==
    ASSUME NEW d, Document(d), IsFiniteSet(DOMAIN d)
    PROVE  /\ \A e \in {Sub(d, p) : p \in Paths} : Document(e)
           /\ Items(d, System) \in Seq({Sub(d, p) : p \in Paths})
<1>1. \A e \in {Sub(d, p) : p \in Paths} : Document(e)
  BY SubDocument
<1>2. Cardinality(Elements(d, System)) \in Nat
  <2>1. Elements(d, System) \subseteq DOMAIN d
    BY DEF Elements, Children, Below
  <2> QED BY <2>1, FS_Subset, FS_CardinalityType
<1>3. ASSUME NEW i \in 1 .. Cardinality(Elements(d, System))
      PROVE  Sub(d, System \o <<Index[i]>>) \in {Sub(d, p) : p \in Paths}
  <2>1. i \in Nat
    BY <1>2
  <2>2. <<Index[i]>> \in Paths
    BY <2>1, Few DEF Keys
  <2> QED BY <2>2, SystemPath, ConcatIs
<1> DEFINE items == Items(d, System)
           n == Cardinality(Elements(d, System))
           S == {Sub(d, p) : p \in Paths}
<1>4. items \in [1 .. n -> S]
  BY <1>3 DEF Items
<1> HIDE DEF items, n, S
<1>5. items \in Seq(S)
  BY <1>2, <1>4, SeqDef DEF n
<1> QED BY <1>1, <1>5 DEF items, S

LEMMA RetainItemsOutside ==
    ASSUME NEW d, Document(d), IsFiniteSet(DOMAIN d)
    PROVE  /\ Document(RetainItems(d))
           /\ \A q \in Paths : ~IsPrefix(System, q) => Same(RetainItems(d), d, q)
<1> DEFINE items == Items(d, System)
           S == {Sub(d, p) : p \in Paths}
           kept == Without(items, BlankItems(items))
<1>1. (\A e \in S : Document(e)) /\ items \in Seq(S)
  BY ItemsAre
<1> HIDE DEF items, S
<1>2. kept \in Seq(S)
  BY <1>1, FilterSeq
<1> HIDE DEF kept
<1>3. Document(ArrayOf(kept))
  BY <1>1, <1>2, ArrayDocument
<1>4. RetainItems(d) = Put(d, System, ArrayOf(kept))
  BY DEF RetainItems, kept, items
<1> QED BY <1>3, <1>4, SystemPath, PutOutside, PutDocument

LEMMA StripOutside ==
    ASSUME NEW d, Document(d), IsFiniteSet(DOMAIN d)
    PROVE  /\ Document(StripBillingHeader(d))
           /\ \A q \in Paths : ~IsPrefix(System, q) => Same(StripBillingHeader(d), d, q)
<1> DEFINE stripped == MapTexts(d, SystemTexts(d), StripBillingHeaderBlock)
<1>1. DOMAIN stripped = DOMAIN d /\ \A q \in DOMAIN d : q \notin SystemTexts(d) => stripped[q] = d[q]
  BY DEF MapTexts
<1>2. StripBillingHeader(d) = IF IsArr(d, System) THEN RetainItems(stripped) ELSE stripped
  BY DEF StripBillingHeader
<1> HIDE DEF stripped
<1>3. Document(stripped) /\ IsFiniteSet(DOMAIN stripped)
  BY <1>1 DEF Document
<1>4. \A q \in Paths : ~IsPrefix(System, q) => Same(stripped, d, q)
  BY <1>1, SystemTextsBelow DEF Same
<1>5. /\ Document(RetainItems(stripped))
      /\ \A q \in Paths : ~IsPrefix(System, q) => Same(RetainItems(stripped), stripped, q)
  BY <1>3, RetainItemsOutside
<1>6. \A q \in Paths : ~IsPrefix(System, q) => Same(RetainItems(stripped), d, q)
  BY <1>4, <1>5 DEF Same
<1> QED BY <1>2, <1>3, <1>4, <1>5, <1>6

LEMMA Nodes ==
    ASSUME NEW d, NEW e, NEW S, DOMAIN e = DOMAIN d,
           \A q \in DOMAIN d : e[q] = d[q] \/ (IsText(d, q) /\ \E t : e[q] = Text(t))
    PROVE  \A q : (IsObj(e, q) <=> IsObj(d, q)) /\ (IsArr(e, q) <=> IsArr(d, q))
<1>1. \A t : Text(t) # Obj /\ Text(t) # Arr
  BY DEF Text, Obj, Arr
<1>2. "text" \notin DOMAIN Obj /\ "text" \notin DOMAIN Arr
  BY DEF Obj, Arr
<1>3. ASSUME NEW q \in DOMAIN d PROVE (e[q] = Obj <=> d[q] = Obj) /\ (e[q] = Arr <=> d[q] = Arr)
  BY <1>1, <1>2 DEF IsText
<1> QED BY <1>3 DEF IsObj, IsArr

LEMMA RewriteSystemOutside ==
    ASSUME NEW d, Document(d), IsFiniteSet(DOMAIN d), NEW hash, NEW strip \in BOOLEAN,
           NEW q \in Paths, ~IsPrefix(System, q)
    PROVE  Same(RewriteSystemBody(d, hash, strip), d, q)
<1> DEFINE kept == IF strip /\ IsArr(d, System) THEN StripBillingHeader(d) ELSE d
           e == MapTexts(kept, SystemTexts(kept), LAMBDA text : RewritePromptText(KeptText(text, strip), hash))
<1>1. Document(kept) /\ Same(kept, d, q)
  BY StripOutside DEF Same
<1>2. RewriteSystemBody(d, hash, strip) = IF IsObj(d, System) THEN d ELSE e
  BY DEF RewriteSystemBody
<1> HIDE DEF kept
<1>3. DOMAIN e = DOMAIN kept /\ \A r \in DOMAIN kept : r \notin SystemTexts(kept) => e[r] = kept[r]
  BY DEF MapTexts
<1> HIDE DEF e
<1>4. q \notin SystemTexts(kept)
  BY <1>1, SystemTextsBelow
<1> QED BY <1>1, <1>2, <1>3, <1>4 DEF Same

(* Every line that announces a hash announces this one. *)
Announces(d, hash) ==
    \A q \in SystemTexts(d) : IsText(d, q) =>
        \A i \in DOMAIN d[q].text : "cc" \in DOMAIN d[q].text[i] => d[q].text[i].cc = hash

LEMMA LineHash ==
    ASSUME NEW line, NEW hash, hash # NoHash
    PROVE  LET new == RewriteLine(line, hash)
           IN  "cc" \in DOMAIN new => new.cc = hash
BY DEF RewriteLine

LEMMA RewriteSystemHash ==
    ASSUME NEW d, NEW hash, hash # NoHash, NEW strip \in BOOLEAN, ~IsObj(d, System)
    PROVE  Announces(RewriteSystemBody(d, hash, strip), hash)
<1> DEFINE kept == IF strip /\ IsArr(d, System) THEN StripBillingHeader(d) ELSE d
           e == MapTexts(kept, SystemTexts(kept), LAMBDA text : RewritePromptText(KeptText(text, strip), hash))
<1>2. RewriteSystemBody(d, hash, strip) = e
  BY DEF RewriteSystemBody
<1> HIDE DEF kept
<1>3. /\ DOMAIN e = DOMAIN kept
      /\ \A q \in DOMAIN kept : e[q] = IF q \in SystemTexts(kept) /\ IsText(kept, q)
                                       THEN Text(RewritePromptText(KeptText(kept[q].text, strip), hash)) ELSE kept[q]
  BY DEF MapTexts
<1> HIDE DEF e
<1>4. SystemTexts(e) = SystemTexts(kept)
  <2>1. \A q \in DOMAIN kept : e[q] = kept[q] \/ (IsText(kept, q) /\ \E t : e[q] = Text(t))
    BY <1>3
  <2>2. \A q : (IsObj(e, q) <=> IsObj(kept, q)) /\ (IsArr(e, q) <=> IsArr(kept, q))
    BY <1>3, <2>1, Nodes
  <2>3. \A q : ItemText(e, q) = ItemText(kept, q)
    BY <1>3, <2>2 DEF ItemText
  <2>4. Elements(e, System) = Elements(kept, System)
    BY <1>3, <2>2 DEF Elements, Children, Below
  <2>5. TextContainer(e, System) = TextContainer(kept, System)
    BY <1>3, <2>2, <2>4 DEF TextContainer
  <2> QED BY <2>2, <2>3, <2>4, <2>5 DEF SystemTexts, SystemItems
<1>5. ASSUME NEW q \in SystemTexts(e), IsText(e, q), NEW i \in DOMAIN e[q].text, "cc" \in DOMAIN e[q].text[i]
      PROVE  e[q].text[i].cc = hash
  <2>1. q \in DOMAIN kept /\ q \in SystemTexts(kept)
    BY <1>3, <1>4, <1>5 DEF IsText
  <2>2. IsText(kept, q)
    BY <1>3, <1>5, <2>1 DEF IsText
  <2>3. e[q].text = RewritePromptText(KeptText(kept[q].text, strip), hash)
    BY <1>3, <2>1, <2>2 DEF Text
  <2>4. e[q].text[i] = RewriteLine(KeptText(kept[q].text, strip)[i], hash)
    BY <1>5, <2>3 DEF RewritePromptText
  <2> QED BY <1>5, <2>4, LineHash
<1> QED BY <1>2, <1>5 DEF Announces
-----------------------------------------------------------------------------
(* The messages of a document: what is below "messages". *)
LEMMA MinIn ==
    ASSUME NEW S \in SUBSET Nat, S # {}
    PROVE  Min(S) \in S
<1>1. PICK x \in S : \A y \in S : ~(y < x)
  BY NatHasLeast
<1>2. \A y \in S : x <= y
  BY <1>1
<1> QED BY <1>2 DEF Min

SameMessages(d, e) == \A q \in Paths : IsPrefix(<<"messages">>, q) => Same(d, e, q)

LEMMA IndexDomain ==
    /\ DOMAIN Index = 1 .. Len(Index) /\ Len(Index) \in Nat
    /\ \A i \in DOMAIN Index : i \in Nat /\ Index[i] \in Keys
<1>1. DOMAIN Index = 1 .. Len(Index) /\ Len(Index) \in Nat
  BY IndexAssumption, LenProperties
<1> QED BY <1>1 DEF Keys

LEMMA MessagesPath == <<"messages">> \in Paths /\ IsPrefix(<<"messages">>, <<"messages">>)
<1>1. "messages" \in Keys
  BY DEF Keys, Words
<1> QED BY <1>1, Few

LEMMA MessagePaths ==
    ASSUME NEW i \in DOMAIN Index, NEW j \in DOMAIN Index
    PROVE  LET content == <<"messages", Index[i], "content">> IN
           \A q \in {<<"messages">>, <<"messages", Index[i], "role">>, content, content \o <<Index[j], "type">>,
                     content \o <<Index[j], "text">>} :
               q \in Paths /\ IsPrefix(<<"messages">>, q)
<1>1. Index[i] \in Keys /\ Index[j] \in Keys /\ {"messages", "role", "content", "type", "text"} \subseteq Keys
  BY IndexDomain DEF Keys, Words
<1> DEFINE x == Index[i]
           y == Index[j]
<1>2. x \in Keys /\ y \in Keys
  BY <1>1
<1> HIDE DEF x, y
<1>3. /\ <<"messages">> \in Paths /\ <<"messages", x, "role">> \in Paths /\ <<"messages", x, "content">> \in Paths
      /\ <<y, "type">> \in Paths /\ <<y, "text">> \in Paths
  BY <1>1, <1>2 DEF Paths
<1>4. ASSUME NEW q \in Paths, q # << >>, q[1] = "messages" PROVE IsPrefix(<<"messages">>, q)
  BY <1>1, <1>4, Few
<1>5. /\ IsPrefix(<<"messages">>, <<"messages">>) /\ IsPrefix(<<"messages">>, <<"messages", x, "role">>)
      /\ IsPrefix(<<"messages">>, <<"messages", x, "content">>)
  BY <1>3, <1>4
<1>6. ASSUME NEW r \in Paths
      PROVE  <<"messages", x, "content">> \o r \in Paths /\ IsPrefix(<<"messages">>, <<"messages", x, "content">> \o r)
  BY <1>3, <1>5, ConcatIs, PrefixOfPrefix
<1> QED BY <1>3, <1>5, <1>6 DEF x, y

Users(d) == {i \in DOMAIN Index :
                /\ <<"messages", Index[i], "role">> \in DOMAIN d
                /\ d[<<"messages", Index[i], "role">>] = Str("user")}
TextBlocks(d, content) == {i \in DOMAIN Index :
                /\ content \o <<Index[i], "type">> \in DOMAIN d
                /\ d[content \o <<Index[i], "type">>] = Str("text")
                /\ IsText(d, content \o <<Index[i], "text">>)}

(* Where the first message of the user is does not depend on what it says. *)
Voiced(d, e) ==
    \A q \in Paths : IsPrefix(<<"messages">>, q) =>
        /\ q \in DOMAIN d <=> q \in DOMAIN e
        /\ IsArr(d, q) <=> IsArr(e, q)
        /\ IsText(d, q) <=> IsText(e, q)
        /\ q \in DOMAIN d => \A s : d[q] = Str(s) <=> e[q] = Str(s)

LEMMA ExtractVoiced ==
    ASSUME NEW d, NEW e, Voiced(d, e)
    PROVE  \/ ExtractFirstUserMessageText(d) = NoText /\ ExtractFirstUserMessageText(e) = NoText
           \/ \E q \in Paths : /\ IsPrefix(<<"messages">>, q) /\ IsText(d, q)
                               /\ ExtractFirstUserMessageText(d) = d[q].text
                               /\ ExtractFirstUserMessageText(e) = e[q].text
<1> DEFINE Found(f) == IsArr(f, <<"messages">>) /\ Users(f) # {}
           c == <<"messages", Index[Min(Users(d))], "content">>
           b == c \o <<Index[Min(TextBlocks(d, c))], "text">>
           first(f) == CASE Found(d) /\ IsText(d, c) -> f[c].text
                         [] Found(d) /\ IsArr(d, c) /\ TextBlocks(d, c) # {} -> f[b].text
                         [] OTHER -> NoText
<1>1. Users(d) = Users(e) /\ (IsArr(d, <<"messages">>) <=> IsArr(e, <<"messages">>))
  BY MessagesPath, MessagePaths DEF Voiced, Users
<1>2. ASSUME Users(d) # {}
      PROVE  \A j \in DOMAIN Index : \A q \in {c, c \o <<Index[j], "type">>, c \o <<Index[j], "text">>} :
                q \in Paths /\ IsPrefix(<<"messages">>, q)
  <2>1. Users(d) \subseteq DOMAIN Index /\ Users(d) \in SUBSET Nat
    BY IndexDomain DEF Users
  <2>2. Min(Users(d)) \in DOMAIN Index
    BY <1>2, <2>1, MinIn
  <2> QED BY <2>2, MessagePaths
<1>3. ASSUME Users(d) # {} PROVE c \in Paths /\ IsPrefix(<<"messages">>, c)
  <2>1. Users(d) \subseteq DOMAIN Index
    BY DEF Users
  <2> QED BY <1>2, <1>3, <2>1
<1>4. ExtractFirstUserMessageText(d) = first(d)
  BY DEF ExtractFirstUserMessageText, Users, TextBlocks
<1>5. ASSUME Users(d) # {} PROVE TextBlocks(d, c) = TextBlocks(e, c) /\ (IsText(d, c) <=> IsText(e, c)) /\ (IsArr(d, c) <=> IsArr(e, c))
  <2> HIDE DEF c
  <2> QED BY <1>2, <1>3, <1>5 DEF Voiced, TextBlocks
<1>6. ExtractFirstUserMessageText(e) = first(e)
  <2> DEFINE x == <<"messages", Index[Min(Users(e))], "content">>
  <2>1. ExtractFirstUserMessageText(e) =
            CASE Found(e) /\ IsText(e, x) -> e[x].text
              [] Found(e) /\ IsArr(e, x) /\ TextBlocks(e, x) # {} -> e[x \o <<Index[Min(TextBlocks(e, x))], "text">>].text
              [] OTHER -> NoText
    BY DEF ExtractFirstUserMessageText, Users, TextBlocks
  <2>2. x = c /\ (Found(d) <=> Found(e))
    BY <1>1
  <2> HIDE DEF x, c, Found
  <2> QED BY <1>5, <2>1, <2>2 DEF Found
<1>7. ASSUME Found(d), TextBlocks(d, c) # {} PROVE b \in Paths /\ IsPrefix(<<"messages">>, b) /\ IsText(d, b)
  <2>1. TextBlocks(d, c) \in SUBSET Nat /\ TextBlocks(d, c) \subseteq DOMAIN Index
    BY IndexDomain DEF TextBlocks
  <2>2. Min(TextBlocks(d, c)) \in TextBlocks(d, c)
    BY <1>7, <2>1, MinIn
  <2> QED BY <1>2, <1>7, <2>1, <2>2 DEF TextBlocks
<1>8. ~(IsText(d, c) /\ IsArr(d, c))
  BY DEF IsText, IsArr, Arr
<1> HIDE DEF Found, c, b
<1>9. CASE Found(d) /\ IsText(d, c)
  BY <1>3, <1>4, <1>6, <1>8, <1>9 DEF Found
<1>10. CASE Found(d) /\ IsArr(d, c) /\ TextBlocks(d, c) # {}
  BY <1>4, <1>6, <1>7, <1>8, <1>10
<1>11. CASE ~(Found(d) /\ IsText(d, c)) /\ ~(Found(d) /\ IsArr(d, c) /\ TextBlocks(d, c) # {})
  BY <1>4, <1>6, <1>11
<1> QED BY <1>9, <1>10, <1>11

LEMMA ExtractSame ==
    ASSUME NEW d, NEW e, SameMessages(d, e)
    PROVE  ExtractFirstUserMessageText(d) = ExtractFirstUserMessageText(e)
<1>1. Voiced(d, e)
  BY DEF SameMessages, Same, Voiced, IsArr, IsText
<1> QED BY <1>1, ExtractVoiced DEF SameMessages, Same, IsText

LEMMA PathsAre == Seq(STRING) \subseteq Paths /\ Seq(Seq(STRING)) \subseteq Seq(Paths)
<1>1. STRING \subseteq Keys
  BY DEF Keys
<1>2. Seq(STRING) \subseteq Paths
  BY <1>1, SeqMonotonic DEF Paths
<1> QED BY <1>2, SeqMonotonic

LEMMA PreserveFieldsDocument ==
    ASSUME NEW original, Document(original), NEW d, Document(d), NEW paths \in Seq(Paths)
    PROVE  Document(PreserveFields(original, d, paths))
<1>1. PICK g : FieldByField(original, d, paths, g)
  BY PreservedInTurn
<1> DEFINE S == {k \in Nat : Document(g[k])}
<1>2. 0 \in S
  BY <1>1 DEF FieldByField, Same
<1>3. ASSUME NEW k \in 0 .. Len(paths) - 1, k \in S PROVE k + 1 \in S
  <2>1. Document(Put(g[k], paths[k + 1], Sub(original, paths[k + 1])))
    BY <1>1, <1>3, SubDocument, PutDocument DEF FieldByField
  <2> QED BY <1>1, <1>3, <2>1 DEF FieldByField, PreserveField
<1> HIDE DEF S
<1>4. Len(paths) \in S
  BY <1>1, <1>2, <1>3, InTurn DEF FieldByField
<1> QED BY <1>1, <1>4 DEF FieldByField, S

(* The steps of rewrite_messages_body. *)
Reminded(d) ==
    LET identified == RewriteMessagesMetadata(d)
    IN  MapTexts(identified, ContentTexts(identified), RewriteSystemReminders)
BillingHash(d, fallback) ==
    LET first == ExtractFirstUserMessageText(Reminded(d))
    IN  IF first = NoText THEN fallback ELSE ComputeCch(first)

LEMMA MetadataIs ==
    ASSUME NEW d
    PROVE  /\ DOMAIN RewriteMessagesMetadata(d) = DOMAIN d
           /\ \A q \in DOMAIN d : q # <<"metadata", "user_id">> => RewriteMessagesMetadata(d)[q] = d[q]
<1> DEFINE id == <<"metadata", "user_id">>
<1>1. \/ RewriteMessagesMetadata(d) = d
      \/ \E node : RewriteMessagesMetadata(d) = [d EXCEPT ![id] = node]
  BY DEF RewriteMessagesMetadata
<1> QED BY <1>1

LEMMA RemindedIs ==
    ASSUME NEW d, Document(d), IsFiniteSet(DOMAIN d)
    PROVE  Document(Reminded(d)) /\ IsFiniteSet(DOMAIN Reminded(d))
<1>1. DOMAIN Reminded(d) = DOMAIN d
  BY MetadataIs DEF Reminded, MapTexts
<1> QED BY <1>1 DEF Document

LEMMA AggressiveBody ==
    ASSUME NEW d, NEW policy, policy.mode = "aggressive", NEW fallback
    PROVE  RewriteMessagesBody(d, policy, fallback) = RewriteSystemBody(Reminded(d), BillingHash(d, fallback), policy.strip)
BY DEF RewriteMessagesBody, Reminded, BillingHash

LEMMA SystemDocument ==
    ASSUME NEW d, Document(d), IsFiniteSet(DOMAIN d), NEW hash, NEW strip \in BOOLEAN
    PROVE  Document(RewriteSystemBody(d, hash, strip))
<1>1. Document(StripBillingHeader(d))
  BY StripOutside
<1> QED BY <1>1 DEF RewriteSystemBody, MapTexts, Document

(* Aggressive mode, before preserve_fields. *)
LEMMA BodyAnnounces ==
    ASSUME NEW d, Document(d), IsFiniteSet(DOMAIN d), NEW policy, policy.mode = "aggressive",
           policy.strip \in BOOLEAN, NEW fallback
    PROVE  LET e == RewriteMessagesBody(d, policy, fallback)
               first == ExtractFirstUserMessageText(e)
           IN  first # NoText /\ ~IsObj(e, System) => Announces(e, ComputeCch(first))
<1> DEFINE r == Reminded(d)
           h == BillingHash(d, fallback)
           e == RewriteSystemBody(r, h, policy.strip)
           first == ExtractFirstUserMessageText(e)
<1>1. Document(r) /\ IsFiniteSet(DOMAIN r)
  BY RemindedIs
<1>2. h = IF ExtractFirstUserMessageText(r) = NoText THEN fallback
          ELSE ComputeCch(ExtractFirstUserMessageText(r))
  BY DEF BillingHash
<1> HIDE DEF r, h
<1>3. ASSUME NEW q \in Paths, IsPrefix(<<"messages">>, q) PROVE Same(e, r, q)
  <2>1. "messages" \in Keys
    BY DEF Keys, Words
  <2>2. q[1] = "messages"
    BY <1>3, <2>1, Few
  <2>3. ~IsPrefix(System, q)
    BY <2>2, SystemPath
  <2> QED BY <1>1, <2>3, RewriteSystemOutside
<1> HIDE DEF e
<1>4. first = ExtractFirstUserMessageText(r)
  BY <1>3, ExtractSame DEF SameMessages
<1>5. ASSUME first # NoText, ~IsObj(e, System) PROVE Announces(e, ComputeCch(first))
  <2>1. ~IsObj(r, System)
    BY <1>5 DEF e, RewriteSystemBody
  <2>2. h = ComputeCch(first) /\ h # NoHash
    BY <1>2, <1>4, <1>5 DEF ComputeCch, NoHash
  <2> QED BY <2>1, <2>2, RewriteSystemHash DEF e
<1>6. RewriteMessagesBody(d, policy, fallback) = e
  BY AggressiveBody DEF e, h, r
<1> QED BY <1>5, <1>6

Unpreserved(paths, q) == \A i \in DOMAIN paths : ~IsPrefix(paths[i], q)

LEMMA UnpreservedAbove ==
    ASSUME NEW paths \in Seq(Paths), NEW p \in Paths, NEW q \in Paths, IsPrefix(p, q), Unpreserved(paths, q)
    PROVE  Unpreserved(paths, p)
<1>1. DOMAIN paths = 1 .. Len(paths) /\ \A i \in 1 .. Len(paths) : paths[i] \in Paths
  BY LenProperties, ElementOfSeq
<1> QED BY <1>1, PrefixOfPrefix DEF Unpreserved

LEMMA SystemTextsSame ==
    ASSUME NEW d, Document(d), NEW e, NEW paths \in Seq(Paths),
           \A q \in Paths : Unpreserved(paths, q) => Same(d, e, q),
           NEW q \in SystemTexts(d), Unpreserved(paths, q), ~IsObj(d, System)
    PROVE  q \in SystemTexts(e) /\ ~IsObj(e, System) /\ Same(d, e, q)
<1>1. q \in Paths /\ q \in DOMAIN d /\ IsPrefix(System, q) /\ System \in Paths
  BY SystemTextsBelow, SystemPath
<1>2. Same(d, e, System) /\ Same(d, e, q)
  BY <1>1, UnpreservedAbove
<1>3. (IsArr(d, System) <=> IsArr(e, System)) /\ ~IsObj(e, System)
  BY <1>2 DEF Same, IsArr, IsObj
<1>4. CASE IsArr(d, System)
  <2>1. PICK c \in Elements(d, System) : q \in ItemText(d, c)
    BY <1>4 DEF SystemTexts, SystemItems
  <2>2. c \in Paths /\ c \in DOMAIN d /\ (q = c \/ q = c \o <<"text">>)
    BY <2>1, ElementsBelow, SystemPath DEF ItemText
  <2>3. IsPrefix(c, q)
    BY <1>1, <2>2, TextPath, ConcatIs, PrefixIs
  <2>4. Same(d, e, c)
    BY <1>1, <2>2, <2>3, UnpreservedAbove
  <2>5. c \in Elements(e, System)
    BY <1>3, <1>4, <2>1, <2>4 DEF Elements, Children, Below, Same
  <2>6. q \in ItemText(e, c)
    BY <1>1, <1>2, <2>1, <2>2, <2>4 DEF ItemText, IsObj, Same
  <2> QED BY <1>2, <1>3, <1>4, <2>5, <2>6 DEF SystemTexts, SystemItems
<1>5. CASE ~IsArr(d, System)
  <2>1. q \in TextContainer(d, System)
    BY <1>5 DEF SystemTexts
  <2>2. q = System /\ System \in DOMAIN d
    BY <1>5, <2>1 DEF TextContainer, IsArr, IsObj
  <2>3. System \in TextContainer(e, System)
    BY <1>2, <1>3, <1>5, <2>2 DEF TextContainer, Same, IsArr, IsObj
  <2> QED BY <1>2, <1>3, <1>5, <2>2, <2>3 DEF SystemTexts
<1> QED BY <1>4, <1>5

(* What a request is at each stage. *)
Once(r, opt, d) ==
    \E drawn \in Draws(r.body) : d = RewriteRequestBody(r.body, r.path, opt, drawn)
RewriteInv ==
    /\ request \in ClientRequests /\ option \in Options
    /\ stage \in {"received", "forwarded", "relayed"}
    /\ stage = "received" => out = request.body
    /\ stage = "forwarded" => Once(request, option, out)

LEMMA RewriteStep ==
    ASSUME RewriteInv, [RewriteNext]_rewriteVars PROVE RewriteInv'
<1>1. CASE Forward
  <2>1. stage = "received" /\ stage' = "forwarded" /\ request' = request /\ option' = option
    BY <1>1 DEF Forward, RewriteOnce
  <2>2. out = request.body
    BY <2>1 DEF RewriteInv
  <2>3. \E drawn \in Draws(out) : out' = RewriteRequestBody(out, request.path, option, drawn)
    BY <1>1 DEF Forward, RewriteOnce
  <2>4. Once(request, option, out')
    BY <2>2, <2>3 DEF Once
  <2> QED BY <2>1, <2>4 DEF RewriteInv
<1>2. CASE Relay
  BY <1>2 DEF Relay, RewriteOnce, RewriteInv
<1>3. CASE UNCHANGED rewriteVars
  BY <1>3 DEF rewriteVars, RewriteInv
<1> QED BY <1>1, <1>2, <1>3 DEF RewriteNext

LEMMA RewriteInvHolds == RewriteSpec => []RewriteInv
<1>1. RewriteInit => RewriteInv
  BY DEF RewriteInit, RewriteInv
<1> QED BY <1>1, RewriteStep, PTL DEF RewriteSpec

LEMMA PolicyIs ==
    ASSUME RewriteInv
    PROVE  /\ Policy.mode \in {"aggressive", "conservative", "passthrough"} /\ Policy.strip \in BOOLEAN
           /\ Policy.preserve \in Seq(Paths)
           /\ Document(request.body) /\ IsFiniteSet(DOMAIN request.body)
<1>1. option = NoPolicy \/ option.preserve \in Seq(Paths)
  <2>1. Seq(Seq(STRING) \ {<< >>}) \subseteq Seq(Seq(STRING))
    BY SeqMonotonic
  <2> QED BY <2>1, OptionsAssumption, PathsAre DEF RewriteInv, NoPolicy, None
<1>2. << >> \in Seq(Paths)
  BY EmptySeq
<1>3. Document(request.body) /\ IsFiniteSet(DOMAIN request.body)
  BY ClientRequestsAssumption, PathsAre DEF RewriteInv, Document
<1> QED BY <1>1, <1>2, <1>3 DEF Policy, ActiveRewritePolicy

LEMMA HashFollows == RewriteInv => HashMatchesMessage
<1> DEFINE first == ExtractFirstUserMessageText(out)
<1> SUFFICES ASSUME RewriteInv, Aggressively, Is("messages"), ~MessagesPreserved, first # NoText, ~IsObj(out, System),
                    NEW l \in SystemLines(out), "cc" \in DOMAIN l
             PROVE  l.cc = ComputeCch(first)
  BY DEF HashMatchesMessage, HashOfReceived
<1> DEFINE paths == Policy.preserve
           body == request.body
<1>1. paths \in Seq(Paths) /\ Document(body) /\ IsFiniteSet(DOMAIN body) /\ Policy.strip \in BOOLEAN
  BY PolicyIs
<1>2. Policy.mode = "aggressive" /\ body # << >> /\ stage = "forwarded" /\ "messages" \in request.path
  BY DEF Aggressively, Forwarded, Is
<1>0. PICK fallback : out = PreserveFields(body, RewriteMessagesBody(body, Policy, fallback), paths)
  BY <1>2 DEF RewriteInv, Once, RewriteRequestBody, RewriteRoute, Policy
<1> DEFINE e == RewriteMessagesBody(body, Policy, fallback)
<1>3. out = PreserveFields(body, e, paths)
  BY <1>0
<1>4. Document(e)
  BY <1>1, <1>2, RemindedIs, SystemDocument, AggressiveBody
<1>5. Document(out)
  BY <1>1, <1>3, <1>4, PreserveFieldsDocument
<1>6. \A q \in Paths : Unpreserved(paths, q) => Same(out, e, q)
  BY <1>1, <1>3, PreserveFieldsOutside DEF Unpreserved
<1>7. ASSUME NEW q \in Paths, IsPrefix(<<"messages">>, q) PROVE Unpreserved(paths, q)
  <2>1. <<"messages">> \in Paths
    BY MessagesPath
  <2>2. \A i \in DOMAIN paths : paths[i] \in Paths
    BY <1>1, LenProperties, ElementOfSeq
  <2> QED BY <1>7, <2>1, <2>2, PrefixesOfOne DEF Unpreserved, MessagesPreserved
<1>8. first = ExtractFirstUserMessageText(e)
  BY <1>6, <1>7, ExtractSame DEF SameMessages
<1>9. PICK q \in SystemTexts(out) : /\ IsText(out, q) /\ ~PreservedByName(q)
                                    /\ \E i \in DOMAIN out[q].text : l = out[q].text[i]
  BY DEF SystemLines
<1>10. Unpreserved(paths, q)
  BY <1>9 DEF PreservedByName, Unpreserved
<1> HIDE DEF e
<1>11. q \in SystemTexts(e) /\ ~IsObj(e, System) /\ Same(out, e, q)
  BY <1>1, <1>5, <1>6, <1>10, SystemTextsSame
<1>12. Announces(e, ComputeCch(first))
  BY <1>1, <1>2, <1>8, <1>11, BodyAnnounces DEF e
<1>13. IsText(e, q) /\ e[q] = out[q]
  BY <1>9, <1>11 DEF Same, IsText
<1> QED BY <1>9, <1>11, <1>12, <1>13 DEF Announces

(* The hash in the system prompt is that of the first user message that    *)
(* leaves, for every body and policy (rewrite_messages_body).              *)
THEOREM HashMatchesMessageHolds == RewriteSpec => []HashMatchesMessage
BY RewriteInvHolds, HashFollows, PTL

(* The texts of messages, which their paths tell from all that the rewriter *)
(* changes elsewhere.                                                       *)
LEMMA ContentTextsBelow ==
    ASSUME NEW d, Document(d), NEW q \in ContentTexts(d)
    PROVE  /\ q \in Paths /\ q \in DOMAIN d /\ IsPrefix(<<"messages">>, q) /\ q[1] = "messages"
           /\ Key(q) \in {"content", "text"}
<1>0. "messages" \in Keys /\ <<"messages">> \in Paths /\ <<"content">> \in Paths
  BY Few DEF Keys, Words
<1>1. PICK m \in Elements(d, <<"messages">>) : q \in TextContainer(d, m \o <<"content">>)
  BY DEF ContentTexts
<1> DEFINE c == m \o <<"content">>
<1>2. m \in Paths /\ IsPrefix(<<"messages">>, m)
  BY <1>0, <1>1, ElementsBelow
<1>3. c \in Paths /\ IsPrefix(<<"messages">>, c) /\ Key(c) = "content"
  <2>1. c \in Paths /\ IsPrefix(m, c)
    BY <1>0, <1>2, ConcatIs
  <2>2. Key(c) = "content"
    BY <1>0, <1>2, ConcatProperties DEF Key, Paths
  <2> QED BY <1>0, <1>2, <2>1, <2>2, PrefixOfPrefix
<1> HIDE DEF c
<1>4. ASSUME NEW p \in Paths, IsPrefix(<<"messages">>, p)
      PROVE  /\ p \o <<"text">> \in Paths /\ IsPrefix(<<"messages">>, p \o <<"text">>)
             /\ Key(p \o <<"text">>) = "text"
  <2>1. p \o <<"text">> \in Paths /\ IsPrefix(p, p \o <<"text">>)
    BY TextPath, ConcatIs
  <2>2. Key(p \o <<"text">>) = "text"
    BY TextPath, ConcatProperties DEF Key, Paths
  <2> QED BY <1>0, <1>4, <2>1, <2>2, PrefixOfPrefix
<1>5. \/ q = c /\ c \in DOMAIN d
      \/ q = c \o <<"text">> /\ q \in DOMAIN d
      \/ \E e \in Elements(d, c) : q = e \o <<"text">> /\ q \in DOMAIN d
  BY <1>1 DEF TextContainer, IsArr, IsObj, c
<1>6. \A e \in Elements(d, c) : e \in Paths /\ IsPrefix(<<"messages">>, e)
  BY <1>0, <1>3, ElementsBelow, PrefixOfPrefix
<1>7. q \in Paths /\ q \in DOMAIN d /\ IsPrefix(<<"messages">>, q) /\ Key(q) \in {"content", "text"}
  BY <1>3, <1>4, <1>5, <1>6
<1> QED BY <1>0, <1>7, Few

(* A text whose lines outside reminders are the same. *)
WordsKept(d, e, q) ==
    /\ q \in DOMAIN e
    /\ Len(e[q].text) = Len(d[q].text)
    /\ \A i \in DOMAIN e[q].text : ~d[q].text[i].reminder => e[q].text[i] = d[q].text[i]

LEMMA RemindersLength ==
    ASSUME NEW S, NEW text \in Seq(S)
    PROVE  Len(RewriteSystemReminders(text)) = Len(text)
<1> DEFINE new == RewriteSystemReminders(text)
           T == {new[i] : i \in DOMAIN text}
<1>1. DOMAIN text = 1 .. Len(text) /\ Len(text) \in Nat
  BY LenProperties
<1>2. new \in [1 .. Len(text) -> T]
  BY <1>1 DEF RewriteSystemReminders
<1> HIDE DEF new, T
<1>3. new \in Seq(T) /\ DOMAIN new = 1 .. Len(text)
  BY <1>1, <1>2, SeqDef
<1>4. DOMAIN new = 1 .. Len(new) /\ Len(new) \in Nat
  BY <1>3, LenProperties
<1> QED BY <1>1, <1>3, <1>4 DEF new

LEMMA RemindersKeepWords ==
    ASSUME NEW d, Document(d), IsFiniteSet(DOMAIN d), NEW q \in ContentTexts(d), IsText(d, q),
           d[q].text \in Seq(Range(d[q].text))
    PROVE  /\ WordsKept(d, RewriteMessagesMetadata(d), q) /\ WordsKept(d, Reminded(d), q)
           /\ \A e : Same(e, RewriteMessagesMetadata(d), q) \/ Same(e, Reminded(d), q) => WordsKept(d, e, q)
<1> DEFINE identified == RewriteMessagesMetadata(d)
           text == d[q].text
<1>1. q \in DOMAIN d /\ q # <<"metadata", "user_id">>
  <2>1. q \in DOMAIN d /\ q[1] = "messages"
    BY ContentTextsBelow
  <2> QED BY <2>1
<1>2. q \in DOMAIN identified /\ identified[q] = d[q]
  BY <1>1, MetadataIs
<1>3. q \in DOMAIN Reminded(d)
  BY <1>2 DEF Reminded, MapTexts
<1>4. Reminded(d)[q] = d[q] \/ Reminded(d)[q] = Text(RewriteSystemReminders(text))
  BY <1>2 DEF Reminded, MapTexts
<1> DEFINE new == Reminded(d)[q].text
<1>5. new = text \/ new = RewriteSystemReminders(text)
  BY <1>4 DEF Text
<1>6. Len(new) = Len(text)
  BY <1>5, RemindersLength
<1>7. \A i \in DOMAIN new : ~text[i].reminder => new[i] = text[i]
  BY <1>5 DEF RewriteSystemReminders
<1>8. WordsKept(d, identified, q) /\ WordsKept(d, Reminded(d), q)
  BY <1>2, <1>3, <1>6, <1>7 DEF WordsKept
<1> QED BY <1>8 DEF WordsKept, Same

LEMMA MessagesKeepWords ==
    ASSUME NEW d, Document(d), IsFiniteSet(DOMAIN d), NEW q \in ContentTexts(d), IsText(d, q),
           d[q].text \in Seq(Range(d[q].text)), NEW policy, policy.strip \in BOOLEAN, NEW fallback
    PROVE  WordsKept(d, RewriteMessagesBody(d, policy, fallback), q)
<1> DEFINE identified == RewriteMessagesMetadata(d)
<1>1. q \in Paths /\ ~IsPrefix(System, q)
  <2>1. q \in Paths /\ q[1] = "messages"
    BY ContentTextsBelow
  <2> QED BY <2>1, SystemPath
<1>2. Document(identified) /\ IsFiniteSet(DOMAIN identified)
  BY MetadataIs DEF Document
<1>3. CASE policy.mode = "aggressive"
  <2>1. Same(RewriteMessagesBody(d, policy, fallback), Reminded(d), q)
    BY <1>1, <1>3, RemindedIs, RewriteSystemOutside, AggressiveBody
  <2> QED BY <2>1, RemindersKeepWords
<1>4. CASE policy.mode # "aggressive"
  <2>1. RewriteMessagesBody(d, policy, fallback) = IF policy.strip THEN StripBillingHeader(identified) ELSE identified
    BY <1>4 DEF RewriteMessagesBody
  <2>2. Same(StripBillingHeader(identified), identified, q)
    BY <1>1, <1>2, StripOutside
  <2> QED BY <2>1, <2>2, RemindersKeepWords
<1> QED BY <1>3, <1>4

LEMMA EventsBelow ==
    ASSUME NEW d, Document(d), NEW p \in EventData(d), NEW q \in Paths, IsPrefix(p, q)
    PROVE  q[1] = "events"
<1>0. {"events", "event_data"} \subseteq Keys /\ <<"events">> \in Paths /\ <<"event_data">> \in Paths
  BY Few DEF Keys, Words
<1>1. PICK e \in Elements(d, <<"events">>) : p = e \o <<"event_data">>
  BY DEF EventData
<1>2. p \in Paths /\ IsPrefix(<<"events">>, p)
  BY <1>0, <1>1, ElementsBelow, ConcatIs, PrefixOfPrefix
<1>3. IsPrefix(<<"events">>, q)
  BY <1>0, <1>2, PrefixOfPrefix
<1> QED BY <1>0, <1>3, Few

LEMMA BatchKeepsWords ==
    ASSUME NEW d, Document(d), NEW policy, NEW drawn, NEW q \in ContentTexts(d)
    PROVE  LET e == RewriteEventBatch(d, policy, drawn) IN q \in DOMAIN e /\ e[q] = d[q]
<1> DEFINE new == [e \in EventData(d) |-> RewriteEvent(Sub(d, e), policy, drawn[e])]
           rewritten == PutAll(d, new)
<1>1. q \in Paths /\ q \in DOMAIN d /\ q[1] = "messages" /\ Key(q) \in {"content", "text"}
  BY ContentTextsBelow
<1>2. \A p \in EventData(d) : ~IsPrefix(p, q)
  BY <1>1, EventsBelow
<1>3. DOMAIN new = EventData(d)
  OBVIOUS
<1>4. RewriteEventBatch(d, policy, drawn) =
        IF policy.normalize /\ IsArr(d, <<"events">>) THEN NormalizeTimestamps(rewritten) ELSE rewritten
  BY DEF RewriteEventBatch
<1> HIDE DEF new
<1>5. q \notin UNION {Below(d, p) : p \in DOMAIN new}
  BY <1>2, <1>3 DEF Below
<1>6. q \in DOMAIN rewritten /\ rewritten[q] = d[q]
  BY <1>1, <1>2, <1>3, <1>5 DEF PutAll
<1> HIDE DEF rewritten
<1>7. Key(q) \notin TimestampKeys
  BY <1>1 DEF TimestampKeys
<1>8. q \in DOMAIN NormalizeTimestamps(rewritten) /\ NormalizeTimestamps(rewritten)[q] = rewritten[q]
  BY <1>6, <1>7 DEF NormalizeTimestamps
<1> QED BY <1>4, <1>6, <1>8

LEMMA IdentityKeepsWords ==
    ASSUME NEW d, Document(d), NEW q \in ContentTexts(d)
    PROVE  Same(RewriteEventIdentity(d), d, q)
<1> DEFINE ids == {p \in IdPaths(d) : Len(p) = 1}
           new == [p \in ids |-> Leaf(Canonical)]
<1>1. q \in Paths /\ q[1] = "messages"
  BY ContentTextsBelow
<1>2. ASSUME NEW p \in ids PROVE p \in Paths /\ ~IsPrefix(p, q)
  <2>1. p \in Paths /\ Len(p) = 1 /\ Key(p) \in IdKeys
    BY DEF IdPaths, Document
  <2>2. p[1] # "messages" /\ 1 \in 1 .. Len(p)
    BY <2>1 DEF Key, IdKeys
  <2>3. ASSUME IsPrefix(p, q) PROVE p[1] = q[1]
    BY <1>1, <2>1, <2>2, <2>3, PrefixIs
  <2> QED BY <1>1, <2>1, <2>2, <2>3
<1>3. Document(Leaf(Canonical))
  BY LeafIs
<1> HIDE DEF ids
<1>4. Placed(new)
  BY <1>2, <1>3 DEF Placed
<1>5. Same(PutAll(d, new), d, q)
  BY <1>1, <1>2, <1>4, PutAllOutside
<1> QED BY <1>5 DEF RewriteEventIdentity, Canonicalize, ids

LEMMA UserWordsFollow == RewriteInv => UserWordsUntouched
<1> SUFFICES ASSUME RewriteInv, Forwarded, NEW q \in ContentTexts(request.body), IsText(request.body, q)
             PROVE  WordsKept(request.body, out, q)
  BY DEF UserWordsUntouched, WordsKept
<1> DEFINE paths == Policy.preserve
           body == request.body
<1>1. paths \in Seq(Paths) /\ Document(body) /\ IsFiniteSet(DOMAIN body) /\ Policy.strip \in BOOLEAN
  BY PolicyIs
<1>2. PICK drawn \in Draws(body) :
            out = RewriteRequestBody(body, request.path, option, drawn)
  BY DEF RewriteInv, Forwarded, Once
<1>3. q \in Paths /\ q \in DOMAIN body /\ Key(q) \in {"content", "text"}
  BY <1>1, ContentTextsBelow
<1>4. body[q].text \in Seq(Range(body[q].text))
  BY <1>3, ClientRequestsAssumption DEF RewriteInv, IsText
<1>5. WordsKept(body, body, q)
  BY <1>3 DEF WordsKept
<1> DEFINE e == RewriteRoute(body, request.path, Policy, drawn)
<1>6. WordsKept(body, e, q)
  <2>1. WordsKept(body, RewriteMessagesBody(body, Policy, drawn.hash), q)
    BY <1>1, <1>4, MessagesKeepWords
  <2>2. WordsKept(body, RewriteEventBatch(body, Policy, drawn.metrics), q)
    BY <1>1, <1>5, BatchKeepsWords DEF WordsKept
  <2>3. WordsKept(body, RewriteEventIdentity(body), q)
    <3>1. Same(RewriteEventIdentity(body), body, q)
      BY <1>1, <1>3, IdentityKeepsWords
    <3> QED BY <1>3, <1>5, <3>1 DEF WordsKept, Same
  <2> QED BY <1>5, <2>1, <2>2, <2>3 DEF RewriteRoute
<1> HIDE DEF e
<1>7. q \in DOMAIN e
  BY <1>6 DEF WordsKept
<1>8. WordsKept(body, PreserveFields(body, e, paths), q)
  <2> DEFINE f == PreserveFields(body, e, paths)
  <2>1. q \in DOMAIN f /\ (f[q] = e[q] \/ f[q] = body[q])
    BY <1>1, <1>3, <1>7, PreserveFieldsEither
  <2> QED BY <1>5, <1>6, <2>1 DEF WordsKept
<1>9. out = body \/ out = PreserveFields(body, e, paths)
  BY <1>2 DEF RewriteRequestBody, Policy, e
<1> QED BY <1>5, <1>8, <1>9

(* On every route and under every policy what the user wrote outside the   *)
(* reminders leaves as it came (rewrite_request_body).                     *)
THEOREM UserWordsUntouchedHolds == RewriteSpec => []UserWordsUntouched
BY RewriteInvHolds, UserWordsFollow, PTL

-----------------------------------------------------------------------------
(* A path and its last key. *)
LEMMA PrefixOrder ==
    ASSUME NEW p \in Paths, NEW q \in Paths
    PROVE  /\ << >> \in Paths /\ IsPrefix(<< >>, p) /\ IsPrefix(p, p) /\ Rest(p, p) = << >>
           /\ IsPrefix(p, << >>) => p = << >>
           /\ IsPrefix(p, q) /\ Len(q) <= Len(p) => p = q
           /\ IsPrefix(p, q) /\ IsPrefix(q, p) => p = q
<1>1. Len(p) \in Nat /\ Len(q) \in Nat /\ << >> \in Paths /\ Len(<< >>) = 0
  BY LenProperties, EmptySeq DEF Paths
<1>2. IsPrefix(<< >>, p) /\ IsPrefix(p, p)
  BY <1>1, PrefixIs
<1>3. ASSUME IsPrefix(p, q), Len(q) <= Len(p) PROVE p = q
  <2>1. Len(p) = Len(q) /\ \A i \in 1 .. Len(p) : p[i] = q[i]
    BY <1>1, <1>3, PrefixIs
  <2> QED BY <2>1, SeqEqual DEF Paths
<1>4. IsPrefix(p, q) => Len(p) <= Len(q)
  BY PrefixIs
<1>5. IsPrefix(q, p) => Len(q) <= Len(p)
  BY PrefixIs
<1>6. IsPrefix(p, << >>) => p = << >>
  <2>1. IsPrefix(p, << >>) => Len(p) <= 0
    BY <1>1, PrefixIs
  <2> QED BY <1>1, <2>1, EmptySeq DEF Paths
<1>7. Rest(p, p) = << >>
  <2>1. p \o << >> = p
    BY ConcatProperties, <1>1, SeqEqual DEF Paths
  <2>2. Rest(p, p \o << >>) = << >>
    BY <1>1, ConcatIs
  <2> QED BY <2>1, <2>2
<1> QED BY <1>1, <1>2, <1>3, <1>4, <1>5, <1>6, <1>7

LEMMA ChildIs ==
    ASSUME NEW p \in Paths, NEW k \in Keys
    PROVE  /\ p \o <<k>> \in Paths /\ p \o <<k>> # << >> /\ Len(p \o <<k>>) = Len(p) + 1
           /\ Front(p \o <<k>>) = p /\ Key(p \o <<k>>) = k /\ IsPrefix(p, p \o <<k>>)
           /\ (p \o <<k>>)[Len(p) + 1] = k
<1> DEFINE q == p \o <<k>>
<1>1. <<k>> \in Paths /\ Len(<<k>>) = 1 /\ <<k>>[1] = k
  BY Few
<1>2. Len(p) \in Nat /\ Len(q) = Len(p) + 1 /\ q \in Paths /\ IsPrefix(p, q)
  <2>1. q \in Paths /\ IsPrefix(p, q)
    BY <1>1, ConcatIs
  <2>2. Len(p) \in Nat /\ Len(q) = Len(p) + Len(<<k>>)
    BY <1>1, ConcatProperties, LenProperties DEF Paths
  <2> QED BY <1>1, <2>1, <2>2
<1>3. q[Len(p) + 1] = k /\ \A i \in 1 .. Len(p) : q[i] = p[i]
  BY <1>1, <1>2, ConcatProperties DEF Paths
<1>4. q # << >>
  BY <1>2, EmptySeq
<1>5. Front(q) = p
  <2>1. Front(q) = SubSeq(q, 1, Len(p))
    BY <1>2 DEF Front
  <2>2. \A i \in 1 .. Len(p) : q[i] \in Keys
    BY <1>2, ElementOfSeq DEF Paths
  <2>3. /\ SubSeq(q, 1, Len(p)) \in Paths /\ Len(SubSeq(q, 1, Len(p))) = Len(p)
        /\ \A i \in 1 .. Len(p) : SubSeq(q, 1, Len(p))[i] = q[i]
    BY <1>2, <2>2, SubSeqProperties DEF Paths
  <2> QED BY <1>3, <2>1, <2>3, SeqEqual DEF Paths
<1> QED BY <1>2, <1>3, <1>4, <1>5 DEF Key

LEMMA FrontIs ==
    ASSUME NEW q \in Paths, q # << >>
    PROVE  /\ Front(q) \in Paths /\ Key(q) \in Keys /\ q = Front(q) \o <<Key(q)>>
           /\ IsPrefix(Front(q), q) /\ Len(Front(q)) = Len(q) - 1
<1>1. Len(q) \in Nat /\ Len(q) # 0
  BY LenProperties, EmptySeq DEF Paths
<1> DEFINE p == Front(q)
<1>2. \A i \in 1 .. Len(q) : q[i] \in Keys
  BY ElementOfSeq DEF Paths
<1>3. p \in Paths /\ Len(p) = Len(q) - 1 /\ \A i \in 1 .. Len(q) - 1 : p[i] = q[i]
  <2>1. 1 \in Int /\ Len(q) - 1 \in Int /\ \A i \in 1 .. Len(q) - 1 : q[i] \in Keys
    BY <1>1, <1>2
  <2>2. /\ SubSeq(q, 1, Len(q) - 1) \in Seq(Keys)
        /\ Len(SubSeq(q, 1, Len(q) - 1)) = IF 1 <= Len(q) - 1 THEN (Len(q) - 1) - 1 + 1 ELSE 0
        /\ \A i \in 1 .. (Len(q) - 1) - 1 + 1 : SubSeq(q, 1, Len(q) - 1)[i] = q[1 + i - 1]
    BY <2>1, SubSeqProperties
  <2>3. \A i \in 1 .. Len(q) - 1 : SubSeq(q, 1, Len(q) - 1)[i] = q[i]
    BY <1>1, <2>2
  <2>4. Len(SubSeq(q, 1, Len(q) - 1)) = Len(q) - 1
    <3>1. CASE Len(q) = 1
      BY <2>2, <3>1
    <3>2. CASE Len(q) # 1
      <4>0. \A n \in Nat : n # 0 /\ n # 1 => 1 <= n - 1
        OBVIOUS
      <4>1. 1 <= Len(q) - 1
        BY <1>1, <3>2, <4>0
      <4> QED BY <1>1, <2>2, <4>1
    <3> QED BY <3>1, <3>2
  <2> QED BY <2>2, <2>3, <2>4 DEF Paths, Front
<1>4. Key(q) \in Keys
  BY <1>1, <1>2 DEF Key
<1> HIDE DEF p
<1> DEFINE k == Key(q)
<1>5. p \o <<k>> \in Paths /\ Len(p \o <<k>>) = Len(q) /\ IsPrefix(p, p \o <<k>>) /\ (p \o <<k>>)[Len(q)] = k
  BY <1>1, <1>3, <1>4, ChildIs
<1>6. \A i \in 1 .. Len(q) - 1 : (p \o <<k>>)[i] = q[i]
  BY <1>3, <1>5, PrefixIs
<1>7. (p \o <<k>>)[Len(q)] = q[Len(q)]
  BY <1>5 DEF Key
<1>8. \A i \in 1 .. Len(q) : (p \o <<k>>)[i] = q[i]
  <2>1. \A i \in 1 .. Len(q) : i = Len(q) \/ i \in 1 .. Len(q) - 1
    BY <1>1
  <2> HIDE DEF k
  <2> QED BY <1>6, <1>7, <2>1
<1>9. p \o <<k>> = q
  BY <1>5, <1>8, SeqEqual DEF Paths
<1> QED BY <1>3, <1>4, <1>5, <1>9 DEF p

LEMMA PrefixOfChild ==
    ASSUME NEW p \in Paths, NEW k \in Keys, NEW x \in Paths, IsPrefix(x, p \o <<k>>)
    PROVE  x = p \o <<k>> \/ IsPrefix(x, p)
<1> DEFINE q == p \o <<k>>
<1>1. q \in Paths /\ Len(q) = Len(p) + 1 /\ IsPrefix(p, q) /\ Len(p) \in Nat /\ Len(x) \in Nat
  BY ChildIs, LenProperties DEF Paths
<1>2. CASE Len(x) <= Len(p)
  BY <1>1, <1>2, PrefixIs
<1>3. CASE Len(x) > Len(p)
  <2>1. Len(q) <= Len(x) /\ IsPrefix(x, q) /\ q \in Paths
    BY <1>1, <1>3
  <2> HIDE DEF q
  <2>2. x = q
    BY <2>1, PrefixOrder
  <2> QED BY <2>2 DEF q
<1> QED BY <1>1, <1>2, <1>3

LEMMA PathsAssociate ==
    ASSUME NEW p \in Paths, NEW q \in Paths, NEW r \in Paths
    PROVE  (p \o q) \o r = p \o (q \o r)
BY ConcatAssociative DEF Paths

LEMMA RestOfChild ==
    ASSUME NEW p \in Paths, NEW k \in Keys, NEW x \in Paths, IsPrefix(x, p)
    PROVE  Rest(x, p \o <<k>>) = Rest(x, p) \o <<k>> /\ IsPrefix(x, p \o <<k>>)
<1>1. Rest(x, p) \in Paths /\ x \o Rest(x, p) = p /\ <<k>> \in Paths
  BY RestIs, Few
<1> DEFINE r == Rest(x, p)
           l == <<k>>
<1>2. p \o l = x \o (r \o l)
  <2> HIDE DEF r, l
  <2>1. x \o r = p /\ r \in Paths /\ l \in Paths
    BY <1>1 DEF r, l
  <2>2. (x \o r) \o l = x \o (r \o l)
    BY <2>1, PathsAssociate
  <2> QED BY <2>1, <2>2
<1>3. r \o l \in Paths
  BY <1>1, ConcatIs
<1> HIDE DEF r, l
<1>4. Rest(x, x \o (r \o l)) = r \o l /\ IsPrefix(x, x \o (r \o l))
  BY <1>3, ConcatIs
<1> QED BY <1>2, <1>4 DEF r, l

LEMMA ChildrenDiffer ==
    ASSUME NEW p \in Paths, NEW k \in Keys, NEW q \in Paths, NEW j \in Keys, p \o <<k>> = q \o <<j>>
    PROVE  p = q /\ k = j
<1>1. Front(p \o <<k>>) = p /\ Key(p \o <<k>>) = k
  BY ChildIs
<1>2. Front(q \o <<j>>) = q /\ Key(q \o <<j>>) = j
  BY ChildIs
<1> QED BY <1>1, <1>2

(* A document by its children: what IsDocument says of one that is not empty. *)
Grown(d) ==
    /\ Document(d) /\ << >> \in DOMAIN d
    /\ \A p \in Paths, k \in Keys : p \o <<k>> \in DOMAIN d => IsObj(d, p) \/ IsArr(d, p)
    /\ \A p \in Paths : IsArr(d, p) =>
            \E n \in 0 .. Len(Index) : \A k \in Keys : p \o <<k>> \in DOMAIN d <=> k \in {Index[i] : i \in 1 .. n}

LEMMA ChildrenAre ==
    ASSUME NEW d, Document(d), NEW p \in Paths
    PROVE  /\ Children(d, p) = {p \o <<k>> : k \in {j \in Keys : p \o <<j>> \in DOMAIN d}}
           /\ {Key(q) : q \in Children(d, p)} = {k \in Keys : p \o <<k>> \in DOMAIN d}
<1>1. ASSUME NEW q \in Children(d, p)
      PROVE  q \in DOMAIN d /\ Key(q) \in Keys /\ q = p \o <<Key(q)>>
  <2>1. q \in Paths /\ q \in DOMAIN d /\ IsPrefix(p, q) /\ Len(q) = Len(p) + 1 /\ Len(p) \in Nat
    BY LenProperties DEF Children, Below, Document, Paths
  <2>2. q # << >>
    BY <2>1, EmptySeq
  <2>3. Front(q) \in Paths /\ Key(q) \in Keys /\ q = Front(q) \o <<Key(q)>> /\ Len(Front(q)) = Len(p)
    BY <2>1, <2>2, FrontIs
  <2>4. p # q
    BY <2>1
  <2>5. p = Front(q)
    <3>1. IsPrefix(p, Front(q))
      BY <2>1, <2>3, <2>4, PrefixOfChild
    <3> QED BY <2>1, <2>3, <3>1, PrefixOrder
  <2> QED BY <2>1, <2>3, <2>5
<1>2. ASSUME NEW k \in Keys, p \o <<k>> \in DOMAIN d
      PROVE  p \o <<k>> \in Children(d, p) /\ Key(p \o <<k>>) = k
  BY <1>2, ChildIs DEF Children, Below
<1>3. Children(d, p) = {p \o <<k>> : k \in {j \in Keys : p \o <<j>> \in DOMAIN d}}
  BY <1>1, <1>2
<1> QED BY <1>1, <1>2, <1>3

LEMMA GrownIs ==
    ASSUME NEW d, Document(d), d # << >>
    PROVE  IsDocument(d) <=> Grown(d)
<1>1. ASSUME NEW q \in DOMAIN d \ {<< >>}
      PROVE  Front(q) \in Paths /\ Key(q) \in Keys /\ q = Front(q) \o <<Key(q)>>
  BY FrontIs DEF Document
<1>2. ASSUME NEW p \in Paths, NEW k \in Keys
      PROVE  p \o <<k>> # << >> /\ Front(p \o <<k>>) = p
  BY ChildIs
<1>3. (\A q \in DOMAIN d \ {<< >>} : IsObj(d, Front(q)) \/ IsArr(d, Front(q)))
        <=> \A p \in Paths, k \in Keys : p \o <<k>> \in DOMAIN d => IsObj(d, p) \/ IsArr(d, p)
  BY <1>1, <1>2
<1>4. ASSUME NEW p \in Paths, NEW n \in 0 .. Len(Index)
      PROVE  {Key(q) : q \in Children(d, p)} = {Index[i] : i \in 1 .. n}
                <=> \A k \in Keys : p \o <<k>> \in DOMAIN d <=> k \in {Index[i] : i \in 1 .. n}
  <2> DEFINE K == {Key(q) : q \in Children(d, p)}
             N == {Index[i] : i \in 1 .. n}
  <2>1. N \subseteq Keys
    BY IndexDomain DEF Keys
  <2>2. K = {k \in Keys : p \o <<k>> \in DOMAIN d}
    BY ChildrenAre
  <2> HIDE DEF K, N
  <2>3. K = N <=> \A k \in Keys : p \o <<k>> \in DOMAIN d <=> k \in N
    BY <2>1, <2>2
  <2> QED BY <2>3 DEF K, N
<1>5. \A p \in DOMAIN d : p \in Paths
  BY DEF Document
<1>6. (\A p \in DOMAIN d : IsArr(d, p) =>
            \E n \in 0 .. Len(Index) : {Key(q) : q \in Children(d, p)} = {Index[i] : i \in 1 .. n})
        <=> \A p \in Paths : IsArr(d, p) =>
            \E n \in 0 .. Len(Index) : \A k \in Keys : p \o <<k>> \in DOMAIN d <=> k \in {Index[i] : i \in 1 .. n}
  BY <1>4, <1>5 DEF IsArr
<1> QED BY <1>3, <1>6 DEF IsDocument, Grown

(* A document and one with the same containers. *)
LEMMA GrownSame ==
    ASSUME NEW d, Grown(d), NEW e, DOMAIN e = DOMAIN d,
           \A q \in DOMAIN d : (IsObj(e, q) <=> IsObj(d, q)) /\ (IsArr(e, q) <=> IsArr(d, q))
    PROVE  Grown(e)
<1>1. Document(e) /\ << >> \in DOMAIN e
  BY DEF Grown, Document
<1>2. \A q : (IsObj(e, q) <=> IsObj(d, q)) /\ (IsArr(e, q) <=> IsArr(d, q))
  BY DEF IsObj, IsArr
<1> QED BY <1>1, <1>2 DEF Grown

(* Above a node there are nodes. *)
LEMMA GrownAbove ==
    ASSUME NEW d, Grown(d), NEW q \in DOMAIN d, NEW p \in Paths, IsPrefix(p, q), p # q
    PROVE  p \in DOMAIN d /\ (IsObj(d, p) \/ IsArr(d, p))
<1> DEFINE T == {n \in Nat : \A x \in DOMAIN d : Len(x) = Len(p) + n + 1 /\ IsPrefix(p, x) => IsObj(d, p) \/ IsArr(d, p)}
<1>0. q \in Paths /\ Len(p) \in Nat /\ Len(q) \in Nat /\ Document(d)
  BY LenProperties DEF Grown, Document, Paths
<1>1. ASSUME NEW x \in DOMAIN d, Len(x) > Len(p), IsPrefix(p, x)
      PROVE  /\ x \in Paths /\ Front(x) \in Paths /\ IsPrefix(p, Front(x)) /\ Len(Front(x)) = Len(x) - 1
             /\ IsObj(d, Front(x)) \/ IsArr(d, Front(x))
  <2>1. x \in Paths /\ Len(x) \in Nat
    BY <1>0, LenProperties DEF Document, Paths
  <2>2. x # << >>
    BY <1>0, <1>1, EmptySeq
  <2>3. /\ Front(x) \in Paths /\ Key(x) \in Keys /\ x = Front(x) \o <<Key(x)>>
        /\ Len(Front(x)) = Len(x) - 1
    BY <2>1, <2>2, FrontIs
  <2>4. IsPrefix(p, Front(x))
    <3>0. p # x
      BY <1>0, <1>1, <2>1
    <3>1. IsPrefix(p, Front(x) \o <<Key(x)>>) /\ p # Front(x) \o <<Key(x)>>
      BY <1>1, <2>3, <3>0, Zenon
    <3> QED BY <2>3, <3>1, PrefixOfChild
  <2> QED BY <2>1, <2>3, <2>4 DEF Grown
<1>2. 0 \in T
  <2>1. ASSUME NEW x \in DOMAIN d, Len(x) = Len(p) + 0 + 1, IsPrefix(p, x) PROVE IsObj(d, p) \/ IsArr(d, p)
    <3>1. Front(x) = p
      BY <1>0, <1>1, <2>1, PrefixOrder
    <3> QED BY <1>0, <1>1, <2>1, <3>1
  <2> QED BY <2>1
<1>3. ASSUME NEW n \in Nat, n \in T PROVE n + 1 \in T
  <2>1. ASSUME NEW x \in DOMAIN d, Len(x) = Len(p) + (n + 1) + 1, IsPrefix(p, x) PROVE IsObj(d, p) \/ IsArr(d, p)
    <3>1. Front(x) \in DOMAIN d /\ IsPrefix(p, Front(x)) /\ Len(Front(x)) = Len(p) + n + 1
      BY <1>0, <1>1, <2>1 DEF IsObj, IsArr
    <3> QED BY <1>3, <3>1
  <2> QED BY <2>1
<1>4. Nat \subseteq T
  <2> HIDE DEF T
  <2> QED BY <1>2, <1>3, NatBySet
<1>5. Len(q) > Len(p)
  <2>1. Len(p) <= Len(q)
    BY <1>0, PrefixIs
  <2> QED BY <1>0, <2>1, PrefixOrder
<1> DEFINE n == Len(q) - Len(p) - 1
<1>6. n \in Nat /\ Len(q) = Len(p) + n + 1
  BY <1>0, <1>5
<1> HIDE DEF n
<1>7. n \in T
  BY <1>4, <1>6
<1> QED BY <1>6, <1>7 DEF IsObj, IsArr

-----------------------------------------------------------------------------
(* None of the paths is above another. *)
Apart(new) == \A p, x \in DOMAIN new : IsPrefix(p, x) => p = x

LEMMA PutAllAt ==
    ASSUME NEW d, NEW new, Placed(new), Apart(new), NEW p \in DOMAIN new, NEW q \in Paths, IsPrefix(p, q)
    PROVE  /\ q \in DOMAIN PutAll(d, new) <=> Rest(p, q) \in DOMAIN new[p]
           /\ q \in DOMAIN PutAll(d, new) => PutAll(d, new)[q] = new[p][Rest(p, q)]
<1>1. \A x \in DOMAIN new : IsPrefix(x, q) => x = p
  BY PrefixesOfOne DEF Placed, Apart
<1> QED BY <1>1, PutAllInside

(* What is at p is there, or p is a new key of an object. *)
Grows(d, p) == p \in DOMAIN d \/ (p # << >> /\ IsObj(d, Front(p)))

LEMMA PutAllGrown ==
    ASSUME NEW d, Grown(d), NEW new, Apart(new),
           \A p \in DOMAIN new : p \in Paths /\ Grown(new[p]) /\ Grows(d, p)
    PROVE  Grown(PutAll(d, new))
<1> DEFINE e == PutAll(d, new)
<1>0. Placed(new) /\ Document(d)
  BY DEF Placed, Grown
<1>1. Document(e)
  BY <1>0, PutAllDocument
<1>2. ASSUME NEW q \in Paths, \A x \in DOMAIN new : ~IsPrefix(x, q) PROVE Same(e, d, q)
  BY <1>0, <1>2, PutAllOutside
<1>3. ASSUME NEW p \in DOMAIN new, NEW q \in Paths, IsPrefix(p, q)
      PROVE  /\ q \in DOMAIN e <=> Rest(p, q) \in DOMAIN new[p]
             /\ q \in DOMAIN e => e[q] = new[p][Rest(p, q)]
  BY <1>0, <1>3, PutAllAt
<1> HIDE DEF e
<1>4. << >> \in Paths
  BY EmptySeq DEF Paths
<1>5. << >> \in DOMAIN e
  <2>1. CASE << >> \in DOMAIN new
    <3>1. Rest(<< >>, << >>) = << >> /\ IsPrefix(<< >>, << >>)
      BY <1>4, PrefixOrder
    <3> QED BY <1>3, <1>4, <2>1, <3>1 DEF Grown
  <2>2. CASE << >> \notin DOMAIN new
    <3>1. \A x \in DOMAIN new : ~IsPrefix(x, << >>)
      BY <2>2, <1>4, PrefixOrder
    <3> QED BY <1>2, <1>4, <3>1 DEF Grown, Same
  <2> QED BY <2>1, <2>2
<1>6. ASSUME NEW p \in DOMAIN new, NEW q \in Paths, IsPrefix(p, q)
      PROVE  /\ IsObj(e, q) <=> IsObj(new[p], Rest(p, q))
             /\ IsArr(e, q) <=> IsArr(new[p], Rest(p, q))
  BY <1>3, <1>6 DEF IsObj, IsArr
(* Below a path that is put, it is as in what is put there. *)
<1>7. ASSUME NEW p \in DOMAIN new, NEW q \in Paths, IsPrefix(p, q), NEW k \in Keys
      PROVE  /\ Rest(p, q) \in Paths
             /\ q \o <<k>> \in DOMAIN e <=> Rest(p, q) \o <<k>> \in DOMAIN new[p]
  <2>1. p \in Paths /\ q \o <<k>> \in Paths
    BY ChildIs
  <2>2. Rest(p, q \o <<k>>) = Rest(p, q) \o <<k>> /\ IsPrefix(p, q \o <<k>>)
    BY <1>7, <2>1, RestOfChild
  <2> QED BY <1>3, <1>7, <2>1, <2>2, RestIs
(* Elsewhere a path has the children it had, but for new keys of an object. *)
<1>8. ASSUME NEW q \in Paths, \A x \in DOMAIN new : ~IsPrefix(x, q), NEW k \in Keys
      PROVE  /\ q \o <<k>> \in DOMAIN d => q \o <<k>> \in DOMAIN e
             /\ q \o <<k>> \in DOMAIN e => q \o <<k>> \in DOMAIN d \/ IsObj(d, q)
  <2> DEFINE c == q \o <<k>>
  <2>1. c \in Paths /\ c # << >> /\ Front(c) = q
    BY ChildIs
  <2>2. CASE c \in DOMAIN new
    <3>1. IsPrefix(c, c) /\ Rest(c, c) = << >>
      BY <2>1, PrefixOrder
    <3>2. c \in DOMAIN e
      BY <1>3, <2>1, <2>2, <3>1 DEF Grown
    <3> QED BY <2>1, <2>2, <3>2 DEF Grows
  <2>3. CASE c \notin DOMAIN new
    <3>1. \A x \in DOMAIN new : ~IsPrefix(x, c)
      BY <1>8, <2>3, PrefixOfChild
    <3> QED BY <1>2, <2>1, <3>1 DEF Same
  <2> QED BY <2>2, <2>3
<1>9. ASSUME NEW q \in Paths, NEW k \in Keys, q \o <<k>> \in DOMAIN e
      PROVE  IsObj(e, q) \/ IsArr(e, q)
  <2>1. CASE \E p \in DOMAIN new : IsPrefix(p, q)
    <3>1. PICK p \in DOMAIN new : IsPrefix(p, q)
      BY <2>1
    <3> QED BY <1>6, <1>7, <1>9, <3>1 DEF Grown
  <2>2. CASE \A p \in DOMAIN new : ~IsPrefix(p, q)
    <3>1. IsObj(d, q) \/ IsArr(d, q)
      BY <1>8, <1>9, <2>2 DEF Grown
    <3> QED BY <1>2, <2>2, <3>1 DEF Same, IsObj, IsArr
  <2> QED BY <2>1, <2>2
<1>10. ASSUME NEW q \in Paths, IsArr(e, q)
       PROVE  \E n \in 0 .. Len(Index) : \A k \in Keys : q \o <<k>> \in DOMAIN e <=> k \in {Index[i] : i \in 1 .. n}
  <2>1. CASE \E p \in DOMAIN new : IsPrefix(p, q)
    <3>1. PICK p \in DOMAIN new : IsPrefix(p, q)
      BY <2>1
    <3>2. Rest(p, q) \in Paths /\ IsArr(new[p], Rest(p, q)) /\ Grown(new[p])
      BY <1>6, <1>10, <3>1, RestIs
    <3>3. PICK n \in 0 .. Len(Index) :
            \A k \in Keys : Rest(p, q) \o <<k>> \in DOMAIN new[p] <=> k \in {Index[i] : i \in 1 .. n}
      BY <3>2 DEF Grown
    <3> QED BY <1>7, <3>1, <3>3
  <2>2. CASE \A p \in DOMAIN new : ~IsPrefix(p, q)
    <3>1. IsArr(d, q) /\ ~IsObj(d, q)
      BY <1>2, <1>10, <2>2 DEF Same, IsArr, IsObj, Arr, Obj
    <3>2. PICK n \in 0 .. Len(Index) :
            \A k \in Keys : q \o <<k>> \in DOMAIN d <=> k \in {Index[i] : i \in 1 .. n}
      BY <3>1 DEF Grown
    <3> QED BY <1>8, <2>2, <3>1, <3>2
  <2> QED BY <2>1, <2>2
<1>11. Grown(e)
  BY <1>1, <1>5, <1>9, <1>10 DEF Grown
<1> QED BY <1>11 DEF e

LEMMA PutGrown ==
    ASSUME NEW d, Grown(d), NEW v, Grown(v), NEW p \in Paths, Grows(d, p)
    PROVE  Grown(Put(d, p, v))
<1> DEFINE new == [q \in {p} |-> v]
<1>1. DOMAIN new = {p} /\ new[p] = v
  OBVIOUS
<1> HIDE DEF new
<1>2. Apart(new)
  BY <1>1 DEF Apart
<1> QED BY <1>1, <1>2, PutAllGrown DEF Put, new

LEMMA SubGrown ==
    ASSUME NEW d, Grown(d), NEW p \in DOMAIN d
    PROVE  Grown(Sub(d, p))
<1>0. Document(d) /\ p \in Paths /\ << >> \in Paths
  BY EmptySeq DEF Grown, Document, Paths
<1>1. ASSUME NEW r \in Paths
      PROVE  /\ p \o r \in Paths /\ IsPrefix(p, p \o r) /\ Rest(p, p \o r) = r
             /\ r \in DOMAIN Sub(d, p) <=> p \o r \in DOMAIN d
             /\ r \in DOMAIN Sub(d, p) => Sub(d, p)[r] = d[p \o r]
  <2>1. p \o r \in Paths /\ IsPrefix(p, p \o r) /\ Rest(p, p \o r) = r
    BY <1>0, ConcatIs
  <2>2. /\ Rest(p, p \o r) \in DOMAIN Sub(d, p) <=> p \o r \in DOMAIN d
        /\ p \o r \in DOMAIN d => Sub(d, p)[Rest(p, p \o r)] = d[p \o r]
    BY <1>0, <2>1, SubIs
  <2> QED BY <2>1, <2>2
<1> DEFINE e == Sub(d, p)
<1>2. Document(e)
  BY <1>0, SubDocument
<1>3. << >> \in DOMAIN e
  <2>1. Rest(p, p) = << >> /\ p \o Rest(p, p) = p
    BY <1>0, PrefixOrder, RestIs
  <2> QED BY <1>0, <1>1, <2>1
<1>4. ASSUME NEW r \in Paths, NEW k \in Keys
      PROVE  r \o <<k>> \in DOMAIN e <=> (p \o r) \o <<k>> \in DOMAIN d
  <2>1. <<k>> \in Paths /\ r \o <<k>> \in Paths
    BY Few, ChildIs
  <2>2. p \o (r \o <<k>>) = (p \o r) \o <<k>>
    BY <1>0, <2>1, PathsAssociate
  <2> QED BY <1>1, <2>1, <2>2
<1>5. \A r \in Paths : (IsObj(e, r) <=> IsObj(d, p \o r)) /\ (IsArr(e, r) <=> IsArr(d, p \o r))
  BY <1>1 DEF IsObj, IsArr
<1> HIDE DEF e
<1>6. Grown(e)
  BY <1>1, <1>2, <1>3, <1>4, <1>5 DEF Grown
<1> QED BY <1>6 DEF e

LEMMA LeafGrown ==
    ASSUME NEW node, node # Arr
    PROVE  Grown(Leaf(node))
<1> DEFINE d == Leaf(node)
<1>1. DOMAIN d = {<< >>} /\ Document(d) /\ d[<< >>] = node
  BY LeafIs
<1> HIDE DEF d
<1>2. \A p \in Paths, k \in Keys : p \o <<k>> \notin DOMAIN d
  BY <1>1, ChildIs
<1>3. \A p : ~IsArr(d, p)
  BY <1>1 DEF IsArr
<1> QED BY <1>1, <1>2, <1>3 DEF Grown, d

-----------------------------------------------------------------------------
(* Where the items that are kept come from: each keeps its place among them. *)
Origin(items, drop, kept, n, f) ==
    /\ f \in [1 .. Len(kept) -> 1 .. n]
    /\ \A j \in 1 .. Len(kept) : items[f[j]] \notin drop /\ kept[j] = items[f[j]]
    /\ \A i \in 1 .. n : items[i] \notin drop => \E j \in 1 .. Len(kept) : f[j] = i
    /\ \A j, k \in 1 .. Len(kept) : f[j] = f[k] => j = k

LEMMA FilterOrigin ==
    ASSUME NEW S, NEW items \in Seq(S), NEW drop
    PROVE  \E f : Origin(items, drop, Without(items, drop), Len(items), f)
<1> DEFINE kept == KeptOf(items, drop)
           T == {n \in Nat : n <= Len(items) =>
                    kept[n] \in Seq(S) /\ \E f : Origin(items, drop, kept[n], n, f)}
<1>0. Len(items) \in Nat
  BY LenProperties
<1>1. 0 \in T
  <2>1. kept[0] = << >>
    BY FilterStep
  <2>2. kept[0] \in Seq(S) /\ Len(kept[0]) = 0
    BY <2>1, EmptySeq
  <2>3. Origin(items, drop, kept[0], 0, [j \in {} |-> j])
    BY <2>2 DEF Origin
  <2> QED BY <2>2, <2>3
<1>2. ASSUME NEW n \in Nat, n \in T PROVE n + 1 \in T
  <2>1. SUFFICES ASSUME n + 1 <= Len(items)
                 PROVE  kept[n + 1] \in Seq(S) /\ \E f : Origin(items, drop, kept[n + 1], n + 1, f)
    OBVIOUS
  <2> DEFINE a == kept[n]
             b == kept[n + 1]
             x == items[n + 1]
  <2>2. a \in Seq(S) /\ (\E f : Origin(items, drop, a, n, f)) /\ x \in S
    BY <1>0, <1>2, <2>1, ElementOfSeq
  <2>3. b = IF x \in drop THEN a ELSE Append(a, x)
    BY <2>1, FilterStep
  <2> DEFINE la == Len(a)
  <2>4. la \in Nat
    BY <2>2, LenProperties
  <2>5. PICK f : Origin(items, drop, a, n, f)
    BY <2>2
  <2>6. \A i \in 1 .. n + 1 : i \in 1 .. n \/ i = n + 1
    OBVIOUS
  <2> HIDE DEF kept
  <2>7. CASE x \in drop
    <3>1. b = a
      BY <2>3, <2>7
    <3>2. Origin(items, drop, a, n + 1, f)
      BY <2>5, <2>6, <2>7 DEF Origin
    <3> QED BY <2>2, <3>1, <3>2
  <2>8. CASE x \notin drop
    <3>1. b = Append(a, x)
      BY <2>3, <2>8
    <3>2. b \in Seq(S) /\ Len(b) = la + 1 /\ b[la + 1] = x /\ \A j \in 1 .. la : b[j] = a[j]
      BY <2>2, <3>1, AppendProperties
    <3> DEFINE g == [j \in 1 .. la + 1 |-> IF j = la + 1 THEN n + 1 ELSE f[j]]
    <3> HIDE DEF a, b, x, la
    <3>3. \A j \in 1 .. la + 1 : j \in 1 .. la \/ j = la + 1
      BY <2>4
    <3>4. g[la + 1] = n + 1 /\ (\A j \in 1 .. la : g[j] = f[j]) /\ la + 1 \in 1 .. la + 1
      BY <2>4
    <3>5. /\ f \in [1 .. la -> 1 .. n]
          /\ \A j \in 1 .. la : items[f[j]] \notin drop /\ a[j] = items[f[j]]
          /\ \A i \in 1 .. n : items[i] \notin drop => \E j \in 1 .. la : f[j] = i
          /\ \A j, k \in 1 .. la : f[j] = f[k] => j = k
      BY <2>5 DEF Origin, la
    <3>6. g \in [1 .. la + 1 -> 1 .. n + 1]
      BY <3>3, <3>5
    <3> HIDE DEF g
    <3>7. ASSUME NEW j \in 1 .. la + 1 PROVE items[g[j]] \notin drop /\ b[j] = items[g[j]]
      <4>1. CASE j \in 1 .. la
        BY <3>2, <3>4, <3>5, <4>1
      <4>2. CASE j = la + 1
        BY <2>8, <3>2, <3>4, <4>2 DEF x
      <4> QED BY <3>3, <4>1, <4>2
    <3>8. ASSUME NEW i \in 1 .. n + 1, items[i] \notin drop PROVE \E j \in 1 .. la + 1 : g[j] = i
      <4>1. CASE i \in 1 .. n
        <5>1. PICK j \in 1 .. la : f[j] = i
          BY <3>5, <3>8, <4>1
        <5> QED BY <2>4, <3>4, <5>1
      <4>2. CASE i = n + 1
        BY <3>4, <4>2
      <4> QED BY <2>6, <4>1, <4>2
    <3>9. ASSUME NEW j \in 1 .. la + 1, NEW k \in 1 .. la + 1, g[j] = g[k] PROVE j = k
      <4>1. \A i \in 1 .. la : f[i] # n + 1
        BY <3>5
      <4> QED BY <3>3, <3>4, <3>5, <3>9, <4>1
    <3>10. Origin(items, drop, b, n + 1, g)
      BY <3>2, <3>6, <3>7, <3>8, <3>9 DEF Origin
    <3> QED BY <3>2, <3>10 DEF b
  <2> QED BY <2>7, <2>8
<1> HIDE DEF T
<1>3. Len(items) \in T
  BY <1>0, <1>1, <1>2, NatBySet
<1> QED BY <1>0, <1>3 DEF T, Without

LEMMA CountTo ==
    ASSUME NEW n \in Nat
    PROVE  IsFiniteSet(1 .. n) /\ Cardinality(1 .. n) = n
<1>1. IsFiniteSet(1 .. n) /\ Cardinality(1 .. n) = IF 1 > n THEN 0 ELSE n - 1 + 1
  BY FS_Interval
<1> QED BY <1>1

LEMMA FilterLength ==
    ASSUME NEW S, NEW items \in Seq(S), NEW drop
    PROVE  Len(Without(items, drop)) <= Len(items)
<1> DEFINE kept == Without(items, drop)
<1>1. Len(items) \in Nat /\ Len(kept) \in Nat
  BY FilterSeq, LenProperties
<1>2. PICK f : Origin(items, drop, kept, Len(items), f)
  BY FilterOrigin
<1>3. f \in Injection(1 .. Len(kept), 1 .. Len(items))
  BY <1>2, Fun_IsInj DEF Origin
<1> HIDE DEF kept
<1>4. IsFiniteSet(1 .. Len(items)) /\ Cardinality(1 .. Len(items)) = Len(items)
  BY <1>1, CountTo
<1>5. Cardinality(1 .. Len(kept)) = Len(kept)
  BY <1>1, CountTo
<1>6. Cardinality(1 .. Len(kept)) <= Cardinality(1 .. Len(items))
  BY <1>3, <1>4, FS_Injection
<1> QED BY <1>4, <1>5, <1>6 DEF kept

-----------------------------------------------------------------------------
(* The elements of an array. *)
LEMMA IndexIs ==
    /\ Len(Index) \in Nat
    /\ \A i \in 1 .. Len(Index) : Index[i] \in Keys /\ Index[i] \in Range(Index) /\ <<Index[i]>> \in Paths
    /\ \A i, j \in 1 .. Len(Index) : Index[i] = Index[j] => i = j
<1>1. DOMAIN Index = 1 .. Len(Index) /\ Len(Index) \in Nat
  BY IndexDomain
<1>2. \A i \in 1 .. Len(Index) : Index[i] \in Keys /\ Index[i] \in Range(Index)
  BY <1>1, IndexDomain DEF Range
<1> QED BY <1>1, <1>2, Few, IndexAssumption DEF IsInjective

LEMMA ElementsAre ==
    ASSUME NEW d, Grown(d), NEW p \in Paths, IsArr(d, p)
    PROVE  LET n == Cardinality(Elements(d, p)) IN
           /\ n \in 0 .. Len(Index)
           /\ \A k \in Keys : p \o <<k>> \in DOMAIN d <=> k \in {Index[i] : i \in 1 .. n}
           /\ Elements(d, p) = {p \o <<Index[i]>> : i \in 1 .. n}
<1>1. PICK n \in 0 .. Len(Index) : \A k \in Keys : p \o <<k>> \in DOMAIN d <=> k \in {Index[i] : i \in 1 .. n}
  BY DEF Grown
<1>2. n \in Nat /\ \A i \in 1 .. n : i \in 1 .. Len(Index)
  BY IndexIs
<1>3. Elements(d, p) = {p \o <<k>> : k \in {j \in Keys : p \o <<j>> \in DOMAIN d}}
  BY ChildrenAre DEF Elements, Grown
<1>4. Elements(d, p) = {p \o <<Index[i]>> : i \in 1 .. n}
  <2>1. {j \in Keys : p \o <<j>> \in DOMAIN d} = {Index[i] : i \in 1 .. n}
    BY <1>1, <1>2, IndexIs
  <2> QED BY <1>3, <2>1
<1> DEFINE f == [i \in 1 .. n |-> p \o <<Index[i]>>]
<1>5. f \in Bijection(1 .. n, Elements(d, p))
  <2>1. f \in [1 .. n -> Elements(d, p)] /\ \A t \in Elements(d, p) : \E s \in 1 .. n : f[s] = t
    BY <1>4
  <2>2. \A a, b \in 1 .. n : f[a] = f[b] => a = b
    BY <1>2, IndexIs, ChildrenDiffer
  <2> QED BY <2>1, <2>2, Fun_IsBij
<1>6. Cardinality(Elements(d, p)) = n
  <2>1. ExistsBijection(1 .. n, Elements(d, p))
    BY <1>5 DEF ExistsBijection
  <2>2. IsFiniteSet(1 .. n) /\ Cardinality(1 .. n) = n
    BY <1>2, FS_Interval
  <2> QED BY <2>1, <2>2, FS_Bijection
<1> QED BY <1>1, <1>4, <1>6

LEMMA HeadIs ==
    ASSUME NEW k \in Keys, NEW r \in Paths
    PROVE  /\ <<k>> \o r \in Paths /\ <<k>> \o r # << >>
           /\ Head(<<k>> \o r) = k /\ Tail(<<k>> \o r) = r
<1> DEFINE q == <<k>> \o r
<1>1. <<k>> \in Paths /\ Len(<<k>>) = 1 /\ <<k>>[1] = k
  BY Few
<1>2. /\ q \in Paths /\ Len(q) = 1 + Len(r) /\ Len(r) \in Nat
      /\ \A i \in 1 .. 1 + Len(r) : q[i] = IF i <= 1 THEN <<k>>[i] ELSE r[i - 1]
  BY <1>1, ConcatProperties, LenProperties DEF Paths
<1>3. q # << >>
  BY <1>2, EmptySeq
<1>4. Head(q) = k
  BY <1>1, <1>2, <1>3 DEF Head
<1>5. Tail(q) \in Paths /\ Len(Tail(q)) = Len(q) - 1 /\ \A i \in 1 .. Len(Tail(q)) : Tail(q)[i] = q[i + 1]
  BY <1>2, <1>3, HeadTailProperties DEF Paths
<1> HIDE DEF q
<1>6. Tail(q) = r
  <2>1. Len(Tail(q)) = Len(r) /\ \A i \in 1 .. Len(r) : Tail(q)[i] = r[i]
    BY <1>2, <1>5
  <2> QED BY <1>5, <2>1, SeqEqual DEF Paths
<1> QED BY <1>2, <1>3, <1>4, <1>6 DEF q

(* What ArrayOf makes: item i is docs[i]. *)
IsArrayOf(a, docs) ==
    /\ Document(a) /\ << >> \in DOMAIN a /\ a[<< >>] = Arr
    /\ \A i \in 1 .. Len(docs), r \in Paths :
        /\ <<Index[i]>> \o r \in DOMAIN a <=> r \in DOMAIN docs[i]
        /\ r \in DOMAIN docs[i] => a[<<Index[i]>> \o r] = docs[i][r]
    /\ \A q \in DOMAIN a : q = << >> \/ \E i \in 1 .. Len(docs), r \in Paths : q = <<Index[i]>> \o r

LEMMA ArrayAt ==
    ASSUME NEW S, \A e \in S : Document(e), NEW docs \in Seq(S), Len(docs) <= Len(Index)
    PROVE  IsArrayOf(ArrayOf(docs), docs)
<1> DEFINE a == ArrayOf(docs)
<1>0. DOMAIN docs = 1 .. Len(docs) /\ Len(docs) \in Nat /\ \A i \in 1 .. Len(docs) : Document(docs[i])
  BY LenProperties, ElementOfSeq
<1>1. \A i \in 1 .. Len(docs) : i \in 1 .. Len(Index) /\ Index[i] \in Keys
  <2>1. Len(Index) \in Nat
    BY IndexIs
  <2>2. \A i \in 1 .. Len(docs) : i \in 1 .. Len(Index)
    BY <1>0, <2>1
  <2> QED BY <2>2, IndexIs
<1>2. Document(a)
  BY ArrayDocument
<1>3. DOMAIN a = {<< >>} \cup UNION {{<<Index[i]>> \o r : r \in DOMAIN docs[i]} : i \in DOMAIN docs}
  BY DEF ArrayOf
<1>4. a[<< >>] = Arr /\ << >> \in DOMAIN a
  BY DEF ArrayOf
<1>5. \A q \in DOMAIN a : q = << >> \/ \E i \in 1 .. Len(docs), r \in Paths : q = <<Index[i]>> \o r /\ r \in DOMAIN docs[i]
  <2>1. SUFFICES ASSUME NEW q \in DOMAIN a, q # << >>
                 PROVE  \E i \in 1 .. Len(docs), r \in Paths : q = <<Index[i]>> \o r /\ r \in DOMAIN docs[i]
    OBVIOUS
  <2>2. PICK i \in DOMAIN docs : q \in {<<Index[i]>> \o r : r \in DOMAIN docs[i]}
    BY <1>3, <2>1
  <2> QED BY <1>0, <2>2 DEF Document
<1>6. ASSUME NEW i \in 1 .. Len(docs), NEW r \in Paths
      PROVE  /\ <<Index[i]>> \o r \in DOMAIN a <=> r \in DOMAIN docs[i]
             /\ r \in DOMAIN docs[i] => a[<<Index[i]>> \o r] = docs[i][r]
  <2> DEFINE q == <<Index[i]>> \o r
  <2>1. q # << >> /\ Head(q) = Index[i] /\ Tail(q) = r
    BY <1>1, HeadIs
  <2>2. ASSUME NEW j \in 1 .. Len(docs), Index[j] = Head(q) PROVE j = i
    BY <1>1, <2>1, <2>2, IndexIs
  <2>3. q \in DOMAIN a <=> r \in DOMAIN docs[i]
    <3>1. ASSUME q \in DOMAIN a PROVE r \in DOMAIN docs[i]
      <4>1. PICK j \in 1 .. Len(docs), s \in Paths : q = <<Index[j]>> \o s /\ s \in DOMAIN docs[j]
        BY <1>5, <2>1, <3>1
      <4>2. Head(q) = Index[j] /\ Tail(q) = s
        BY <1>1, <4>1, HeadIs
      <4> QED BY <2>1, <2>2, <4>1, <4>2
    <3>2. ASSUME r \in DOMAIN docs[i] PROVE q \in DOMAIN a
      <4> DEFINE Part(j) == {<<Index[j]>> \o x : x \in DOMAIN docs[j]}
      <4>1. q \in Part(i) /\ i \in DOMAIN docs
        BY <1>0, <3>2
      <4>2. DOMAIN a = {<< >>} \cup UNION {Part(j) : j \in DOMAIN docs}
        BY <1>3
      <4> HIDE DEF a, q, Part
      <4> QED BY <4>1, <4>2
    <3> QED BY <3>1, <3>2
  <2>4. ASSUME r \in DOMAIN docs[i] PROVE a[q] = docs[i][r]
    <3>1. (CHOOSE j \in DOMAIN docs : Index[j] = Head(q)) = i
      BY <1>0, <2>1, <2>2
    <3>2. a[q] = docs[CHOOSE j \in DOMAIN docs : Index[j] = Head(q)][Tail(q)]
      BY <1>3, <2>1, <2>3, <2>4 DEF ArrayOf
    <3> QED BY <2>1, <3>1, <3>2
  <2> QED BY <2>3, <2>4
<1> HIDE DEF a
<1>7. \A q \in DOMAIN a : q = << >> \/ \E i \in 1 .. Len(docs), r \in Paths : q = <<Index[i]>> \o r
  BY <1>5
<1> QED BY <1>2, <1>4, <1>6, <1>7 DEF a, IsArrayOf

-----------------------------------------------------------------------------
(* Arrays of grown documents, and documents whose texts alone change. *)

LEMMA ArrayGrown ==
    ASSUME NEW S, \A e \in S : Grown(e), NEW docs \in Seq(S), Len(docs) <= Len(Index)
    PROVE  Grown(ArrayOf(docs))
<1> DEFINE a == ArrayOf(docs)
           n == Len(docs)
<1>0. n \in 0 .. Len(Index) /\ \A i \in 1 .. n : Grown(docs[i]) /\ i \in 1 .. Len(Index) /\ Index[i] \in Keys
  <2>1. n \in Nat /\ Len(Index) \in Nat
    BY LenProperties, IndexIs
  <2>2. n \in 0 .. Len(Index) /\ \A i \in 1 .. n : i \in 1 .. Len(Index)
    BY <2>1
  <2>3. \A i \in 1 .. n : docs[i] \in S
    BY ElementOfSeq
  <2> HIDE DEF n
  <2>4. \A i \in 1 .. n : Index[i] \in Keys
    BY <2>2, IndexIs
  <2>5. \A i \in 1 .. n : Grown(docs[i])
    BY <2>3
  <2> QED BY <2>2, <2>4, <2>5
<1>1. /\ Document(a) /\ << >> \in DOMAIN a /\ a[<< >>] = Arr
      /\ \A i \in 1 .. n, r \in Paths :
            /\ <<Index[i]>> \o r \in DOMAIN a <=> r \in DOMAIN docs[i]
            /\ r \in DOMAIN docs[i] => a[<<Index[i]>> \o r] = docs[i][r]
      /\ \A q \in DOMAIN a : q = << >> \/ \E i \in 1 .. n, r \in Paths : q = <<Index[i]>> \o r
  <2>1. \A e \in S : Document(e)
    BY DEF Grown
  <2>2. IsArrayOf(a, docs)
    BY <2>1, ArrayAt
  <2> HIDE DEF a
  <2> QED BY <2>2 DEF IsArrayOf
<1> HIDE DEF a, n
<1>2. IsArr(a, << >>) /\ << >> \in Paths
  BY <1>1, EmptySeq DEF IsArr, Paths
<1>3. ASSUME NEW i \in 1 .. n, NEW r \in Paths
      PROVE  /\ IsObj(a, <<Index[i]>> \o r) <=> IsObj(docs[i], r)
             /\ IsArr(a, <<Index[i]>> \o r) <=> IsArr(docs[i], r)
  BY <1>1 DEF IsObj, IsArr
<1>4. ASSUME NEW i \in 1 .. n, NEW r \in Paths, NEW k \in Keys
      PROVE  (<<Index[i]>> \o r) \o <<k>> \in DOMAIN a <=> r \o <<k>> \in DOMAIN docs[i]
  <2>1. (<<Index[i]>> \o r) \o <<k>> = <<Index[i]>> \o (r \o <<k>>) /\ r \o <<k>> \in Paths
    <3>1. <<Index[i]>> \in Paths /\ <<k>> \in Paths
      BY <1>0, Few
    <3>2. r \o <<k>> \in Paths
      BY ChildIs
    <3> QED BY <3>1, <3>2, PathsAssociate
  <2> QED BY <1>1, <2>1
<1>5. ASSUME NEW k \in Keys
      PROVE  << >> \o <<k>> \in DOMAIN a <=> k \in {Index[i] : i \in 1 .. n}
  <2>1. << >> \o <<k>> = <<k>> \o << >> /\ << >> \o <<k>> = <<k>> /\ <<k>> \in Paths
    BY Few, ConcatEmptySeq DEF Paths
  <2>2. ASSUME NEW i \in 1 .. n, NEW r \in Paths, <<k>> = <<Index[i]>> \o r PROVE k = Index[i]
    <3>1. Head(<<k>>) = Index[i]
      BY <1>0, <2>2, HeadIs
    <3> QED BY <3>1
  <2>3. <<k>> # << >>
    OBVIOUS
  <2>4. ASSUME NEW i \in 1 .. n, k = Index[i] PROVE <<k>> \in DOMAIN a
    <3>1. << >> \in DOMAIN docs[i]
      BY <1>0 DEF Grown
    <3>2. <<Index[i]>> \o << >> \in DOMAIN a
      BY <1>1, <1>2, <3>1
    <3>3. <<Index[i]>> = <<k>>
      BY <2>4
    <3> QED BY <2>1, <3>2, <3>3
  <2> QED BY <1>1, <2>1, <2>2, <2>3, <2>4
<1>6. ASSUME NEW p \in Paths, NEW k \in Keys, p \o <<k>> \in DOMAIN a
      PROVE  p = << >> \/ \E i \in 1 .. n, r \in Paths : p = <<Index[i]>> \o r
  <2>1. p \o <<k>> # << >>
    BY ChildIs
  <2>2. PICK i \in 1 .. n, r \in Paths : p \o <<k>> = <<Index[i]>> \o r
    BY <1>1, <1>6, <2>1
  <2>3. <<Index[i]>> \in Paths /\ Len(<<Index[i]>>) = 1 /\ Len(p) \in Nat /\ IsPrefix(<<Index[i]>>, p \o <<k>>)
    BY <1>0, <2>2, Few, ConcatIs, LenProperties DEF Paths
  <2>4. CASE IsPrefix(<<Index[i]>>, p)
    <3>1. Rest(<<Index[i]>>, p) \in Paths /\ p = <<Index[i]>> \o Rest(<<Index[i]>>, p)
      BY <2>3, <2>4, RestIs
    <3> QED BY <3>1
  <2>5. CASE <<Index[i]>> = p \o <<k>>
    <3>1. Len(p) + 1 = 1
      BY <2>3, <2>5, ChildIs
    <3> QED BY <2>3, <3>1, EmptySeq DEF Paths
  <2> QED BY <2>3, <2>4, <2>5, PrefixOfChild
<1>7. ASSUME NEW p \in Paths, NEW k \in Keys, p \o <<k>> \in DOMAIN a PROVE IsObj(a, p) \/ IsArr(a, p)
  <2>1. CASE p = << >>
    BY <1>2, <2>1
  <2>2. CASE p # << >>
    <3>1. PICK i \in 1 .. n, r \in Paths : p = <<Index[i]>> \o r
      BY <1>6, <1>7, <2>2
    <3>2. r \o <<k>> \in DOMAIN docs[i] /\ Grown(docs[i])
      BY <1>0, <1>4, <1>7, <3>1
    <3> QED BY <1>3, <3>1, <3>2 DEF Grown
  <2> QED BY <2>1, <2>2
<1>8. ASSUME NEW p \in Paths, IsArr(a, p)
      PROVE  \E m \in 0 .. Len(Index) : \A k \in Keys : p \o <<k>> \in DOMAIN a <=> k \in {Index[i] : i \in 1 .. m}
  <2>1. CASE p = << >>
    BY <1>0, <1>5, <2>1
  <2>2. CASE p # << >>
    <3>1. PICK i \in 1 .. n, r \in Paths : p = <<Index[i]>> \o r
      BY <1>1, <1>8, <2>2 DEF IsArr
    <3>2. IsArr(docs[i], r) /\ Grown(docs[i])
      BY <1>0, <1>3, <1>8, <3>1
    <3>3. PICK m \in 0 .. Len(Index) :
            \A k \in Keys : r \o <<k>> \in DOMAIN docs[i] <=> k \in {Index[j] : j \in 1 .. m}
      BY <3>2 DEF Grown
    <3> QED BY <1>4, <3>1, <3>3
  <2> QED BY <2>1, <2>2
<1>9. Grown(a)
  BY <1>1, <1>7, <1>8 DEF Grown
<1> QED BY <1>9 DEF a

Subs(d) == {Sub(d, q) : q \in DOMAIN d}

LEMMA ItemsGrown ==
    ASSUME NEW d, Grown(d), IsArr(d, System)
    PROVE  LET items == Items(d, System)
               n == Cardinality(Elements(d, System))
           IN  /\ items \in Seq(Subs(d)) /\ (\A e \in Subs(d) : Grown(e))
               /\ Len(items) = n /\ n \in 0 .. Len(Index)
               /\ \A i \in 1 .. n : /\ System \o <<Index[i]>> \in DOMAIN d
                                    /\ items[i] = Sub(d, System \o <<Index[i]>>)
<1> DEFINE items == Items(d, System)
           n == Cardinality(Elements(d, System))
<1>1. n \in 0 .. Len(Index) /\ \A k \in Keys : System \o <<k>> \in DOMAIN d <=> k \in {Index[i] : i \in 1 .. n}
  BY SystemPath, ElementsAre
<1>2. \A i \in 1 .. n : System \o <<Index[i]>> \in DOMAIN d
  <2>1. \A i \in 1 .. n : i \in 1 .. Len(Index)
    BY <1>1, IndexIs
  <2> QED BY <1>1, <2>1, IndexIs
<1>3. items = [i \in 1 .. n |-> Sub(d, System \o <<Index[i]>>)]
  BY DEF Items
<1>4. n \in Nat
  BY <1>1, IndexIs
<1> HIDE DEF n
<1>5. items \in [1 .. n -> Subs(d)]
  BY <1>2, <1>3 DEF Subs
<1>6. items \in Seq(Subs(d))
  <2> HIDE DEF items
  <2> QED BY <1>4, <1>5, SeqDef
<1>7. DOMAIN items = 1 .. n /\ DOMAIN items = 1 .. Len(items) /\ Len(items) \in Nat
  BY <1>5, <1>6, LenProperties
<1>8. Len(items) = n
  <2> HIDE DEF items
  <2> QED BY <1>4, <1>7
<1>9. \A e \in Subs(d) : Grown(e)
  BY SubGrown DEF Subs
<1> QED BY <1>1, <1>2, <1>3, <1>6, <1>8, <1>9 DEF n

LEMMA RetainGrown ==
    ASSUME NEW d, Grown(d), IsArr(d, System)
    PROVE  Grown(RetainItems(d))
<1> DEFINE items == Items(d, System)
           kept == Without(items, BlankItems(items))
<1>1. items \in Seq(Subs(d)) /\ (\A e \in Subs(d) : Grown(e)) /\ Len(items) <= Len(Index) /\ Len(items) \in Nat
  <2>1. Len(items) \in 0 .. Len(Index)
    BY ItemsGrown
  <2> QED BY <2>1, ItemsGrown, IndexIs
<1> HIDE DEF items
<1>2. kept \in Seq(Subs(d)) /\ Len(kept) <= Len(items) /\ Len(kept) \in Nat
  BY <1>1, FilterSeq, FilterLength, LenProperties
<1> HIDE DEF kept
<1>3. Len(kept) <= Len(Index)
  BY <1>1, <1>2, IndexIs
<1>4. Grown(ArrayOf(kept))
  BY <1>1, <1>2, <1>3, ArrayGrown
<1>5. Grows(d, System)
  BY DEF Grows, IsArr
<1> QED BY <1>4, <1>5, SystemPath, PutGrown DEF RetainItems, items, kept

(* PromptTexts in the place of texts. *)
Retexted(d, e) ==
    DOMAIN e = DOMAIN d /\ \A q \in DOMAIN d : e[q] = d[q] \/ (IsText(d, q) /\ \E t : e[q] = Text(t))

LEMMA RetextedShape ==
    ASSUME NEW d, NEW e, Retexted(d, e)
    PROVE  \A q : /\ IsObj(e, q) <=> IsObj(d, q)
                  /\ IsArr(e, q) <=> IsArr(d, q)
                  /\ IsText(e, q) <=> IsText(d, q)
<1>1. \A q : (IsObj(e, q) <=> IsObj(d, q)) /\ (IsArr(e, q) <=> IsArr(d, q))
  BY Nodes DEF Retexted
<1>2. \A t : "text" \in DOMAIN Text(t)
  BY DEF Text
<1>3. \A q : IsText(e, q) <=> IsText(d, q)
  BY <1>2 DEF Retexted, IsText
<1> QED BY <1>1, <1>3

LEMMA RetextedGrown ==
    ASSUME NEW d, Grown(d), NEW e, Retexted(d, e)
    PROVE  Grown(e)
BY RetextedShape, GrownSame DEF Retexted

Stripped(d) == MapTexts(d, SystemTexts(d), StripBillingHeaderBlock)

LEMMA StrippedIs ==
    ASSUME NEW d
    PROVE  /\ Retexted(d, Stripped(d))
           /\ StripBillingHeader(d) = IF IsArr(d, System) THEN RetainItems(Stripped(d)) ELSE Stripped(d)
BY DEF Stripped, MapTexts, Retexted, StripBillingHeader

LEMMA StripGrown ==
    ASSUME NEW d, Grown(d)
    PROVE  Grown(StripBillingHeader(d))
<1>1. Retexted(d, Stripped(d))
  BY StrippedIs
<1>2. Grown(Stripped(d)) /\ (IsArr(d, System) => IsArr(Stripped(d), System))
  BY <1>1, RetextedGrown, RetextedShape
<1> QED BY <1>2, StrippedIs, RetainGrown

(* The texts of a system that is text, rewritten. *)
Prompted(d, hash, strip) ==
    MapTexts(d, SystemTexts(d), LAMBDA text : RewritePromptText(KeptText(text, strip), hash))
Unbilled(d, strip) == IF strip /\ IsArr(d, System) THEN StripBillingHeader(d) ELSE d

LEMMA PromptedIs ==
    ASSUME NEW d, NEW hash, NEW strip
    PROVE  /\ Retexted(d, Prompted(d, hash, strip))
           /\ \A q \in DOMAIN d :
                Prompted(d, hash, strip)[q] = IF q \in SystemTexts(d) /\ IsText(d, q)
                    THEN Text(RewritePromptText(KeptText(d[q].text, strip), hash)) ELSE d[q]
           /\ RewriteSystemBody(d, hash, strip) =
                IF IsObj(d, System) THEN d ELSE Prompted(Unbilled(d, strip), hash, strip)
BY DEF Prompted, MapTexts, Retexted, RewriteSystemBody, Unbilled

LEMMA SystemBodyGrown ==
    ASSUME NEW d, Grown(d), NEW hash, NEW strip \in BOOLEAN
    PROVE  Grown(RewriteSystemBody(d, hash, strip))
<1>1. ASSUME NEW e, Grown(e) PROVE Grown(Prompted(e, hash, strip))
  BY <1>1, PromptedIs, RetextedGrown
<1>2. Grown(Unbilled(d, strip))
  BY StripGrown DEF Unbilled
<1> QED BY <1>1, <1>2, PromptedIs

LEMMA EncIs == \A coding, v : Enc(coding, v) # Obj /\ Enc(coding, v) # Arr /\ Obj # Arr
                              /\ "text" \notin DOMAIN Enc(coding, v)
BY DEF Enc, Obj, Arr

LEMMA MetadataGrown ==
    ASSUME NEW d, Grown(d)
    PROVE  Grown(RewriteMessagesMetadata(d))
<1> DEFINE id == <<"metadata", "user_id">>
           e == RewriteMessagesMetadata(d)
<1>1. \/ e = d
      \/ Encodes(d, id, "json") /\ \E v : e = [d EXCEPT ![id] = Enc("json", v)]
  BY DEF RewriteMessagesMetadata, EncodesObj
<1>2. CASE Encodes(d, id, "json") /\ \E v : e = [d EXCEPT ![id] = Enc("json", v)]
  <2>1. d[id] # Obj /\ d[id] # Arr
    BY <1>2 DEF Encodes, Obj, Arr
  <2>2. PICK v : e = [d EXCEPT ![id] = Enc("json", v)]
    BY <1>2
  <2>3. DOMAIN e = DOMAIN d /\ \A q \in DOMAIN d : e[q] = IF q = id THEN Enc("json", v) ELSE d[q]
    BY <2>2
  <2> HIDE DEF e, id
  <2>4. \A q \in DOMAIN d : (IsObj(e, q) <=> IsObj(d, q)) /\ (IsArr(e, q) <=> IsArr(d, q))
    BY <2>1, <2>3, EncIs DEF IsObj, IsArr
  <2>5. Grown(e)
    BY <2>3, <2>4, GrownSame
  <2> QED BY <2>5 DEF e
<1> QED BY <1>1, <1>2

LEMMA RemindedGrown ==
    ASSUME NEW d, Grown(d)
    PROVE  Retexted(RewriteMessagesMetadata(d), Reminded(d)) /\ Grown(Reminded(d))
<1>1. Retexted(RewriteMessagesMetadata(d), Reminded(d))
  BY DEF Reminded, MapTexts, Retexted
<1> QED BY <1>1, MetadataGrown, RetextedGrown

LEMMA MessagesBodyGrown ==
    ASSUME NEW d, Grown(d), NEW policy, policy.strip \in BOOLEAN, NEW fallback
    PROVE  Grown(RewriteMessagesBody(d, policy, fallback))
<1>1. CASE policy.mode = "aggressive"
  BY <1>1, AggressiveBody, RemindedGrown, SystemBodyGrown
<1>2. CASE policy.mode # "aggressive"
  <2>1. RewriteMessagesBody(d, policy, fallback)
            = IF policy.strip THEN StripBillingHeader(RewriteMessagesMetadata(d)) ELSE RewriteMessagesMetadata(d)
    BY <1>2 DEF RewriteMessagesBody
  <2> QED BY <2>1, MetadataGrown, StripGrown
<1> QED BY <1>1, <1>2

-----------------------------------------------------------------------------
(* Nodes set at the paths of S: what was below them is gone. *)
Planted(e, d, S, node) ==
    /\ \A p \in S : p \in DOMAIN e /\ e[p] = node[p]
    /\ \A q \in Paths, p \in S : IsPrefix(p, q) /\ q # p => q \notin DOMAIN e
    /\ \A q \in Paths : (\A p \in S : ~IsPrefix(p, q)) => Same(e, d, q)

LEMMA PlantedIs ==
    ASSUME NEW d, NEW S, S \subseteq Paths, \A p, x \in S : IsPrefix(p, x) => p = x,
           NEW node, NEW new, DOMAIN new = S, \A p \in S : new[p] = Leaf(node[p])
    PROVE  /\ Planted(PutAll(d, new), d, S, node)
           /\ Grown(d) /\ (\A p \in S : Grows(d, p) /\ node[p] # Arr) => Grown(PutAll(d, new))
<1> DEFINE e == PutAll(d, new)
<1>1. \A p \in S : DOMAIN new[p] = {<< >>} /\ new[p][<< >>] = node[p] /\ Document(new[p])
  <2>1. \A p \in S : DOMAIN Leaf(node[p]) = {<< >>} /\ Leaf(node[p])[<< >>] = node[p] /\ Document(Leaf(node[p]))
    BY LeafIs
  <2> QED BY <2>1
<1>2. Placed(new) /\ Apart(new)
  BY <1>1 DEF Placed, Apart
<1>3. ASSUME NEW p \in S
      PROVE  /\ p \in DOMAIN e /\ e[p] = node[p]
             /\ \A q \in Paths : IsPrefix(p, q) /\ q # p => q \notin DOMAIN e
  <2>1. p \in Paths /\ p \in DOMAIN new /\ IsPrefix(p, p) /\ Rest(p, p) = << >>
    BY PrefixOrder
  <2>2. \A q \in Paths : IsPrefix(p, q) =>
            /\ q \in DOMAIN e <=> Rest(p, q) \in DOMAIN new[p]
            /\ q \in DOMAIN e => e[q] = new[p][Rest(p, q)]
    BY <1>2, <2>1, PutAllAt
  <2>3. \A q \in Paths : IsPrefix(p, q) /\ q # p => Rest(p, q) # << >>
    <3>1. ASSUME NEW q \in Paths, IsPrefix(p, q), Rest(p, q) = << >> PROVE q = p
      <4>1. p \o << >> = q
        BY <3>1, RestIs
      <4> QED BY <4>1, ConcatEmptySeq DEF Paths
    <3> QED BY <3>1
  <2> HIDE DEF e
  <2> QED BY <1>1, <2>1, <2>2, <2>3
<1>4. \A q \in Paths : (\A p \in S : ~IsPrefix(p, q)) => Same(e, d, q)
  BY <1>2, PutAllOutside
<1>5. ASSUME Grown(d), \A p \in S : Grows(d, p) /\ node[p] # Arr PROVE Grown(e)
  <2>1. \A p \in DOMAIN new : p \in Paths /\ Grown(new[p]) /\ Grows(d, p)
    BY <1>5, LeafGrown
  <2> QED BY <1>2, <1>5, <2>1, PutAllGrown
<1> HIDE DEF e
<1>6. Planted(e, d, S, node)
  BY <1>3, <1>4 DEF Planted
<1> QED BY <1>5, <1>6 DEF e

Inserted(e, d, p, fields) ==
    /\ \A k \in DOMAIN fields : p \o <<k>> \in DOMAIN e /\ e[p \o <<k>>] = fields[k]
    /\ \A q \in Paths, k \in DOMAIN fields : IsPrefix(p \o <<k>>, q) /\ q # p \o <<k>> => q \notin DOMAIN e
    /\ \A q \in Paths : (\A k \in DOMAIN fields : ~IsPrefix(p \o <<k>>, q)) => Same(e, d, q)

LEMMA InsertIs ==
    ASSUME NEW d, NEW p \in Paths, NEW fields, DOMAIN fields \subseteq Keys
    PROVE  /\ Inserted(Insert(d, p, fields), d, p, fields)
           /\ Grown(d) /\ IsObj(d, p) /\ (\A k \in DOMAIN fields : fields[k] # Arr) => Grown(Insert(d, p, fields))
<1> DEFINE S == {p \o <<k>> : k \in DOMAIN fields}
           node == [q \in S |-> fields[Key(q)]]
           new == [q \in S |-> Leaf(fields[Key(q)])]
           e == PutAll(d, new)
<1>0. \A k \in DOMAIN fields : /\ p \o <<k>> \in Paths /\ p \o <<k>> # << >> /\ Front(p \o <<k>>) = p
                               /\ Key(p \o <<k>>) = k /\ Len(p \o <<k>>) = Len(p) + 1
  BY ChildIs
<1>1. S \subseteq Paths
  BY <1>0
<1>2. ASSUME NEW x \in S, NEW y \in S, IsPrefix(x, y) PROVE x = y
  <2>1. Len(x) = Len(y) /\ Len(x) \in Nat /\ x \in Paths /\ y \in Paths
    BY <1>0, LenProperties DEF Paths
  <2> QED BY <1>2, <2>1, PrefixOrder
<1>3. DOMAIN new = S /\ \A x \in S : new[x] = Leaf(node[x])
  OBVIOUS
<1>4. \A k \in DOMAIN fields : p \o <<k>> \in S /\ node[p \o <<k>>] = fields[k]
  BY <1>0
<1>5. e = Insert(d, p, fields)
  BY DEF Insert
<1>6. ASSUME IsObj(d, p), \A k \in DOMAIN fields : fields[k] # Arr
      PROVE  \A x \in S : Grows(d, x) /\ node[x] # Arr
  BY <1>0, <1>4, <1>6 DEF Grows
<1> HIDE DEF new, node
<1>7. Planted(e, d, S, node) /\ (Grown(d) /\ (\A x \in S : Grows(d, x) /\ node[x] # Arr) => Grown(e))
  BY <1>1, <1>2, <1>3, PlantedIs
<1>8. \A k \in DOMAIN fields : p \o <<k>> \in DOMAIN e /\ e[p \o <<k>>] = fields[k]
  BY <1>4, <1>7 DEF Planted
<1>9. \A q \in Paths, k \in DOMAIN fields : IsPrefix(p \o <<k>>, q) /\ q # p \o <<k>> => q \notin DOMAIN e
  BY <1>4, <1>7 DEF Planted
<1>10. \A q \in Paths : (\A k \in DOMAIN fields : ~IsPrefix(p \o <<k>>, q)) => Same(e, d, q)
  BY <1>7 DEF Planted
<1> HIDE DEF S, e
<1> QED BY <1>5, <1>6, <1>7, <1>8, <1>9, <1>10 DEF Inserted

LEMMA CanonicalizeIs ==
    ASSUME NEW d, NEW S, S \subseteq Paths, \A p, x \in S : IsPrefix(p, x) => p = x
    PROVE  /\ Planted(Canonicalize(d, S), d, S, [p \in S |-> Canonical])
           /\ \A p \in S : Canonicalize(d, S)[p] = Canonical
           /\ Grown(d) /\ S \subseteq DOMAIN d => Grown(Canonicalize(d, S))
<1> DEFINE node == [p \in S |-> Canonical]
           new == [p \in S |-> Leaf(Canonical)]
<1>1. DOMAIN new = S /\ \A p \in S : new[p] = Leaf(node[p]) /\ node[p] = Canonical
  OBVIOUS
<1>2. Canonical # Arr
  BY DEF Canonical, Str, Arr
<1>3. S \subseteq DOMAIN d => \A p \in S : Grows(d, p) /\ node[p] # Arr
  BY <1>1, <1>2 DEF Grows
<1>4. Canonicalize(d, S) = PutAll(d, new)
  BY DEF Canonicalize
<1> HIDE DEF new, node
<1>5. Planted(PutAll(d, new), d, S, node) /\ (Grown(d) /\ (\A p \in S : Grows(d, p) /\ node[p] # Arr) => Grown(PutAll(d, new)))
  BY <1>1, PlantedIs
<1> QED BY <1>1, <1>3, <1>4, <1>5 DEF node, Planted

(* Keys of an object are not the names of elements. *)
FieldKeys == IdKeys \cup GatewayKeys \cup TimestampKeys
             \cup {"text", "user_id", "event_data", "env", "process", "additional_metadata"}
LEMMA FieldsAre ==
    FieldKeys \cap Range(Index) = {}
BY IndexAssumption DEF FieldKeys, IdKeys, GatewayKeys, TimestampKeys

LEMMA FieldOfObject ==
    ASSUME NEW d, Grown(d), NEW p \in Paths, NEW k \in Keys, k \notin Range(Index), p \o <<k>> \in DOMAIN d
    PROVE  IsObj(d, p)
<1>1. CASE IsArr(d, p)
  <2>1. PICK n \in 0 .. Len(Index) : \A j \in Keys : p \o <<j>> \in DOMAIN d <=> j \in {Index[i] : i \in 1 .. n}
    BY <1>1 DEF Grown
  <2>2. PICK i \in 1 .. n : k = Index[i]
    BY <2>1
  <2>3. i \in 1 .. Len(Index)
    BY IndexIs
  <2> QED BY <2>2, <2>3, IndexIs
<1> QED BY <1>1 DEF Grown

(* A step that changes an object below some of its keys only. *)
Untouched(e, d, K) == \A q \in Paths : q = << >> \/ q[1] \notin K => Same(e, d, q)

LEMMA FirstKey ==
    ASSUME NEW k \in Keys
    PROVE  /\ << >> \o <<k>> = <<k>> /\ <<k>> \in Paths /\ <<k>> # << >> /\ Key(<<k>>) = k /\ Front(<<k>>) = << >>
           /\ << >> \in Paths
           /\ \A q \in Paths : IsPrefix(<<k>>, q) => q # << >> /\ q[1] = k
           /\ \A q \in Paths : q # << >> /\ q[1] = k => IsPrefix(<<k>>, q)
           /\ \A r \in Paths : <<k>> \o r \in Paths /\ <<k>> \o r # << >> /\ (<<k>> \o r)[1] = k
<1>1. <<k>> \in Paths /\ \A q \in Paths : IsPrefix(<<k>>, q) <=> q # << >> /\ q[1] = k
  BY Few
<1>2. << >> \o <<k>> = <<k>> /\ << >> \in Paths
  BY <1>1, ConcatEmptySeq, EmptySeq DEF Paths
<1>3. <<k>> # << >> /\ Key(<<k>>) = k /\ Front(<<k>>) = << >>
  BY <1>2, ChildIs
<1>4. \A r \in Paths : <<k>> \o r \in Paths /\ IsPrefix(<<k>>, <<k>> \o r)
  BY <1>1, ConcatIs
<1> QED BY <1>1, <1>2, <1>3, <1>4

(* rewrite_event_identity. *)
LEMMA IdentityStep ==
    ASSUME NEW d, Grown(d)
    PROVE  /\ Grown(RewriteEventIdentity(d)) /\ Untouched(RewriteEventIdentity(d), d, IdKeys)
           /\ \A k \in IdKeys : <<k>> \in DOMAIN RewriteEventIdentity(d) => RewriteEventIdentity(d)[<<k>>] = Canonical
<1> DEFINE S == {q \in IdPaths(d) : Len(q) = 1}
           e == RewriteEventIdentity(d)
<1>1. S \subseteq DOMAIN d /\ S \subseteq Paths /\ Document(d)
  BY DEF IdPaths, Grown, Document
<1>2. \A p, x \in S : IsPrefix(p, x) => p = x
  BY <1>1, PrefixOrder
<1>3. ASSUME NEW q \in S PROVE Key(q) \in IdKeys /\ Key(q) \in Keys /\ q = <<Key(q)>>
  <2>1. q \in Paths /\ q # << >> /\ Len(q) = 1 /\ Key(q) \in IdKeys
    BY <1>1 DEF IdPaths
  <2>2. Front(q) \in Paths /\ Key(q) \in Keys /\ q = Front(q) \o <<Key(q)>> /\ Len(Front(q)) = 0
    BY <2>1, FrontIs
  <2>3. Front(q) = << >>
    BY <2>2, EmptySeq DEF Paths
  <2> QED BY <2>1, <2>2, <2>3, FirstKey
<1>4. e = Canonicalize(d, S)
  BY DEF RewriteEventIdentity
<1> HIDE DEF e
<1>5. Planted(e, d, S, [p \in S |-> Canonical]) /\ Grown(e) /\ \A p \in S : e[p] = Canonical
  <2> HIDE DEF S
  <2> QED BY <1>1, <1>2, <1>4, CanonicalizeIs
<1>6. ASSUME NEW q \in Paths, q = << >> \/ q[1] \notin IdKeys PROVE Same(e, d, q)
  <2>1. \A p \in S : ~IsPrefix(p, q)
    BY <1>3, <1>6, FirstKey
  <2> QED BY <1>5, <2>1 DEF Planted
<1>7. ASSUME NEW k \in IdKeys, <<k>> \in DOMAIN e PROVE e[<<k>>] = Canonical
  <2>1. k \in Keys /\ k \notin Range(Index)
    BY FieldsAre DEF FieldKeys, Keys, Words
  <2>2. << >> \o <<k>> = <<k>> /\ <<k>> \in Paths /\ << >> \in Paths /\ <<k>> # << >>
        /\ Key(<<k>>) = k /\ Front(<<k>>) = << >> /\ Len(<<k>>) = 1
    BY <2>1, FirstKey, Few
  <2>3. CASE \E p \in S : IsPrefix(p, <<k>>)
    <3>1. PICK p \in S : IsPrefix(p, <<k>>)
      BY <2>3
    <3>2. p = <<k>>
      BY <1>1, <2>2, <3>1, PrefixOrder
    <3> QED BY <1>5, <3>2
  <2>4. CASE \A p \in S : ~IsPrefix(p, <<k>>)
    <3>1. <<k>> \in DOMAIN d
      BY <1>5, <1>7, <2>2, <2>4 DEF Planted, Same
    <3>2. IsObj(d, << >>)
      BY <2>1, <2>2, <3>1, FieldOfObject
    <3>3. <<k>> \in S
      BY <2>2, <3>1, <3>2 DEF IdPaths
    <3> QED BY <2>2, <2>4, <3>3, PrefixOrder
  <2> QED BY <2>3, <2>4
<1> QED BY <1>5, <1>6, <1>7 DEF e, Untouched

LEMMA EnvIs ==
    Grown(CanonicalEnv) /\ \A q \in DOMAIN CanonicalEnv : CanonicalEnv[q] \in {Obj, Canonical}
<1> DEFINE fields == [k \in {"platform", "build_time"} |-> Canonical]
           d == Leaf(Obj)
<1>1. DOMAIN d = {<< >>} /\ d[<< >>] = Obj /\ << >> \in Paths
  BY LeafIs, EmptySeq DEF Paths
<1>2. Grown(d) /\ IsObj(d, << >>)
  BY <1>1, LeafGrown DEF Obj, Arr, IsObj
<1>3. DOMAIN fields \subseteq Keys /\ \A k \in DOMAIN fields : fields[k] = Canonical /\ fields[k] # Arr
  BY DEF Keys, Words, Canonical, Str, Arr
<1> DEFINE e == CanonicalEnv
<1>4. e = Insert(d, << >>, fields)
  BY DEF CanonicalEnv
<1> HIDE DEF fields, d, e
<1>5. Inserted(e, d, << >>, fields) /\ Grown(e)
  BY <1>1, <1>2, <1>3, <1>4, InsertIs
<1>6. ASSUME NEW q \in DOMAIN e PROVE e[q] \in {Obj, Canonical}
  <2>1. q \in Paths
    BY <1>5 DEF Grown, Document
  <2>2. CASE \E k \in DOMAIN fields : IsPrefix(<< >> \o <<k>>, q)
    BY <1>3, <1>5, <2>1, <2>2 DEF Inserted
  <2>3. CASE \A k \in DOMAIN fields : ~IsPrefix(<< >> \o <<k>>, q)
    <3>1. Same(e, d, q)
      BY <1>5, <2>1, <2>3 DEF Inserted
    <3> QED BY <1>1, <3>1 DEF Same
  <2> QED BY <2>2, <2>3
<1> QED BY <1>5, <1>6 DEF e

-----------------------------------------------------------------------------
(* One event, field by field: environment, process, gateway keys, metadata. *)

LEMMA UntouchedOnce ==
    ASSUME NEW d, NEW e, NEW f, NEW K, NEW L, Untouched(e, d, K), Untouched(f, e, L)
    PROVE  Untouched(f, d, K \cup L)
BY DEF Untouched, Same

LEMMA UntouchedNode ==
    ASSUME NEW d, NEW e, NEW K, Untouched(e, d, K), NEW k \in Keys, k \notin K
    PROVE  Same(e, d, <<k>>) /\ (\A r \in Paths : Same(e, d, <<k>> \o r)) /\ Same(e, d, << >>)
BY FirstKey DEF Untouched

(* rewrite_event_env *)
LEMMA EnvStep ==
    ASSUME NEW d, Grown(d)
    PROVE  /\ Grown(RewriteEventEnv(d)) /\ Untouched(RewriteEventEnv(d), d, {"env"})
           /\ \A q \in DOMAIN RewriteEventEnv(d) :
                q # << >> /\ q[1] = "env" => RewriteEventEnv(d)[q] \in {Obj, Canonical}
<1>0. "env" \in Keys /\ Document(d)
  BY DEF Keys, Words, Grown
<1> DEFINE field == <<"env">>
           e == Put(d, field, CanonicalEnv)
<1>1. field \in Paths /\ \A q \in Paths : IsPrefix(field, q) <=> q # << >> /\ q[1] = "env"
  BY <1>0, Few
<1>2. Grown(CanonicalEnv) /\ Document(CanonicalEnv)
  BY EnvIs DEF Grown
<1>3. CASE field \notin DOMAIN d
  <2>1. RewriteEventEnv(d) = d
    BY <1>3 DEF RewriteEventEnv
  <2>2. \A q \in DOMAIN d : ~IsPrefix(field, q)
    BY <1>1, <1>3, GrownAbove
  <2> QED BY <1>0, <1>1, <2>1, <2>2 DEF Untouched, Same, Document
<1>4. CASE field \in DOMAIN d
  <2>1. RewriteEventEnv(d) = e
    BY <1>4 DEF RewriteEventEnv
  <2>2. Grown(e)
    BY <1>1, <1>2, <1>4, PutGrown DEF Grows
  <2>3. Untouched(e, d, {"env"})
    BY <1>1, <1>2, PutOutside DEF Untouched
  <2>4. \A q \in Paths : IsPrefix(field, q) =>
            /\ q \in DOMAIN e <=> Rest(field, q) \in DOMAIN CanonicalEnv
            /\ q \in DOMAIN e => e[q] = CanonicalEnv[Rest(field, q)]
    BY <1>1, <1>2, PutInside
  <2>5. \A q \in DOMAIN e : q \in Paths
    BY <2>2 DEF Grown, Document
  <2> HIDE DEF e, field
  <2> QED BY <1>1, <2>1, <2>2, <2>3, <2>4, <2>5, EnvIs
<1> QED BY <1>3, <1>4

LEMMA NumIs == \A n : Num(n) # Arr /\ Num(n) # Obj /\ Num(n).num = n /\ "coding" \notin DOMAIN Num(n)
BY DEF Num, Arr, Obj

LEMMA ProcessFieldsAre ==
    ASSUME NEW drawn \in Metrics
    PROVE  LET fields == ProcessFields(drawn) IN
           /\ DOMAIN fields \subseteq Keys /\ "rss" \in DOMAIN fields /\ fields["rss"] = Num(drawn.rss)
           /\ \A k \in DOMAIN fields : fields[k] # Arr
           /\ drawn.rss \in InRange(RssRange)
<1>1. DOMAIN drawn = {"rss", "heapTotal", "heapUsed"} /\ drawn.rss \in InRange(RssRange)
  BY DEF Metrics
<1>2. DOMAIN ProcessFields(drawn) = DOMAIN drawn /\ \A k \in DOMAIN drawn : ProcessFields(drawn)[k] = Num(drawn[k])
  BY DEF ProcessFields
<1>3. \A k \in DOMAIN drawn : k \in Keys
  BY <1>1 DEF Keys, Words
<1> QED BY <1>1, <1>2, <1>3, NumIs

(* rewrite_event_process *)
LEMMA ProcessStep ==
    ASSUME NEW d, Grown(d), NEW drawn \in Metrics
    PROVE  LET e == RewriteEventProcess(d, drawn)
               process == <<"process">>
           IN  /\ Grown(e) /\ Untouched(e, d, {"process"})
               /\ IsObj(e, process) => process \o <<"rss">> \in DOMAIN e /\ e[process \o <<"rss">>] = Num(drawn.rss)
               /\ EncodesObj(e, process, "base64") => e[process].doc[<<"rss">>] = Num(drawn.rss)
<1> DEFINE process == <<"process">>
           fields == ProcessFields(drawn)
           e == RewriteEventProcess(d, drawn)
<1>0. "process" \in Keys /\ "rss" \in Keys /\ Document(d)
  BY DEF Keys, Words, Grown
<1>1. process \in Paths /\ \A q \in Paths : IsPrefix(process, q) <=> q # << >> /\ q[1] = "process"
  BY <1>0, Few
<1>2. /\ DOMAIN fields \subseteq Keys /\ "rss" \in DOMAIN fields /\ fields["rss"] = Num(drawn.rss)
      /\ \A k \in DOMAIN fields : fields[k] # Arr
  BY ProcessFieldsAre
<1> HIDE DEF fields, process
<1>3. CASE IsObj(d, process)
  <2> DEFINE i == Insert(d, process, fields)
  <2>0. ~EncodesObj(d, process, "base64")
    BY <1>3 DEF EncodesObj, Encodes, IsObj, Obj
  <2>1. e = i
    <3>1. IsObj(d, <<"process">>) /\ ~EncodesObj(d, <<"process">>, "base64")
      BY <1>3, <2>0 DEF process
    <3> QED BY <3>1 DEF RewriteEventProcess, fields, process
  <2>2. Inserted(i, d, process, fields) /\ Grown(i)
    BY <1>1, <1>2, <1>3, InsertIs
  <2> HIDE DEF i, e
  <2>3. \A k \in DOMAIN fields, q \in Paths : IsPrefix(process \o <<k>>, q) => IsPrefix(process, q)
    BY <1>1, <1>2, ChildIs, PrefixOfPrefix
  <2>4. Untouched(i, d, {"process"})
    BY <1>1, <2>2, <2>3 DEF Inserted, Untouched
  <2>5. process \o <<"rss">> \in DOMAIN i /\ i[process \o <<"rss">>] = Num(drawn.rss)
    BY <1>2, <2>2 DEF Inserted
  <2>6. i[process] = Obj
    <3>1. ASSUME NEW k \in DOMAIN fields, IsPrefix(process \o <<k>>, process) PROVE FALSE
      <4>1. /\ process \o <<k>> \in Paths /\ Len(process \o <<k>>) = Len(process) + 1
            /\ IsPrefix(process, process \o <<k>>) /\ Len(process) \in Nat
        BY <1>1, <1>2, ChildIs, LenProperties DEF Paths
      <4>2. process = process \o <<k>>
        BY <1>1, <3>1, <4>1, PrefixOrder
      <4> QED BY <4>1, <4>2
    <3>2. Same(i, d, process)
      BY <1>1, <2>2, <3>1 DEF Inserted
    <3> QED BY <1>3, <3>2 DEF Same, IsObj
  <2>7. ~EncodesObj(i, process, "base64")
    BY <2>6 DEF EncodesObj, Encodes, Obj
  <2> QED BY <2>1, <2>2, <2>4, <2>5, <2>7 DEF e, process
<1>4. CASE ~IsObj(d, process) /\ EncodesObj(d, process, "base64")
  <2> DEFINE doc == d[process].doc
             i == Insert(doc, << >>, fields)
  <2>1. e = [d EXCEPT ![process] = Enc("base64", i)]
    BY <1>4 DEF RewriteEventProcess, fields, process
  <2>2. Inserted(i, doc, << >>, fields)
    <3>1. << >> \in Paths
      BY EmptySeq DEF Paths
    <3> QED BY <1>2, <3>1, InsertIs
  <2>3. << >> \o <<"rss">> = <<"rss">>
    BY <1>0, FirstKey
  <2>4. i[<<"rss">>] = Num(drawn.rss)
    BY <1>2, <2>2, <2>3 DEF Inserted
  <2> HIDE DEF i, e
  <2>5. process \in DOMAIN d /\ d[process] # Obj /\ d[process] # Arr
    BY <1>4 DEF EncodesObj, Encodes, Obj, Arr
  <2>6. DOMAIN e = DOMAIN d /\ e[process] = Enc("base64", i) /\ \A q \in DOMAIN d : q # process => e[q] = d[q]
    BY <2>1, <2>5
  <2>7. Grown(e)
    <3>1. \A q \in DOMAIN d : (IsObj(e, q) <=> IsObj(d, q)) /\ (IsArr(e, q) <=> IsArr(d, q))
      BY <2>5, <2>6, EncIs DEF IsObj, IsArr
    <3> QED BY <2>6, <3>1, GrownSame
  <2>8. Untouched(e, d, {"process"})
    <3>1. process # << >> /\ process[1] = "process"
      BY DEF process
    <3> QED BY <2>6, <3>1 DEF Untouched, Same
  <2>9. ~IsObj(e, process) /\ e[process].doc = i
    BY <2>6, EncIs DEF IsObj, Enc
  <2> QED BY <2>4, <2>7, <2>8, <2>9 DEF e, process
<1>5. CASE ~IsObj(d, process) /\ ~EncodesObj(d, process, "base64")
  <2>1. e = d
    BY <1>5 DEF RewriteEventProcess, process
  <2> QED BY <1>5, <2>1 DEF Untouched, Same, process
<1> QED BY <1>3, <1>4, <1>5 DEF process

(* The keys of the gateway dropped; an array has none of them. *)
LEMMA DropStep ==
    ASSUME NEW d, Grown(d)
    PROVE  Grown(DropGatewayKeys(d)) /\ Untouched(DropGatewayKeys(d), d, GatewayKeys)
<1> DEFINE e == DropGatewayKeys(d)
<1>0. Document(d)
  BY DEF Grown
<1>1. ASSUME NEW q \in Paths
      PROVE  q # << >> => Head(q) = q[1]
  BY DEF Head
<1>2. /\ \A q \in Paths : q \in DOMAIN e <=> q \in DOMAIN d /\ (q = << >> \/ q[1] \notin GatewayKeys)
      /\ \A q \in DOMAIN e : e[q] = d[q] /\ q \in Paths
  BY <1>0, <1>1 DEF DropGatewayKeys, Document
<1> HIDE DEF e
<1>3. Untouched(e, d, GatewayKeys)
  BY <1>2 DEF Untouched, Same
<1>4. << >> \in Paths
  BY EmptySeq DEF Paths
<1>5. ASSUME NEW p \in Paths, NEW k \in Keys
      PROVE  /\ p # << >> => (p \o <<k>> # << >> /\ (p \o <<k>>)[1] = p[1])
             /\ p = << >> => (p \o <<k>> # << >> /\ (p \o <<k>>)[1] = k)
  <2>1. p \o <<k>> \in Paths /\ p \o <<k>> # << >> /\ IsPrefix(p, p \o <<k>>)
    BY ChildIs
  <2>2. ASSUME p # << >> PROVE (p \o <<k>>)[1] = p[1]
    <3>1. Len(p) \in Nat \ {0}
      BY <2>2, EmptySeq DEF Paths
    <3>2. 1 \in 1 .. Len(p)
      BY <3>1
    <3> QED BY <2>1, <3>2, PrefixIs
  <2>3. ASSUME p = << >> PROVE (p \o <<k>>)[1] = k
    BY <2>3, FirstKey, Few
  <2> QED BY <2>1, <2>2, <2>3
<1>6. ASSUME NEW p \in Paths, NEW k \in Keys, p \o <<k>> \in DOMAIN e PROVE IsObj(e, p) \/ IsArr(e, p)
  <2>1. p \o <<k>> \in DOMAIN d
    BY <1>2, <1>6, ChildIs
  <2>2. p \in DOMAIN d /\ (IsObj(d, p) \/ IsArr(d, p))
    BY <2>1 DEF Grown, IsObj, IsArr
  <2>3. p \in DOMAIN e
    BY <1>2, <1>5, <1>6, <2>2
  <2> QED BY <1>2, <2>2, <2>3 DEF IsObj, IsArr
<1>7. ASSUME NEW p \in Paths, IsArr(e, p)
      PROVE  \E n \in 0 .. Len(Index) : \A k \in Keys : p \o <<k>> \in DOMAIN e <=> k \in {Index[i] : i \in 1 .. n}
  <2>1. IsArr(d, p) /\ p \in DOMAIN e
    BY <1>2, <1>7 DEF IsArr
  <2>2. PICK n \in 0 .. Len(Index) : \A k \in Keys : p \o <<k>> \in DOMAIN d <=> k \in {Index[i] : i \in 1 .. n}
    BY <2>1 DEF Grown
  <2>3. ASSUME NEW k \in Keys, p \o <<k>> \in DOMAIN d PROVE p \o <<k>> \in DOMAIN e
    <3>1. CASE p # << >>
      BY <1>2, <1>5, <2>1, <2>3, <3>1, ChildIs
    <3>2. CASE p = << >>
      <4>1. k \in Range(Index)
        <5>1. ~IsObj(d, p)
          BY <2>1 DEF IsObj, IsArr, Obj, Arr
        <5> QED BY <2>3, <5>1, FieldOfObject
      <4>2. k \notin GatewayKeys
        BY <4>1, FieldsAre DEF FieldKeys
      <4> QED BY <1>2, <1>5, <2>3, <3>2, <4>2, ChildIs
    <3> QED BY <3>1, <3>2
  <2>4. ASSUME NEW k \in Keys, p \o <<k>> \in DOMAIN e PROVE p \o <<k>> \in DOMAIN d
    BY <1>2, <2>4, ChildIs
  <2> QED BY <2>2, <2>3, <2>4
<1>8. Document(e) /\ << >> \in DOMAIN e
  BY <1>2, <1>4 DEF Document, Grown
<1>9. Grown(e)
  BY <1>6, <1>7, <1>8 DEF Grown
<1> QED BY <1>3, <1>9 DEF e

(* additional_metadata *)
LEMMA AdditionalStep ==
    ASSUME NEW d, Grown(d)
    PROVE  LET e == RewriteAdditionalMetadata(d)
               meta == <<"additional_metadata">>
           IN  /\ Grown(e) /\ Untouched(e, d, {"additional_metadata"})
               /\ Encodes(e, meta, "base64") =>
                    /\ Encodes(d, meta, "base64")
                    /\ e[meta].doc = RewriteRecursiveIdentity(DropGatewayKeys(d[meta].doc))
<1> DEFINE meta == <<"additional_metadata">>
           e == RewriteAdditionalMetadata(d)
<1>1. CASE Encodes(d, meta, "base64")
  <2> DEFINE i == RewriteRecursiveIdentity(DropGatewayKeys(d[meta].doc))
  <2>1. e = [d EXCEPT ![meta] = Enc("base64", i)]
    BY <1>1 DEF RewriteAdditionalMetadata
  <2> HIDE DEF i, e
  <2>5. meta \in DOMAIN d /\ d[meta] # Obj /\ d[meta] # Arr
    BY <1>1 DEF Encodes, Obj, Arr
  <2>6. DOMAIN e = DOMAIN d /\ e[meta] = Enc("base64", i) /\ \A q \in DOMAIN d : q # meta => e[q] = d[q]
    BY <2>1, <2>5
  <2>7. Grown(e)
    <3>1. \A q \in DOMAIN d : (IsObj(e, q) <=> IsObj(d, q)) /\ (IsArr(e, q) <=> IsArr(d, q))
      BY <2>5, <2>6, EncIs DEF IsObj, IsArr
    <3> QED BY <2>6, <3>1, GrownSame
  <2>8. Untouched(e, d, {"additional_metadata"})
    <3>1. meta # << >> /\ meta[1] = "additional_metadata"
      OBVIOUS
    <3> QED BY <2>6, <3>1 DEF Untouched, Same
  <2>9. e[meta].doc = i
    BY <2>6 DEF Enc
  <2> QED BY <1>1, <2>7, <2>8, <2>9 DEF e, i
<1>2. CASE ~Encodes(d, meta, "base64")
  <2>1. e = d
    BY <1>2 DEF RewriteAdditionalMetadata
  <2> QED BY <1>2, <2>1 DEF Untouched, Same
<1> QED BY <1>1, <1>2

-----------------------------------------------------------------------------
(* Fields of an event or of a document, by their key. *)
LEMMA KnownKeys ==
    /\ IdKeys \cup GatewayKeys \cup {"text", "user_id", "events", "event_data", "env", "process",
            "additional_metadata", "rss", "metadata", "messages", "system"} \subseteq Keys
    /\ FieldKeys \ TimestampKeys \subseteq Keys
    /\ IdKeys \cap GatewayKeys = {}
    /\ {"env", "process", "additional_metadata"} \cap (IdKeys \cup GatewayKeys) = {}
    /\ (IdKeys \cup GatewayKeys \cup {"rss", "event_data", "events", "env", "process", "additional_metadata"})
            \cap TimestampKeys = {}
BY DEF Keys, Words, FieldKeys, IdKeys, GatewayKeys, TimestampKeys

(* What rewrite_recursive_identity leaves under a key that names the       *)
(* client is canonical, at every depth.                                    *)
LEMMA RecursiveIdentityIs ==
    ASSUME NEW d, Grown(d)
    PROVE  LET e == RewriteRecursiveIdentity(d) IN
           /\ Document(e)
           /\ \A r \in DOMAIN e \ {<< >>} : Key(r) \in IdKeys => e[r] = Canonical
<1> DEFINE ids == IdPaths(d)
           S == {q \in ids : \A p \in ids : ~IsStrictPrefix(p, q)}
           e == RewriteRecursiveIdentity(d)
<1>1. Document(d) /\ ids \subseteq Paths /\ ids \subseteq DOMAIN d
  BY DEF Grown, Document, IdPaths
<1>2. e = Canonicalize(d, S)
  BY DEF RewriteRecursiveIdentity
<1>3. S \subseteq Paths /\ \A p, x \in S : IsPrefix(p, x) => p = x
  BY <1>1 DEF IsStrictPrefix
<1>4. Planted(e, d, S, [p \in S |-> Canonical]) /\ \A p \in S : e[p] = Canonical
  BY <1>2, <1>3, CanonicalizeIs
<1>5. Document(e)
  <2> DEFINE new == [q \in S |-> Leaf(Canonical)]
  <2>1. DOMAIN new = S /\ \A p \in S : new[p] = Leaf(Canonical)
    OBVIOUS
  <2>2. e = PutAll(d, new)
    BY <1>2 DEF Canonicalize
  <2> HIDE DEF new
  <2> QED BY <1>1, <1>3, <2>1, <2>2, LeafIs, PutAllDocument DEF Placed
<1>6. ASSUME NEW r \in DOMAIN e \ {<< >>}, Key(r) \in IdKeys PROVE e[r] = Canonical
  <2>0. r \in Paths
    BY <1>5 DEF Document
  <2>1. CASE \E p \in S : IsPrefix(p, r)
    BY <1>4, <2>0, <2>1 DEF Planted
  <2>2. CASE \A p \in S : ~IsPrefix(p, r)
    <3>1. r \in DOMAIN d
      BY <1>4, <2>0, <2>2 DEF Planted, Same
    <3>2. r \in ids
      <4>1. Front(r) \in Paths /\ Key(r) \in Keys /\ r = Front(r) \o <<Key(r)>>
        BY <2>0, FrontIs
      <4>2. Key(r) \notin Range(Index)
        BY <1>6, FieldsAre DEF FieldKeys
      <4>3. IsObj(d, Front(r))
        BY <3>1, <4>1, <4>2, FieldOfObject
      <4> QED BY <1>6, <3>1, <4>3 DEF IdPaths
    <3> DEFINE T == {Len(p) : p \in {x \in ids : IsPrefix(x, r)}}
    <3>3. T \in SUBSET Nat /\ T # {}
      <4>1. IsPrefix(r, r)
        BY <2>0, PrefixOrder
      <4>2. \A p \in ids : Len(p) \in Nat
        BY <1>1, LenProperties DEF Paths
      <4> QED BY <3>2, <4>1, <4>2
    <3>4. PICK p \in ids : IsPrefix(p, r) /\ \A x \in ids : IsPrefix(x, r) => ~(Len(x) < Len(p))
      BY <3>3, NatHasLeast
    <3>5. ASSUME NEW x \in ids, IsStrictPrefix(x, p) PROVE FALSE
      <4>1. x \in Paths /\ p \in Paths /\ IsPrefix(x, p) /\ x # p
        BY <1>1, <3>5 DEF IsStrictPrefix
      <4>2. IsPrefix(x, r)
        BY <2>0, <3>4, <4>1, PrefixOfPrefix
      <4>3. Len(x) <= Len(p) /\ Len(x) \in Nat /\ Len(p) \in Nat
        BY <4>1, PrefixIs, LenProperties DEF Paths
      <4>4. Len(x) = Len(p)
        BY <3>4, <4>2, <4>3
      <4> QED BY <4>1, <4>3, <4>4, PrefixOrder
    <3> QED BY <2>2, <3>4, <3>5
  <2> QED BY <2>1, <2>2
<1> QED BY <1>5, <1>6 DEF e

(* event_data, of one event: what is masked, and what is left alone. *)
EventMasked(e, drawn) ==
    /\ \A q \in DOMAIN e : q # << >> /\ q[1] = "env" => e[q] \in {Obj, Canonical}
    /\ IsObj(e, <<"process">>) =>
            <<"process">> \o <<"rss">> \in DOMAIN e /\ e[<<"process">> \o <<"rss">>] = Num(drawn.rss)
    /\ EncodesObj(e, <<"process">>, "base64") => e[<<"process">>].doc[<<"rss">>] = Num(drawn.rss)
EventIdentified(e, d) ==
    /\ \A k \in IdKeys : <<k>> \in DOMAIN e => e[<<k>>] = Canonical
    /\ Encodes(e, <<"additional_metadata">>, "base64") =>
            /\ Encodes(d, <<"additional_metadata">>, "base64")
            /\ e[<<"additional_metadata">>].doc =
                    RewriteRecursiveIdentity(DropGatewayKeys(d[<<"additional_metadata">>].doc))
EventLeft == IdKeys \cup GatewayKeys \cup {"additional_metadata"}

(* A masked event stays masked under changes elsewhere. *)
LEMMA MaskedUntouched ==
    ASSUME NEW e, NEW f, NEW K, Untouched(f, e, K), Document(f), NEW drawn, EventMasked(e, drawn),
           K \cap {"env", "process"} = {}
    PROVE  EventMasked(f, drawn)
<1> DEFINE process == <<"process">>
           rss == <<"process">> \o <<"rss">>
<1>1. {"env", "process", "rss"} \subseteq Keys
  BY KnownKeys
<1>2. Same(f, e, process)
  BY <1>1, UntouchedNode
<1>3. Same(f, e, rss)
  <2>1. <<"rss">> \in Paths
    BY <1>1, Few
  <2> QED BY <1>1, <2>1, UntouchedNode
<1>4. ASSUME NEW q \in DOMAIN f, q # << >>, q[1] = "env" PROVE f[q] \in {Obj, Canonical}
  <2>1. q \in Paths /\ q[1] \notin K
    BY <1>4 DEF Document
  <2>2. Same(f, e, q)
    BY <2>1 DEF Untouched
  <2> QED BY <1>4, <2>2 DEF EventMasked, Same
<1> HIDE DEF process, rss
<1>5. IsObj(f, process) => rss \in DOMAIN f /\ f[rss] = Num(drawn.rss)
  BY <1>2, <1>3 DEF EventMasked, Same, IsObj, process, rss
<1>6. EncodesObj(f, process, "base64") => f[process].doc[<<"rss">>] = Num(drawn.rss)
  BY <1>2 DEF EventMasked, Same, EncodesObj, Encodes, process
<1> QED BY <1>4, <1>5, <1>6 DEF EventMasked, process, rss

LEMMA EventStep ==
    ASSUME NEW d, Grown(d), NEW policy, NEW drawn \in Metrics
    PROVE  LET e == RewriteEvent(d, policy, drawn) IN
           /\ Grown(e)
           /\ ~IsObj(d, << >>) => e = d
           /\ IsObj(d, << >>) => IsObj(e, << >>) /\ EventIdentified(e, d)
           /\ IsObj(d, << >>) /\ policy.mode = "aggressive" => EventMasked(e, drawn)
           /\ policy.mode # "aggressive" => Untouched(e, d, EventLeft)
           /\ Untouched(e, d, EventLeft \cup {"env", "process"})
<1> DEFINE e == RewriteEvent(d, policy, drawn)
<1>1. CASE ~IsObj(d, << >>)
  <2>1. e = d
    BY <1>1 DEF RewriteEvent
  <2> QED BY <1>1, <2>1 DEF Untouched, Same
<1>2. CASE IsObj(d, << >>)
  <2> DEFINE i == RewriteEventIdentity(d)
             v == RewriteEventEnv(i)
             x == RewriteEventProcess(v, drawn)
             m == IF policy.mode = "aggressive" THEN x ELSE i
             g == DropGatewayKeys(m)
  <2>0. e = RewriteAdditionalMetadata(g)
    BY <1>2 DEF RewriteEvent
  <2>1. Grown(i) /\ Untouched(i, d, IdKeys) /\ \A k \in IdKeys : <<k>> \in DOMAIN i => i[<<k>>] = Canonical
    BY IdentityStep
  <2> HIDE DEF i
  <2>2. Grown(v) /\ Untouched(v, i, {"env"}) /\ \A q \in DOMAIN v : q # << >> /\ q[1] = "env" => v[q] \in {Obj, Canonical}
    BY <2>1, EnvStep
  <2> HIDE DEF v
  <2>3. /\ Grown(x) /\ Untouched(x, v, {"process"})
        /\ IsObj(x, <<"process">>) =>
                <<"process">> \o <<"rss">> \in DOMAIN x /\ x[<<"process">> \o <<"rss">>] = Num(drawn.rss)
        /\ EncodesObj(x, <<"process">>, "base64") => x[<<"process">>].doc[<<"rss">>] = Num(drawn.rss)
    BY <2>2, ProcessStep
  <2> HIDE DEF x
  <2>4. EventMasked(x, drawn)
    <3>1. ASSUME NEW q \in DOMAIN x, q # << >>, q[1] = "env" PROVE x[q] \in {Obj, Canonical}
      <4>1. q \in Paths
        BY <2>3 DEF Grown, Document
      <4>2. Same(x, v, q)
        BY <2>3, <3>1, <4>1 DEF Untouched
      <4> QED BY <2>2, <3>1, <4>2 DEF Same
    <3> QED BY <2>3, <3>1 DEF EventMasked
  <2>5. Grown(m) /\ Untouched(m, d, IdKeys \cup {"env", "process"})
        /\ (policy.mode # "aggressive" => Untouched(m, d, IdKeys))
    <3>1. Untouched(x, i, {"env", "process"})
      <4>1. Untouched(x, i, {"env"} \cup {"process"})
        BY <2>2, <2>3, UntouchedOnce
      <4> QED BY <4>1 DEF Untouched
    <3>2. Untouched(x, d, IdKeys \cup {"env", "process"})
      BY <2>1, <3>1, UntouchedOnce
    <3>3. Untouched(i, d, IdKeys \cup {"env", "process"})
      BY <2>1 DEF Untouched
    <3> QED BY <2>1, <2>3, <3>2, <3>3
  <2>6. \A k \in IdKeys : <<k>> \in DOMAIN m => m[<<k>>] = Canonical
    <3>1. ASSUME NEW k \in IdKeys PROVE Same(x, i, <<k>>)
      <4>1. <<k>> \in Paths /\ <<k>>[1] = k /\ k \notin {"env", "process"}
        BY KnownKeys, Few
      <4>2. Same(v, i, <<k>>) /\ Same(x, v, <<k>>)
        BY <2>2, <2>3, <4>1 DEF Untouched
      <4> QED BY <4>2 DEF Same
    <3> QED BY <2>1, <3>1 DEF Same
  <2> HIDE DEF m
  <2>7. Grown(g) /\ Untouched(g, m, GatewayKeys)
    BY <2>5, DropStep
  <2> HIDE DEF g
  <2>8. /\ Grown(e) /\ Untouched(e, g, {"additional_metadata"})
        /\ Encodes(e, <<"additional_metadata">>, "base64") =>
                /\ Encodes(g, <<"additional_metadata">>, "base64")
                /\ e[<<"additional_metadata">>].doc =
                        RewriteRecursiveIdentity(DropGatewayKeys(g[<<"additional_metadata">>].doc))
    BY <2>0, <2>7, AdditionalStep
  <2> HIDE DEF e
  <2>9. Untouched(e, m, GatewayKeys \cup {"additional_metadata"})
    BY <2>7, <2>8, UntouchedOnce
  <2>10. Untouched(e, d, EventLeft \cup {"env", "process"}) /\ (policy.mode # "aggressive" => Untouched(e, d, EventLeft))
    <3>1. Untouched(e, d, (IdKeys \cup {"env", "process"}) \cup (GatewayKeys \cup {"additional_metadata"}))
      BY <2>5, <2>9, UntouchedOnce
    <3>2. policy.mode # "aggressive" => Untouched(e, d, IdKeys \cup (GatewayKeys \cup {"additional_metadata"}))
      BY <2>5, <2>9, UntouchedOnce
    <3> QED BY <3>1, <3>2 DEF Untouched, EventLeft
  <2>11. EventIdentified(e, d)
    <3>1. ASSUME NEW k \in IdKeys, <<k>> \in DOMAIN e PROVE e[<<k>>] = Canonical
      <4>1. <<k>> \in Paths /\ <<k>>[1] = k /\ k \notin GatewayKeys \cup {"additional_metadata"}
        BY KnownKeys, Few
      <4>2. Same(e, m, <<k>>)
        BY <2>9, <4>1 DEF Untouched
      <4> QED BY <2>6, <3>1, <4>2 DEF Same
    <3>2. Same(g, d, <<"additional_metadata">>)
      <4>1. Untouched(g, d, (IdKeys \cup {"env", "process"}) \cup GatewayKeys)
        BY <2>5, <2>7, UntouchedOnce
      <4> QED BY <4>1, KnownKeys, UntouchedNode
    <3> QED BY <2>8, <3>1, <3>2 DEF EventIdentified, Same, Encodes
  <2>12. policy.mode = "aggressive" => EventMasked(e, drawn)
    <3>1. (GatewayKeys \cup {"additional_metadata"}) \cap {"env", "process"} = {}
      BY KnownKeys
    <3>2. Document(e)
      BY <2>8 DEF Grown
    <3> QED BY <2>4, <2>9, <3>1, <3>2, MaskedUntouched DEF m
  <2>13. IsObj(e, << >>)
    <3>1. << >> \in Paths
      BY EmptySeq DEF Paths
    <3>2. Same(e, d, << >>)
      BY <2>10, <3>1 DEF Untouched
    <3> QED BY <1>2, <3>2 DEF IsObj, Same
  <2> QED BY <1>2, <2>8, <2>10, <2>11, <2>12, <2>13 DEF e
<1> QED BY <1>1, <1>2

-----------------------------------------------------------------------------
(* A batch: every event is replaced, and then the times. *)

Events == <<"events">>

LEMMA EventsPath == Events \in Paths /\ Len(Events) = 1 /\ \A q \in Paths : IsPrefix(Events, q) <=> q # << >> /\ q[1] = "events"
BY KnownKeys, Few DEF Events

LEMMA EventPath ==
    ASSUME NEW k \in Keys
    PROVE  LET c == Events \o <<k>>
               p == c \o <<"event_data">>
           IN  /\ c \in Paths /\ Len(c) = 2
               /\ p \in Paths /\ Len(p) = 3 /\ p # << >> /\ IsPrefix(c, p) /\ c # p
<1> DEFINE c == Events \o <<k>>
           p == c \o <<"event_data">>
<1>1. Events \in Paths /\ Len(Events) = 1
  BY EventsPath
<1>2. c \in Paths /\ Len(c) = Len(Events) + 1
  BY <1>1, ChildIs
<1>3. "event_data" \in Keys
  BY KnownKeys
<1> HIDE DEF c
<1>4. p \in Paths /\ p # << >> /\ Len(p) = Len(c) + 1 /\ IsPrefix(c, p)
  BY <1>2, <1>3, ChildIs
<1> HIDE DEF p
<1>5. Len(c) = 2 /\ Len(p) = 3
  BY <1>1, <1>2, <1>4
<1> QED BY <1>2, <1>4, <1>5 DEF c, p

(* Where the data of an event is. *)
LEMMA EventDataIs ==
    ASSUME NEW d, Grown(d), NEW p \in EventData(d)
    PROVE  /\ p \in Paths /\ p \in DOMAIN d /\ Len(p) = 3 /\ p # << >> /\ IsArr(d, Events)
           /\ \E k \in Keys : p = (Events \o <<k>>) \o <<"event_data">>
<1>0. Document(d)
  BY DEF Grown
<1>1. PICK c \in Elements(d, Events) : p = c \o <<"event_data">>
  BY DEF EventData, Events
<1>2. p \in DOMAIN d
  BY DEF EventData
<1>3. IsArr(d, Events) /\ c \in Children(d, Events)
  BY <1>1 DEF Elements
<1>4. PICK k \in Keys : c = Events \o <<k>>
  BY <1>0, <1>3, EventsPath, ChildrenAre
<1>5. p \in Paths /\ Len(p) = 3 /\ p # << >>
  BY <1>1, <1>4, EventPath
<1> QED BY <1>1, <1>2, <1>3, <1>4, <1>5

LEMMA EventsApart ==
    ASSUME NEW d, Grown(d)
    PROVE  \A p, x \in EventData(d) : IsPrefix(p, x) => p = x
<1>1. ASSUME NEW p \in EventData(d), NEW x \in EventData(d), IsPrefix(p, x) PROVE p = x
  <2>1. p \in Paths /\ x \in Paths /\ Len(p) = 3 /\ Len(x) = 3
    BY EventDataIs
  <2> QED BY <1>1, <2>1, PrefixOrder
<1> QED BY <1>1

LEMMA EventDataOf ==
    ASSUME NEW d, Document(d), IsArr(d, Events), NEW k \in Keys,
           Events \o <<k>> \in DOMAIN d, (Events \o <<k>>) \o <<"event_data">> \in DOMAIN d
    PROVE  (Events \o <<k>>) \o <<"event_data">> \in EventData(d)
<1>1. Events \o <<k>> \in Elements(d, Events)
  <2>1. Events \in Paths
    BY EventsPath
  <2>2. Elements(d, Events) = {Events \o <<j>> : j \in {i \in Keys : Events \o <<i>> \in DOMAIN d}}
    BY <2>1, ChildrenAre DEF Elements
  <2> QED BY <2>2
<1> QED BY <1>1 DEF EventData, Events

(* A body whose events are rewritten, before its times are. *)
Rewritten(d, policy, drawn) ==
    PutAll(d, [e \in EventData(d) |-> RewriteEvent(Sub(d, e), policy, drawn[e])])
NewEvent(d, policy, drawn, p) == RewriteEvent(Sub(d, p), policy, drawn[p])
(* e is d with another document at each of its events. *)
EventsReplaced(e, d, policy, drawn) ==
    /\ \A p \in EventData(d), q \in Paths : IsPrefix(p, q) =>
            /\ q \in DOMAIN e <=> Rest(p, q) \in DOMAIN NewEvent(d, policy, drawn, p)
            /\ q \in DOMAIN e => e[q] = NewEvent(d, policy, drawn, p)[Rest(p, q)]
    /\ \A q \in Paths : (\A p \in EventData(d) : ~IsPrefix(p, q)) => Same(e, d, q)

LEMMA RewrittenIs ==
    ASSUME NEW d, Grown(d), NEW policy, NEW drawn \in [EventData(d) -> Metrics]
    PROVE  /\ EventsReplaced(Rewritten(d, policy, drawn), d, policy, drawn)
           /\ Grown(Rewritten(d, policy, drawn))
           /\ \A p \in EventData(d) : Grown(Sub(d, p)) /\ Grown(NewEvent(d, policy, drawn, p))
<1> DEFINE new == [e \in EventData(d) |-> RewriteEvent(Sub(d, e), policy, drawn[e])]
           b == Rewritten(d, policy, drawn)
<1>1. DOMAIN new = EventData(d) /\ \A p \in EventData(d) : new[p] = NewEvent(d, policy, drawn, p)
  BY DEF NewEvent
<1>2. b = PutAll(d, new)
  BY DEF Rewritten
<1> HIDE DEF new, b
<1>3. ASSUME NEW p \in EventData(d) PROVE Grown(Sub(d, p)) /\ Grown(new[p]) /\ p \in Paths /\ p \in DOMAIN d
  <2>1. p \in DOMAIN d /\ p \in Paths
    BY EventDataIs
  <2>2. Grown(Sub(d, p))
    BY <2>1, SubGrown
  <2>3. drawn[p] \in Metrics
    OBVIOUS
  <2> QED BY <1>1, <2>1, <2>2, <2>3, EventStep DEF NewEvent
<1>4. Placed(new) /\ Apart(new)
  <2>1. \A p, x \in EventData(d) : IsPrefix(p, x) => p = x
    BY EventsApart
  <2> QED BY <1>1, <1>3, <2>1 DEF Placed, Apart, Grown
<1>5. Grown(b)
  BY <1>1, <1>2, <1>3, <1>4, PutAllGrown DEF Grows
<1>6. \A p \in EventData(d), q \in Paths : IsPrefix(p, q) =>
            /\ q \in DOMAIN b <=> Rest(p, q) \in DOMAIN new[p]
            /\ q \in DOMAIN b => b[q] = new[p][Rest(p, q)]
  BY <1>1, <1>2, <1>4, PutAllAt
<1>7. \A q \in Paths : (\A p \in EventData(d) : ~IsPrefix(p, q)) => Same(b, d, q)
  BY <1>1, <1>2, <1>4, PutAllOutside
<1> QED BY <1>1, <1>3, <1>5, <1>6, <1>7 DEF EventsReplaced, b

LEMMA RootOfEvent ==
    ASSUME NEW d, Document(d), NEW p \in DOMAIN d
    PROVE  /\ p \in Paths /\ IsPrefix(p, p) /\ Rest(p, p) = << >>
           /\ << >> \in DOMAIN Sub(d, p) /\ Sub(d, p)[<< >>] = d[p]
<1>1. p \in Paths
  BY DEF Document
<1>2. IsPrefix(p, p) /\ Rest(p, p) = << >>
  BY <1>1, PrefixOrder
<1> QED BY <1>1, <1>2, SubIs

(* Rewriting moves no event: the events there are afterwards are those     *)
(* there were, each an object if it was one.                               *)
LEMMA EventsStay ==
    ASSUME NEW d, Grown(d), NEW e, Grown(e), NEW policy, NEW drawn \in [EventData(d) -> Metrics],
           EventsReplaced(e, d, policy, drawn)
    PROVE  /\ EventData(e) = EventData(d)
           /\ IsArr(e, Events) <=> IsArr(d, Events)
           /\ \A p \in EventData(d) : IsObj(e, p) <=> IsObj(d, p)
<1>0. Document(d) /\ Document(e)
  BY DEF Grown
<1>1. \A q \in Paths : Len(q) \in {1, 2} => Same(e, d, q)
  <2>1. ASSUME NEW q \in Paths, Len(q) \in {1, 2}, NEW p \in EventData(d), IsPrefix(p, q) PROVE FALSE
    <3>1. p \in Paths /\ Len(p) = 3
      BY EventDataIs
    <3>2. Len(p) <= Len(q) /\ Len(q) \in Nat
      BY <2>1, <3>1, PrefixIs, LenProperties DEF Paths
    <3>3. \A n \in {1, 2} : ~(3 <= n)
      OBVIOUS
    <3>4. 3 <= Len(q)
      BY <3>1, <3>2
    <3> QED BY <2>1, <3>3, <3>4
  <2> QED BY <2>1 DEF EventsReplaced
<1>2. Same(e, d, Events) /\ (IsArr(e, Events) <=> IsArr(d, Events))
  <2>1. Same(e, d, Events)
    <3>1. Events \in Paths /\ Len(Events) = 1
      BY EventsPath
    <3> QED BY <1>1, <3>1
  <2> QED BY <2>1 DEF Same, IsArr
<1>4. ASSUME NEW p \in EventData(d) PROVE p \in EventData(e) /\ (IsObj(e, p) <=> IsObj(d, p))
  <2>1. p \in Paths /\ p \in DOMAIN d /\ IsArr(d, Events)
    BY EventDataIs
  <2>2. PICK k \in Keys : p = (Events \o <<k>>) \o <<"event_data">>
    BY EventDataIs
  <2>3. IsPrefix(p, p) /\ Rest(p, p) = << >> /\ << >> \in DOMAIN Sub(d, p) /\ Sub(d, p)[<< >>] = d[p]
    BY <1>0, <2>1, RootOfEvent
  <2> DEFINE new == NewEvent(d, policy, drawn, p)
  <2>4. Grown(Sub(d, p))
    BY <2>1, SubGrown
  <2>5. drawn[p] \in Metrics
    OBVIOUS
  <2>6. << >> \in DOMAIN new /\ (IsObj(Sub(d, p), << >>) => IsObj(new, << >>))
        /\ (~IsObj(Sub(d, p), << >>) => new = Sub(d, p))
    BY <2>4, <2>5, EventStep DEF Grown, NewEvent
  <2>7. p \in DOMAIN e /\ e[p] = new[<< >>]
    BY <2>1, <2>3, <2>6 DEF EventsReplaced
  <2> HIDE DEF new
  <2>8. IsObj(e, p) <=> IsObj(d, p)
    BY <2>1, <2>3, <2>6, <2>7 DEF IsObj
  <2>9. Events \o <<k>> \in Paths /\ IsPrefix(Events \o <<k>>, p) /\ Events \o <<k>> # p
        /\ "event_data" \in Keys
    BY <2>2, KnownKeys, EventPath
  <2>10. Events \o <<k>> \in DOMAIN e
    BY <2>7, <2>9, GrownAbove
  <2> QED BY <1>0, <1>2, <2>1, <2>2, <2>7, <2>8, <2>10, EventDataOf
<1>5. ASSUME NEW p \in EventData(e) PROVE p \in EventData(d)
  <2>1. p \in Paths /\ p \in DOMAIN e /\ IsArr(e, Events) /\ Len(p) = 3
    BY EventDataIs
  <2>2. PICK k \in Keys : p = (Events \o <<k>>) \o <<"event_data">>
    BY EventDataIs
  <2>3. CASE \E x \in EventData(d) : IsPrefix(x, p)
    <3>1. PICK x \in EventData(d) : IsPrefix(x, p)
      BY <2>3
    <3>2. x \in Paths /\ Len(x) = 3
      BY EventDataIs
    <3> QED BY <2>1, <3>1, <3>2, PrefixOrder
  <2>4. CASE \A x \in EventData(d) : ~IsPrefix(x, p)
    <3>1. p \in DOMAIN d
      BY <2>1, <2>4 DEF EventsReplaced, Same
    <3>3. Events \o <<k>> \in Paths /\ IsPrefix(Events \o <<k>>, p) /\ Events \o <<k>> # p
      BY <2>2, EventPath
    <3>4. Events \o <<k>> \in DOMAIN d
      BY <3>1, <3>3, GrownAbove
    <3> QED BY <1>0, <1>2, <2>1, <2>2, <3>1, <3>4, EventDataOf
  <2> QED BY <2>3, <2>4
<1> QED BY <1>2, <1>4, <1>5

(* normalize_timestamps: what it replaces is a string or a number, and its *)
(* key is that of a time.                                                  *)
Timed(e, d) ==
    /\ DOMAIN e = DOMAIN d
    /\ \A q \in DOMAIN d :
        /\ e[q] = d[q] \/ (q # << >> /\ Key(q) \in TimestampKeys /\ ((IsString(d, q) /\ e[q] = Canonical)
                            \/ (IsNum(d, q) /\ e[q] = Num(BuildMillis))))
        /\ q # << >> /\ Key(q) \in TimestampKeys /\ (IsString(d, q) \/ IsNum(d, q)) =>
                e[q] \in {Canonical, Num(BuildMillis)}

LEMMA TimedIs == \A d : Timed(NormalizeTimestamps(d), d)
BY DEF Timed, NormalizeTimestamps

LEMMA StringShape ==
    /\ \A d, q : (IsString(d, q) \/ IsNum(d, q)) => ~IsObj(d, q) /\ ~IsArr(d, q)
    /\ Canonical # Obj /\ Canonical # Arr /\ Num(BuildMillis) # Obj /\ Num(BuildMillis) # Arr
    /\ "text" \notin DOMAIN Canonical /\ "text" \notin DOMAIN Num(BuildMillis)
BY DEF IsString, IsNum, IsObj, IsArr, Obj, Arr, Canonical, Str, Num

LEMMA TimedGrown ==
    ASSUME NEW d, Grown(d), NEW e, Timed(e, d)
    PROVE  /\ Grown(e) /\ EventData(e) = EventData(d)
           /\ \A q : (IsObj(e, q) <=> IsObj(d, q)) /\ (IsArr(e, q) <=> IsArr(d, q))
<1>1. \A q : (IsObj(e, q) <=> IsObj(d, q)) /\ (IsArr(e, q) <=> IsArr(d, q))
  <2>1. ASSUME NEW q \in DOMAIN d PROVE (IsObj(e, q) <=> IsObj(d, q)) /\ (IsArr(e, q) <=> IsArr(d, q))
    <3>1. CASE e[q] = d[q]
      BY <2>1, <3>1 DEF Timed, IsObj, IsArr
    <3>2. CASE (IsString(d, q) \/ IsNum(d, q)) /\ e[q] \in {Canonical, Num(BuildMillis)}
      <4>1. ~IsObj(d, q) /\ ~IsArr(d, q) /\ e[q] # Obj /\ e[q] # Arr
        BY <3>2, StringShape
      <4> QED BY <4>1 DEF IsObj, IsArr
    <3> QED BY <3>1, <3>2 DEF Timed
  <2> QED BY <2>1 DEF Timed, IsObj, IsArr
<1>2. Grown(e)
  BY <1>1, GrownSame DEF Timed
<1>3. Elements(e, <<"events">>) = Elements(d, <<"events">>) /\ DOMAIN e = DOMAIN d
  BY <1>1 DEF Timed, Elements, Children, Below
<1> QED BY <1>1, <1>2, <1>3 DEF EventData

LEMMA BatchIs ==
    ASSUME NEW d, NEW policy, NEW drawn
    PROVE  RewriteEventBatch(d, policy, drawn) =
                IF policy.normalize /\ IsArr(d, Events) THEN NormalizeTimestamps(Rewritten(d, policy, drawn))
                ELSE Rewritten(d, policy, drawn)
BY DEF RewriteEventBatch, Rewritten, Events

LEMMA BatchGrown ==
    ASSUME NEW d, Grown(d), NEW policy, NEW drawn \in [EventData(d) -> Metrics]
    PROVE  LET e == RewriteEventBatch(d, policy, drawn) IN
           /\ Grown(e) /\ EventData(e) = EventData(d)
           /\ IsArr(e, Events) <=> IsArr(d, Events)
           /\ \A p \in EventData(d) : IsObj(e, p) <=> IsObj(d, p)
<1> DEFINE b == Rewritten(d, policy, drawn)
<1>1. Grown(b) /\ EventsReplaced(b, d, policy, drawn)
  BY RewrittenIs
<1> HIDE DEF b
<1>2. /\ EventData(b) = EventData(d) /\ (IsArr(b, Events) <=> IsArr(d, Events))
      /\ \A p \in EventData(d) : IsObj(b, p) <=> IsObj(d, p)
  BY <1>1, EventsStay
<1>3. /\ Grown(NormalizeTimestamps(b)) /\ EventData(NormalizeTimestamps(b)) = EventData(b)
      /\ \A q : (IsObj(NormalizeTimestamps(b), q) <=> IsObj(b, q)) /\ (IsArr(NormalizeTimestamps(b), q) <=> IsArr(b, q))
  BY <1>1, TimedIs, TimedGrown
<1> QED BY <1>1, <1>2, <1>3, BatchIs DEF b

-----------------------------------------------------------------------------
(* A rewritten body is a document, whatever is preserved. *)

LEMMA RouteGrown ==
    ASSUME NEW d, Grown(d), NEW path, NEW policy, policy.strip \in BOOLEAN, NEW drawn \in Draws(d)
    PROVE  Grown(RewriteRoute(d, path, policy, drawn))
<1>1. drawn.metrics \in [EventData(d) -> Metrics]
  BY DEF Draws
<1>2. Grown(RewriteMessagesBody(d, policy, drawn.hash))
  BY MessagesBodyGrown
<1>3. Grown(RewriteEventBatch(d, policy, drawn.metrics))
  BY <1>1, BatchGrown
<1>4. Grown(RewriteEventIdentity(d))
  BY IdentityStep
<1> QED BY <1>2, <1>3, <1>4 DEF RewriteRoute

(* preserve_field puts a value where there is one, or in an object. *)
LEMMA PreserveFieldGrown ==
    ASSUME NEW original, Grown(original), NEW d, Grown(d), NEW p \in Paths
    PROVE  Grown(PreserveField(original, d, p))
<1>1. ASSUME p \in DOMAIN original, IsObj(d, Front(p)) \/ (IsArr(d, Front(p)) /\ p \in DOMAIN d)
      PROVE  Grown(Put(d, p, Sub(original, p)))
  <2>1. Grown(Sub(original, p))
    BY <1>1, SubGrown
  <2>2. Grows(d, p)
    BY <1>1 DEF Grows, Grown
  <2> QED BY <2>1, <2>2, PutGrown
<1> QED BY <1>1 DEF PreserveField

LEMMA PreserveFieldsGrown ==
    ASSUME NEW original, Grown(original), NEW d, Grown(d), NEW paths \in Seq(Paths)
    PROVE  Grown(PreserveFields(original, d, paths))
<1>1. PICK g : FieldByField(original, d, paths, g)
  BY PreservedInTurn
<1> DEFINE S == {k \in Nat : Grown(g[k])}
<1>2. 0 \in S
  BY <1>1 DEF FieldByField, Same
<1>3. ASSUME NEW k \in 0 .. Len(paths) - 1, k \in S PROVE k + 1 \in S
  BY <1>1, <1>3, PreserveFieldGrown DEF FieldByField
<1> HIDE DEF S
<1>4. Len(paths) \in S
  BY <1>1, <1>2, <1>3, InTurn DEF FieldByField
<1> QED BY <1>1, <1>4 DEF FieldByField, S

(* Where preserve_fields put something back it is what the client sent,    *)
(* and elsewhere it is what the rewriting made.                            *)
LEMMA PreserveFieldSame ==
    ASSUME NEW original, Document(original), NEW d, NEW p \in Paths, NEW q \in Paths
    PROVE  LET e == PreserveField(original, d, p) IN Same(e, d, q) \/ Same(e, original, q)
<1> DEFINE e == Put(d, p, Sub(original, p))
<1>1. Document(Sub(original, p))
  BY SubDocument
<1>2. CASE IsPrefix(p, q)
  <2>1. /\ q \in DOMAIN e <=> Rest(p, q) \in DOMAIN Sub(original, p)
        /\ q \in DOMAIN e => e[q] = Sub(original, p)[Rest(p, q)]
    BY <1>1, <1>2, PutInside
  <2>2. /\ Rest(p, q) \in DOMAIN Sub(original, p) <=> q \in DOMAIN original
        /\ q \in DOMAIN original => Sub(original, p)[Rest(p, q)] = original[q]
    BY <1>2, SubIs
  <2> HIDE DEF e
  <2>3. Same(e, original, q)
    BY <2>1, <2>2 DEF Same
  <2> QED BY <2>3 DEF PreserveField, Same, e
<1>3. CASE ~IsPrefix(p, q)
  BY <1>3, PreserveFieldOutside
<1> QED BY <1>2, <1>3

LEMMA PreserveFieldsSame ==
    ASSUME NEW original, Document(original), NEW d, NEW paths \in Seq(Paths), NEW q \in Paths
    PROVE  LET e == PreserveFields(original, d, paths) IN Same(e, d, q) \/ Same(e, original, q)
<1>1. PICK g : FieldByField(original, d, paths, g)
  BY PreservedInTurn
<1> DEFINE S == {k \in Nat : Same(g[k], d, q) \/ Same(g[k], original, q)}
<1>2. 0 \in S
  BY <1>1 DEF FieldByField, Same
<1>3. ASSUME NEW k \in 0 .. Len(paths) - 1, k \in S PROVE k + 1 \in S
  <2>1. Same(g[k + 1], g[k], q) \/ Same(g[k + 1], original, q)
    BY <1>1, PreserveFieldSame DEF FieldByField
  <2> QED BY <1>3, <2>1 DEF Same
<1> HIDE DEF S
<1>4. Len(paths) \in S
  BY <1>1, <1>2, <1>3, InTurn DEF FieldByField
<1> QED BY <1>1, <1>4 DEF FieldByField, S

(* Type correctness, of the whole life of a body. *)
LEMMA EmptyIs ==
    ASSUME NEW d, Document(d), IsDocument(d)
    PROVE  d = << >> \/ Grown(d)
BY GrownIs

BodyInv ==
    /\ request \in ClientRequests /\ option \in Options
    /\ stage \in {"received", "forwarded", "relayed"}
    /\ out = << >> \/ Grown(out)

LEMMA OptionIs ==
    ASSUME NEW opt \in Options
    PROVE  LET policy == ActiveRewritePolicy(opt) IN
           /\ policy.mode \in {"aggressive", "conservative", "passthrough"} /\ policy.strip \in BOOLEAN
           /\ policy.preserve \in Seq(Paths) /\ \A i \in DOMAIN policy.preserve : policy.preserve[i] # << >>
<1>1. opt = NoPolicy \/ (opt.preserve \in Seq(Paths) /\ \A i \in DOMAIN opt.preserve : opt.preserve[i] # << >>)
  <2>1. Seq(Seq(STRING) \ {<< >>}) \subseteq Seq(Seq(STRING))
    BY SeqMonotonic
  <2>2. ASSUME NEW s \in Seq(Seq(STRING) \ {<< >>}), NEW i \in DOMAIN s PROVE s[i] # << >>
    <3>1. i \in 1 .. Len(s)
      BY LenProperties
    <3>2. s[i] \in Seq(STRING) \ {<< >>}
      BY <3>1, ElementOfSeq
    <3> QED BY <3>2
  <2> QED BY <2>1, <2>2, OptionsAssumption, PathsAre DEF NoPolicy, None
<1>2. << >> \in Seq(Paths) /\ DOMAIN << >> = {}
  BY EmptySeq
<1> QED BY <1>1, <1>2 DEF ActiveRewritePolicy

LEMMA BodyOnce ==
    ASSUME NEW d, d = << >> \/ Grown(d), NEW path, NEW opt \in Options, NEW drawn \in Draws(d)
    PROVE  LET e == RewriteRequestBody(d, path, opt, drawn) IN e = << >> \/ Grown(e)
<1> DEFINE policy == ActiveRewritePolicy(opt)
           r == RewriteRoute(d, path, policy, drawn)
<1>1. policy.strip \in BOOLEAN /\ policy.preserve \in Seq(Paths)
  BY OptionIs
<1>2. RewriteRequestBody(d, path, opt, drawn) =
        IF d = << >> \/ policy.mode = "passthrough" THEN d ELSE PreserveFields(d, r, policy.preserve)
  BY DEF RewriteRequestBody
<1> HIDE DEF policy
<1>3. Grown(d) => Grown(r)
  BY <1>1, RouteGrown
<1> HIDE DEF r
<1>4. Grown(d) => Grown(PreserveFields(d, r, policy.preserve))
  BY <1>1, <1>3, PreserveFieldsGrown
<1> QED BY <1>2, <1>4

LEMMA RequestBodies ==
    ASSUME NEW r \in ClientRequests
    PROVE  (r.body = << >> \/ Grown(r.body)) /\ Document(r.body)
<1>1. Document(r.body) /\ IsDocument(r.body)
  BY ClientRequestsAssumption, PathsAre DEF Document
<1> QED BY <1>1, EmptyIs

LEMMA BodyInvHolds == RewriteSpec => []BodyInv
<1>1. RewriteInit => BodyInv
  BY RequestBodies DEF RewriteInit, BodyInv
<1>2. ASSUME BodyInv, [RewriteNext]_rewriteVars PROVE BodyInv'
  <2>1. ASSUME NEW from, NEW to \in {"forwarded", "relayed"}, RewriteOnce(from, to) PROVE BodyInv'
    <3>1. stage' = to /\ request' = request /\ option' = option
      BY <2>1 DEF RewriteOnce
    <3>2. PICK drawn \in Draws(out) : out' = RewriteRequestBody(out, request.path, option, drawn)
      BY <2>1 DEF RewriteOnce
    <3>3. (out = << >> \/ Grown(out)) /\ option \in Options
      BY <1>2 DEF BodyInv
    <3>4. out' = << >> \/ Grown(out')
      BY <3>2, <3>3, BodyOnce
    <3> QED BY <1>2, <3>1, <3>4 DEF BodyInv
  <2>2. CASE UNCHANGED rewriteVars
    BY <1>2, <2>2 DEF rewriteVars, BodyInv
  <2> QED BY <1>2, <2>1, <2>2 DEF RewriteNext, Forward, Relay
<1> QED BY <1>1, <1>2, PTL DEF RewriteSpec

LEMMA BodyFollows == BodyInv => BodyTypeOK
<1>1. IsDocument(<< >>)
  <2>1. DOMAIN << >> = {}
    OBVIOUS
  <2> QED BY <2>1 DEF IsDocument
<1>2. ASSUME NEW d, Grown(d) PROVE IsDocument(d)
  <2>1. d # << >> /\ Document(d)
    BY <1>2 DEF Grown
  <2> QED BY <1>2, <2>1, GrownIs
<1> QED BY <1>1, <1>2 DEF BodyInv, BodyTypeOK

(* A body that is JSON stays a document under every route and policy: what *)
(* is removed, moved up, inserted and put back leaves each node its        *)
(* container and each array its numbering (rewrite_request_body).          *)
THEOREM BodyTypeOKHolds == RewriteSpec => []BodyTypeOK
BY BodyInvHolds, BodyFollows, PTL

-----------------------------------------------------------------------------
(* One event that is an object, before and after the batch is rewritten. *)
EventRewritten(d, policy, drawn, r, p) ==
    LET new == NewEvent(d, policy, drawn, p) IN
    /\ p \in EventData(d) /\ IsObj(Sub(d, p), << >>)
    /\ Grown(new) /\ EventIdentified(new, Sub(d, p))
    /\ policy.mode = "aggressive" => EventMasked(new, drawn[p])
    /\ \A x \in Paths :
        /\ p \o x \in DOMAIN r <=> x \in DOMAIN new
        /\ p \o x \in DOMAIN r =>
            \/ r[p \o x] = new[x]
            \/ Key(p \o x) \in TimestampKeys /\ IsString(new, x) /\ r[p \o x] = Canonical
            \/ Key(p \o x) \in TimestampKeys /\ IsNum(new, x) /\ r[p \o x] = Num(BuildMillis)

LEMMA BatchEvent ==
    ASSUME NEW d, Grown(d), NEW policy, NEW drawn \in [EventData(d) -> Metrics],
           NEW p \in EventData(RewriteEventBatch(d, policy, drawn)),
           NEW k \in Keys, k \notin Range(Index), p \o <<k>> \in DOMAIN RewriteEventBatch(d, policy, drawn)
    PROVE  EventRewritten(d, policy, drawn, RewriteEventBatch(d, policy, drawn), p)
<1> DEFINE r == RewriteEventBatch(d, policy, drawn)
           b == Rewritten(d, policy, drawn)
           new == NewEvent(d, policy, drawn, p)
<1>0. Document(d) /\ Grown(r) /\ p \in EventData(d) /\ (IsObj(r, p) <=> IsObj(d, p))
  BY BatchGrown DEF Grown
<1>1. EventsReplaced(b, d, policy, drawn) /\ Grown(Sub(d, p)) /\ Grown(new)
  BY <1>0, RewrittenIs
<1>2. p \in Paths /\ p \in DOMAIN d
  BY <1>0, EventDataIs
<1>3. IsObj(d, p)
  <2>1. IsObj(r, p)
    BY <1>0, <1>2, FieldOfObject
  <2> QED BY <1>0, <2>1
<1>4. IsObj(Sub(d, p), << >>)
  BY <1>0, <1>2, <1>3, RootOfEvent DEF IsObj
<1>5. EventIdentified(new, Sub(d, p)) /\ (policy.mode = "aggressive" => EventMasked(new, drawn[p]))
  <2>1. drawn[p] \in Metrics
    BY <1>0
  <2> QED BY <1>1, <1>4, <2>1, EventStep DEF NewEvent
<1>6. r = b \/ Timed(r, b)
  BY BatchIs, TimedIs
<1> HIDE DEF r, b, new
<1>7. ASSUME NEW x \in Paths
      PROVE  /\ p \o x \in DOMAIN r <=> x \in DOMAIN new
             /\ p \o x \in DOMAIN r =>
                    \/ r[p \o x] = new[x]
                    \/ Key(p \o x) \in TimestampKeys /\ IsString(new, x) /\ r[p \o x] = Canonical
                    \/ Key(p \o x) \in TimestampKeys /\ IsNum(new, x) /\ r[p \o x] = Num(BuildMillis)
  <2> DEFINE q == p \o x
  <2>1. q \in Paths /\ IsPrefix(p, q) /\ Rest(p, q) = x
    BY <1>2, ConcatIs
  <2> HIDE DEF q
  <2>2. (q \in DOMAIN b <=> x \in DOMAIN new) /\ (q \in DOMAIN b => b[q] = new[x])
    BY <1>0, <1>1, <2>1 DEF EventsReplaced, new
  <2>3. CASE r = b
    BY <2>2, <2>3 DEF q
  <2>4. CASE Timed(r, b)
    <3>1. DOMAIN r = DOMAIN b
      BY <2>4 DEF Timed
    <3>2. q \in DOMAIN b => ((IsString(b, q) <=> IsString(new, x)) /\ (IsNum(b, q) <=> IsNum(new, x)))
      BY <2>2 DEF IsString, IsNum
    <3> QED BY <2>2, <2>4, <3>1, <3>2 DEF Timed, q
  <2> QED BY <1>6, <2>3, <2>4
<1> QED BY <1>0, <1>1, <1>4, <1>5, <1>7 DEF EventRewritten, r, new

(* What one rewriting made of a body that is JSON. *)
RewrittenBody(r, drawn) ==
    /\ drawn \in Draws(request.body)
    /\ r = RewriteRoute(request.body, request.path, Policy, drawn)
    /\ out = PreserveFields(request.body, r, Policy.preserve)
    /\ Grown(r) /\ Grown(request.body) /\ Grown(out)
    /\ \A q \in Paths : ~PreservedByName(q) => Same(out, r, q)
    /\ \A q \in Paths : Same(out, r, q) \/ Same(out, request.body, q)
    /\ \A p, q \in Paths : IsPrefix(p, q) /\ ~PreservedByName(q) => ~PreservedByName(p)

LEMMA ForwardedIs ==
    ASSUME RewriteInv, Forwarded, Policy.mode # "passthrough"
    PROVE  \E drawn, r : RewrittenBody(r, drawn)
<1> DEFINE paths == Policy.preserve
           body == request.body
<1>1. paths \in Seq(Paths) /\ Policy.strip \in BOOLEAN
  BY PolicyIs
<1>2. Grown(body) /\ Document(body)
  BY RequestBodies DEF RewriteInv, Forwarded
<1>3. PICK drawn \in Draws(body) : out = RewriteRequestBody(body, request.path, option, drawn)
  BY DEF RewriteInv, Forwarded, Once
<1> DEFINE r == RewriteRoute(body, request.path, Policy, drawn)
<1>4. out = PreserveFields(body, r, paths)
  BY <1>3 DEF RewriteRequestBody, Forwarded, Policy
<1>5. Grown(r)
  BY <1>1, <1>2, RouteGrown
<1> HIDE DEF r
<1>6. Grown(out)
  BY <1>1, <1>2, <1>4, <1>5, PreserveFieldsGrown
<1>7. \A q : PreservedByName(q) <=> ~Unpreserved(paths, q)
  BY DEF PreservedByName, Unpreserved
<1>8. ASSUME NEW q \in Paths, Unpreserved(paths, q) PROVE Same(out, r, q)
  BY <1>1, <1>2, <1>4, <1>8, PreserveFieldsOutside DEF Unpreserved
<1>9. ASSUME NEW q \in Paths PROVE Same(out, r, q) \/ Same(out, body, q)
  BY <1>1, <1>2, <1>4, PreserveFieldsSame
<1>10. ASSUME NEW p \in Paths, NEW q \in Paths, IsPrefix(p, q), Unpreserved(paths, q) PROVE Unpreserved(paths, p)
  BY <1>1, <1>10, UnpreservedAbove
<1>11. RewrittenBody(r, drawn)
  BY <1>2, <1>3, <1>4, <1>5, <1>6, <1>7, <1>8, <1>9, <1>10 DEF RewrittenBody, r
<1> QED BY <1>11

LEMMA RouteIs ==
    ASSUME NEW d, NEW drawn
    PROVE  /\ Is("messages") => RewriteRoute(d, request.path, Policy, drawn) = RewriteMessagesBody(d, Policy, drawn.hash)
           /\ Is("batch") => RewriteRoute(d, request.path, Policy, drawn) = RewriteEventBatch(d, Policy, drawn.metrics)
           /\ Is("generic") => RewriteRoute(d, request.path, Policy, drawn) = RewriteEventIdentity(d)
           /\ Is("messages") => ~Is("batch") /\ ~Is("generic")
           /\ Is("batch") => ~Is("generic")
<1>1. ASSUME Is("messages") PROVE RewriteRoute(d, request.path, Policy, drawn) = RewriteMessagesBody(d, Policy, drawn.hash)
  BY <1>1 DEF RewriteRoute, Is
<1>2. ASSUME Is("batch") PROVE RewriteRoute(d, request.path, Policy, drawn) = RewriteEventBatch(d, Policy, drawn.metrics)
  <2>1. "messages" \notin request.path /\ request.path \cap {"messages", "batch"} = {"batch"}
    BY <1>2 DEF Is
  <2> QED BY <2>1 DEF RewriteRoute
<1>3. ASSUME Is("generic") PROVE RewriteRoute(d, request.path, Policy, drawn) = RewriteEventIdentity(d)
  <2>1. "messages" \notin request.path /\ request.path \cap {"messages", "batch"} # {"batch"} /\ request.path = {"generic"}
    BY <1>3 DEF Is
  <2> QED BY <2>1 DEF RewriteRoute
<1>4. /\ Is("messages") => ~Is("batch") /\ ~Is("generic")
      /\ Is("batch") => ~Is("generic")
  BY DEF Is
<1> QED BY <1>1, <1>2, <1>3, <1>4

(* Events are an array in what is forwarded only if the client's were one. *)
LEMMA EventsWereArray ==
    ASSUME NEW r, NEW drawn, RewrittenBody(r, drawn), Is("batch"), IsArr(out, Events)
    PROVE  IsArr(request.body, Events)
<1>1. Same(out, r, Events) \/ Same(out, request.body, Events)
  BY EventsPath DEF RewrittenBody
<1>2. IsArr(r, Events) <=> IsArr(request.body, Events)
  <2>1. r = RewriteEventBatch(request.body, Policy, drawn.metrics) /\ Grown(request.body)
        /\ drawn.metrics \in [EventData(request.body) -> Metrics]
    BY RouteIs DEF RewrittenBody, Draws
  <2> QED BY <2>1, BatchGrown
<1> QED BY <1>1, <1>2 DEF Same, IsArr

LEMMA NoClientTimestampFollows == RewriteInv => NoClientTimestamp
<1> SUFFICES ASSUME RewriteInv, Forwarded, Policy.mode # "passthrough", Policy.normalize, Is("batch"), IsArr(out, Events),
                    NEW q \in DOMAIN out \ {<< >>}, Key(q) \in TimestampKeys, IsString(out, q) \/ IsNum(out, q),
                    ~PreservedByName(q)
             PROVE  out[q] \in {Canonical, Num(BuildMillis)}
  BY DEF NoClientTimestamp, Events
<1>1. PICK drawn, r : RewrittenBody(r, drawn)
  BY ForwardedIs
<1> DEFINE b == Rewritten(request.body, Policy, drawn.metrics)
<1>2. Timed(r, b)
  <2>1. r = RewriteEventBatch(request.body, Policy, drawn.metrics)
    BY <1>1, RouteIs DEF RewrittenBody
  <2>2. IsArr(request.body, Events)
    BY <1>1, EventsWereArray
  <2> QED BY <2>1, <2>2, BatchIs, TimedIs
<1> HIDE DEF b
<1>3. q \in Paths
  BY <1>1 DEF RewrittenBody, Grown, Document
<1>4. q \in DOMAIN r /\ out[q] = r[q]
  BY <1>1, <1>3 DEF RewrittenBody, Same
<1>5. CASE r[q] = b[q]
  <2>1. q \in DOMAIN b /\ (IsString(b, q) \/ IsNum(b, q))
    BY <1>2, <1>4, <1>5 DEF Timed, IsString, IsNum
  <2> QED BY <1>2, <1>4, <2>1 DEF Timed
<1>6. CASE r[q] \in {Canonical, Num(BuildMillis)}
  BY <1>4, <1>6
<1> QED BY <1>2, <1>4, <1>5, <1>6 DEF Timed

(* No time of the client is left in a batch whose timestamps are           *)
(* normalised (normalize_timestamps), for every body and every policy.     *)
THEOREM NoClientTimestampHolds == RewriteSpec => []NoClientTimestamp
BY RewriteInvHolds, NoClientTimestampFollows, PTL

(* An event that preserve_fields does not name was one before. *)
LEMMA EventUnpreserved ==
    ASSUME NEW r, NEW drawn, RewrittenBody(r, drawn), NEW p \in EventData(out), ~PreservedByName(p)
    PROVE  p \in EventData(r)
<1>0. Grown(out) /\ Grown(r) /\ Document(r)
  BY DEF RewrittenBody, Grown
<1>1. p \in Paths /\ p \in DOMAIN out /\ IsArr(out, Events)
  BY <1>0, EventDataIs
<1>2. PICK k \in Keys : p = (Events \o <<k>>) \o <<"event_data">>
  BY <1>0, EventDataIs
<1>3. /\ Events \o <<k>> \in Paths /\ IsPrefix(Events \o <<k>>, p) /\ Events \o <<k>> # p
      /\ Events \in Paths /\ IsPrefix(Events, Events \o <<k>>)
  BY <1>2, EventPath, EventsPath, ChildIs
<1>4. ~PreservedByName(Events \o <<k>>) /\ ~PreservedByName(Events)
  BY <1>1, <1>3 DEF RewrittenBody
<1>5. Same(out, r, Events) /\ Same(out, r, Events \o <<k>>) /\ Same(out, r, p)
  BY <1>1, <1>3, <1>4 DEF RewrittenBody
<1>6. Events \o <<k>> \in DOMAIN out
  BY <1>0, <1>1, <1>3, GrownAbove
<1>7. Events \o <<k>> \in DOMAIN r /\ p \in DOMAIN r /\ IsArr(r, Events)
  BY <1>1, <1>5, <1>6 DEF Same, IsArr
<1> QED BY <1>0, <1>2, <1>7, EventDataOf

(* A field of an event that preserve_fields does not name. *)
LEMMA EventField ==
    ASSUME NEW r, NEW drawn, RewrittenBody(r, drawn), Is("batch"), NEW p \in EventData(out),
           NEW k \in FieldKeys \ TimestampKeys, p \o <<k>> \in DOMAIN out, ~PreservedByName(p \o <<k>>)
    PROVE  /\ EventRewritten(request.body, Policy, drawn.metrics, r, p) /\ p \in Paths
           /\ p \o <<k>> \in Paths /\ Same(out, r, p \o <<k>>)
<1>0. Grown(out) /\ Grown(r) /\ Grown(request.body) /\ drawn.metrics \in [EventData(request.body) -> Metrics]
  BY DEF RewrittenBody, Draws
<1>1. k \in Keys /\ k \notin Range(Index)
  BY KnownKeys, FieldsAre
<1>2. p \in Paths
  BY <1>0, EventDataIs
<1>3. p \o <<k>> \in Paths /\ IsPrefix(p, p \o <<k>>)
  BY <1>1, <1>2, ChildIs
<1>4. ~PreservedByName(p) /\ Same(out, r, p \o <<k>>)
  BY <1>2, <1>3 DEF RewrittenBody
<1>5. p \in EventData(r) /\ p \o <<k>> \in DOMAIN r
  BY <1>4, EventUnpreserved DEF Same
<1>6. r = RewriteEventBatch(request.body, Policy, drawn.metrics)
  BY RouteIs DEF RewrittenBody
<1> QED BY <1>0, <1>1, <1>2, <1>3, <1>4, <1>5, <1>6, BatchEvent

-----------------------------------------------------------------------------
(* What aggressive mode leaves of an event. *)

LEMMA MaskedIs ==
    ASSUME NEW n \in InRange(RssRange)
    PROVE  MaskedRss(Num(n))
<1> DEFINE a == RssRange[1]
           b == RssRange[2]
           T == {a, b}
<1>1. a \in Nat /\ b \in Nat
  BY RangeAssumption
<1>2. Max(T) \in T /\ \A x \in T : Max(T) >= x
  <2>1. \E m \in T : \A x \in T : m >= x
    BY <1>1
  <2> QED BY <2>1 DEF Max
<1> HIDE DEF T
<1>3. n \in a .. Max(T)
  <2>1. Max(T) \in Nat /\ Max(T) >= a /\ Max(T) >= b
    BY <1>1, <1>2 DEF T
  <2>2. n = a \/ (n \in a .. b - 1)
    BY DEF InRange
  <2> QED BY <1>1, <2>1, <2>2
<1> QED BY <1>3, NumIs DEF MaskedRss, T

(* A field below a field. *)
LEMMA PathBelow ==
    ASSUME NEW p \in Paths, NEW k \in Keys, NEW q \in Paths, IsPrefix(p \o <<k>>, q)
    PROVE  \E x \in Paths : x # << >> /\ x[1] = k /\ q = p \o x
<1>1. p \o <<k>> \in Paths /\ <<k>> \in Paths
  BY ChildIs, FirstKey
<1>2. Rest(p \o <<k>>, q) \in Paths /\ (p \o <<k>>) \o Rest(p \o <<k>>, q) = q
  BY <1>1, RestIs
<1> DEFINE y == Rest(p \o <<k>>, q)
<1>3. y \in Paths /\ (p \o <<k>>) \o y = q
  BY <1>2
<1> HIDE DEF y
<1>4. q = p \o (<<k>> \o y)
  BY <1>1, <1>3, PathsAssociate
<1> QED BY <1>3, <1>4, FirstKey

LEMMA EnvFollows ==
    ASSUME RewriteInv, Aggressively, Is("batch"), NEW p \in EventData(out),
           NEW q \in Below(out, p \o <<"env">>), ~PreservedByName(q)
    PROVE  out[q] \in {Obj, Canonical}
<1>1. PICK drawn, r : RewrittenBody(r, drawn)
  BY ForwardedIs DEF Aggressively
<1>2. q \in DOMAIN out /\ IsPrefix(p \o <<"env">>, q) /\ q \in Paths
  BY <1>1 DEF Below, RewrittenBody, Grown, Document
<1>3. p \in Paths /\ "env" \in Keys
  BY <1>1, EventDataIs, KnownKeys DEF RewrittenBody
<1>4. p \o <<"env">> \in Paths
  BY <1>3, ChildIs
<1>5. p \o <<"env">> \in DOMAIN out /\ ~PreservedByName(p \o <<"env">>)
  <2>1. p \o <<"env">> \in DOMAIN out
    BY <1>1, <1>2, <1>4, GrownAbove DEF RewrittenBody
  <2> QED BY <1>1, <1>2, <1>4, <2>1 DEF RewrittenBody
<1>6. "env" \in FieldKeys \ TimestampKeys
  BY DEF FieldKeys, TimestampKeys
<1>7. EventRewritten(request.body, Policy, drawn.metrics, r, p)
  BY <1>1, <1>5, <1>6, EventField
<1>8. PICK x \in Paths : x # << >> /\ x[1] = "env" /\ q = p \o x
  BY <1>2, <1>3, PathBelow
<1>9. Same(out, r, q)
  BY <1>1, <1>2 DEF RewrittenBody
<1> DEFINE new == NewEvent(request.body, Policy, drawn.metrics, p)
<1>10. /\ x \in DOMAIN new
       /\ r[q] = new[x] \/ r[q] = Canonical \/ (IsNum(new, x) /\ r[q] = Num(BuildMillis))
  BY <1>2, <1>7, <1>8, <1>9 DEF EventRewritten, Same
<1>11. EventMasked(new, drawn.metrics[p])
  BY <1>7 DEF EventRewritten, Aggressively
<1>12. new[x] \in {Obj, Canonical}
  BY <1>8, <1>10, <1>11 DEF EventMasked
<1>13. ~IsNum(new, x)
  BY <1>12 DEF IsNum, Obj, Canonical, Str
<1> QED BY <1>2, <1>9, <1>10, <1>12, <1>13 DEF Same

LEMMA ProcessKeys == {"process", "rss"} \subseteq Keys /\ "process" \in FieldKeys \ TimestampKeys /\ "rss" \notin TimestampKeys
BY KnownKeys DEF FieldKeys, TimestampKeys

LEMMA ProcessFollows ==
    ASSUME RewriteInv, Aggressively, Is("batch"), NEW p \in EventData(out)
    PROVE  LET process == p \o <<"process">>
               rss == process \o <<"rss">>
           IN  /\ IsObj(out, process) /\ ~PreservedByName(rss) => MaskedRss(out[rss])
               /\ EncodesObj(out, process, "base64") /\ ~PreservedByName(process) => MaskedRss(out[process].doc[<<"rss">>])
<1> DEFINE process == p \o <<"process">>
           rss == process \o <<"rss">>
<1>1. PICK drawn, r : RewrittenBody(r, drawn)
  BY ForwardedIs DEF Aggressively
<1> DEFINE new == NewEvent(request.body, Policy, drawn.metrics, p)
<1>2. p \in Paths /\ {"process", "rss"} \subseteq Keys
  BY <1>1, EventDataIs, ProcessKeys DEF RewrittenBody
<1>3. <<"process">> \in Paths /\ <<"process">> \o <<"rss">> \in Paths /\ <<"rss">> \in Paths
  BY <1>2, FirstKey, ChildIs
<1>4. process \in Paths /\ rss \in Paths /\ IsPrefix(process, rss) /\ Key(process) = "process" /\ Key(rss) = "rss"
      /\ IsPrefix(p, process)
  BY <1>2, ChildIs
<1>5. rss = p \o (<<"process">> \o <<"rss">>)
  BY <1>2, <1>3, PathsAssociate
<1>6. ASSUME process \in DOMAIN out, ~PreservedByName(process)
      PROVE  /\ EventRewritten(request.body, Policy, drawn.metrics, r, p) /\ Same(out, r, process)
             /\ <<"process">> \in DOMAIN new /\ r[process] = new[<<"process">>]
             /\ EventMasked(new, drawn.metrics[p]) /\ drawn.metrics[p].rss \in InRange(RssRange)
  <2>1. EventRewritten(request.body, Policy, drawn.metrics, r, p) /\ Same(out, r, process)
    BY <1>1, <1>6, EventField, ProcessKeys
  <2>2. process \in DOMAIN r
    BY <1>6, <2>1 DEF Same
  <2>3. Key(process) \notin TimestampKeys
    BY <1>4, ProcessKeys
  <2>4. <<"process">> \in DOMAIN new /\ r[process] = new[<<"process">>]
    BY <1>3, <2>1, <2>2, <2>3 DEF EventRewritten
  <2>5. EventMasked(new, drawn.metrics[p])
    BY <2>1 DEF EventRewritten, Aggressively
  <2>6. drawn.metrics[p] \in Metrics
    BY <1>1, <2>1 DEF RewrittenBody, Draws, EventRewritten
  <2> QED BY <2>1, <2>4, <2>5, <2>6 DEF Metrics
<1> HIDE DEF process, rss, new
<1>7. ASSUME IsObj(out, process), ~PreservedByName(rss) PROVE MaskedRss(out[rss])
  <2>1. process \in DOMAIN out /\ ~PreservedByName(process)
    BY <1>1, <1>4, <1>7 DEF RewrittenBody, IsObj
  <2>2. /\ EventRewritten(request.body, Policy, drawn.metrics, r, p) /\ Same(out, r, process)
        /\ <<"process">> \in DOMAIN new /\ r[process] = new[<<"process">>]
        /\ EventMasked(new, drawn.metrics[p]) /\ drawn.metrics[p].rss \in InRange(RssRange)
    BY <1>6, <2>1
  <2>3. IsObj(new, <<"process">>)
    BY <1>7, <2>1, <2>2 DEF IsObj, Same
  <2> DEFINE x == <<"process">> \o <<"rss">>
  <2>4. x \in DOMAIN new /\ new[x] = Num(drawn.metrics[p].rss)
    BY <2>2, <2>3 DEF EventMasked
  <2>5. Key(rss) \notin TimestampKeys /\ rss = p \o x /\ x \in Paths
    BY <1>3, <1>4, <1>5, ProcessKeys
  <2> HIDE DEF x
  <2>6. rss \in DOMAIN r /\ r[rss] = new[x]
    BY <2>2, <2>4, <2>5 DEF EventRewritten, new
  <2>7. Same(out, r, rss)
    BY <1>1, <1>4, <1>7 DEF RewrittenBody
  <2>8. out[rss] = Num(drawn.metrics[p].rss)
    BY <2>4, <2>6, <2>7 DEF Same
  <2> QED BY <2>2, <2>8, MaskedIs
<1>8. ASSUME EncodesObj(out, process, "base64"), ~PreservedByName(process) PROVE MaskedRss(out[process].doc[<<"rss">>])
  <2>1. process \in DOMAIN out
    BY <1>8 DEF EncodesObj, Encodes
  <2>2. /\ Same(out, r, process)
        /\ <<"process">> \in DOMAIN new /\ r[process] = new[<<"process">>]
        /\ EventMasked(new, drawn.metrics[p]) /\ drawn.metrics[p].rss \in InRange(RssRange)
    BY <1>6, <1>8, <2>1
  <2>3. out[process] = new[<<"process">>]
    BY <2>1, <2>2 DEF Same
  <2>4. EncodesObj(new, <<"process">>, "base64")
    BY <1>8, <2>2, <2>3 DEF EncodesObj, Encodes, IsObj
  <2>5. out[process].doc[<<"rss">>] = Num(drawn.metrics[p].rss)
    BY <2>2, <2>3, <2>4 DEF EventMasked
  <2> QED BY <2>2, <2>5, MaskedIs
<1> QED BY <1>7, <1>8 DEF process, rss

LEMMA EventsFollow == RewriteInv => EventsAreCanonical
BY EnvFollows, ProcessFollows DEF EventsAreCanonical

(* No key or value of the client's environment outlives aggressive mode,   *)
(* and the process reports what the configured ranges allow                *)
(* (rewrite_event_env, rewrite_event_process), for every body and every    *)
(* draw of random_in_range.                                                *)
THEOREM EventsAreCanonicalHolds == RewriteSpec => []EventsAreCanonical
BY RewriteInvHolds, EventsFollow, PTL

LEMMA InsertDocument ==
    ASSUME NEW d, Document(d), NEW fields, DOMAIN fields \subseteq Keys
    PROVE  Document(Insert(d, << >>, fields))
<1> DEFINE new == [q \in {<< >> \o <<key>> : key \in DOMAIN fields} |-> Leaf(fields[Key(q)])]
<1>1. Insert(d, << >>, fields) = PutAll(d, new)
  BY DEF Insert
<1>2. ASSUME NEW q \in DOMAIN new PROVE q \in Paths /\ Document(new[q])
  <2>1. PICK k \in DOMAIN fields : q = << >> \o <<k>>
    OBVIOUS
  <2>2. q \in Paths
    BY <2>1, FirstKey
  <2>3. new[q] = Leaf(fields[Key(q)])
    OBVIOUS
  <2> HIDE DEF new
  <2> QED BY <2>2, <2>3, LeafIs
<1> HIDE DEF new
<1> QED BY <1>1, <1>2, PutAllDocument DEF Placed

(* metadata.user_id, after rewrite_messages_metadata. *)
LEMMA UserIdIs ==
    ASSUME NEW d, Grown(d),
           EncodesObj(d, <<"metadata", "user_id">>, "json") => Document(d[<<"metadata", "user_id">>].doc)
    PROVE  LET id == <<"metadata", "user_id">>
               e == RewriteMessagesMetadata(d)
           IN  EncodesObj(e, id, "json") =>
                    /\ Document(e[id].doc)
                    /\ \A k \in IdKeys : <<k>> \in DOMAIN e[id].doc => e[id].doc[<<k>>] = Canonical
<1> DEFINE id == <<"metadata", "user_id">>
           e == RewriteMessagesMetadata(d)
           user == d[id].doc
           set == (IdKeys \ {"email"}) \cup {k \in {"email"} : <<k>> \in DOMAIN user}
           fields == [k \in set |-> Canonical]
           i == Insert(user, << >>, fields)
<1> SUFFICES ASSUME EncodesObj(e, id, "json")
             PROVE  /\ Document(e[id].doc)
                    /\ \A k \in IdKeys : <<k>> \in DOMAIN e[id].doc => e[id].doc[<<k>>] = Canonical
  OBVIOUS
<1>1. id \in DOMAIN d
  <2>1. DOMAIN e = DOMAIN d
    BY MetadataIs
  <2> QED BY <2>1 DEF EncodesObj, Encodes
<1>2. {"metadata", "user_id"} \subseteq Keys /\ "user_id" \notin Range(Index)
  BY KnownKeys, FieldsAre DEF FieldKeys
<1>3. IsObj(d, <<"metadata">>)
  <2>1. id = <<"metadata">> \o <<"user_id">>
    OBVIOUS
  <2>2. <<"metadata">> \in Paths
    BY <1>2, Few
  <2> QED BY <1>1, <1>2, <2>1, <2>2, FieldOfObject
<1>4. EncodesObj(d, id, "json")
  <2>1. ASSUME ~EncodesObj(d, id, "json") PROVE FALSE
    <3>1. e = d
      BY <2>1 DEF RewriteMessagesMetadata
    <3> QED BY <2>1, <3>1
  <2> QED BY <2>1
<1>5. e = [d EXCEPT ![id] = Enc("json", i)]
  BY <1>3, <1>4 DEF RewriteMessagesMetadata
<1> HIDE DEF e, i
<1>6. e[id].doc = i
  BY <1>1, <1>5 DEF Enc
<1>7. DOMAIN fields = set /\ set \subseteq Keys /\ << >> \in Paths /\ \A j \in set : fields[j] = Canonical
  BY KnownKeys, EmptySeq DEF IdKeys, Paths
<1> HIDE DEF fields
<1>8. Inserted(i, user, << >>, fields)
  BY <1>7, InsertIs DEF i
<1>9. Document(i)
  BY <1>4, <1>7, InsertDocument DEF i
<1>10. ASSUME NEW k \in IdKeys, <<k>> \in DOMAIN e[id].doc PROVE e[id].doc[<<k>>] = Canonical
  <2>1. k \in Keys /\ << >> \o <<k>> = <<k>>
    BY KnownKeys, FirstKey
  <2>2. CASE k \in set
    BY <1>6, <1>7, <1>8, <2>1, <2>2 DEF Inserted
  <2>3. CASE k \notin set
    <3>1. <<k>> \notin DOMAIN user
      BY <2>3 DEF IdKeys
    <3>2. ASSUME NEW j \in set, IsPrefix(<<j>>, <<k>>) PROVE FALSE
      <4>1. j \in Keys /\ <<k>> \in Paths /\ <<k>>[1] = k
        BY <1>7, <2>1, FirstKey
      <4>2. k = j
        BY <3>2, <4>1, FirstKey
      <4> QED BY <2>3, <4>2
    <3>3. \A j \in set : << >> \o <<j>> = <<j>>
      BY <1>7, FirstKey
    <3>4. Same(i, user, <<k>>)
      BY <1>7, <1>8, <2>1, <3>2, <3>3, FirstKey DEF Inserted
    <3> QED BY <1>6, <1>10, <3>1, <3>4 DEF Same
  <2> QED BY <2>2, <2>3
<1> QED BY <1>6, <1>9, <1>10

-----------------------------------------------------------------------------
(* Outside the system prompt the messages are as they are after their      *)
(* metadata and, in aggressive mode, their reminders are rewritten.        *)
LEMMA MessagesOutside ==
    ASSUME NEW d, Document(d), IsFiniteSet(DOMAIN d), NEW policy, policy.strip \in BOOLEAN, NEW fallback,
           NEW q \in Paths, ~IsPrefix(System, q)
    PROVE  LET e == RewriteMessagesBody(d, policy, fallback) IN
           /\ policy.mode = "aggressive" => Same(e, Reminded(d), q)
           /\ policy.mode # "aggressive" => Same(e, RewriteMessagesMetadata(d), q)
<1> DEFINE e == RewriteMessagesBody(d, policy, fallback)
           m == RewriteMessagesMetadata(d)
<1>1. Document(m) /\ IsFiniteSet(DOMAIN m)
  BY MetadataIs DEF Document
<1>2. CASE policy.mode = "aggressive"
  <2>1. e = RewriteSystemBody(Reminded(d), BillingHash(d, fallback), policy.strip)
    BY <1>2, AggressiveBody
  <2>2. Document(Reminded(d)) /\ IsFiniteSet(DOMAIN Reminded(d))
    BY RemindedIs
  <2> HIDE DEF e
  <2>3. Same(e, Reminded(d), q)
    BY <2>1, <2>2, RewriteSystemOutside
  <2> QED BY <1>2, <2>3 DEF e
<1>3. CASE policy.mode # "aggressive"
  <2>1. e = IF policy.strip THEN StripBillingHeader(m) ELSE m
    BY <1>3 DEF RewriteMessagesBody
  <2> HIDE DEF e, m
  <2>2. Same(StripBillingHeader(m), m, q)
    BY <1>1, StripOutside
  <2> QED BY <1>3, <2>1, <2>2 DEF Same, e, m
<1> QED BY <1>2, <1>3

LEMMA NotClient == Canonical # Str("client")
BY DEF Canonical, Str

(* The identity in a message. *)
LEMMA MessageIdentity ==
    ASSUME RewriteInv, NEW r, NEW drawn, RewrittenBody(r, drawn), Is("messages"),
           EncodesObj(out, <<"metadata", "user_id">>, "json"), ~PreservedByName(<<"metadata", "user_id">>),
           NEW x \in DOMAIN out[<<"metadata", "user_id">>].doc, Len(x) = 1, Key(x) \in IdKeys
    PROVE  out[<<"metadata", "user_id">>].doc[x] # Str("client")
<1> DEFINE id == <<"metadata", "user_id">>
           d == request.body
           m == RewriteMessagesMetadata(d)
<1>1. id \in Paths /\ ~IsPrefix(System, id)
  <2>1. id = <<"metadata">> \o <<"user_id">>
    OBVIOUS
  <2>2. {"metadata", "user_id"} \subseteq Keys
    BY KnownKeys
  <2>3. id \in Paths /\ id[1] = "metadata"
    <3>1. <<"metadata">> \in Paths
      BY <2>2, FirstKey
    <3>2. id \in Paths
      BY <2>1, <2>2, <3>1, ChildIs
    <3> QED BY <3>2
  <2> HIDE DEF id
  <2> QED BY <2>3, SystemPath
<1>2. Grown(d) /\ Document(d) /\ IsFiniteSet(DOMAIN d) /\ Policy.strip \in BOOLEAN
  BY PolicyIs DEF RewrittenBody
<1>3. r = RewriteMessagesBody(d, Policy, drawn.hash)
  BY RouteIs DEF RewrittenBody
<1>4. Same(out, r, id)
  BY <1>1 DEF RewrittenBody
<1>5. EncodesObj(r, id, "json") /\ out[id] = r[id]
  BY <1>4 DEF Same, EncodesObj, Encodes
<1> HIDE DEF id
<1>6. Same(r, m, id)
  <2>1. CASE Policy.mode = "aggressive"
    <3>1. Same(r, Reminded(d), id)
      BY <1>1, <1>2, <1>3, <2>1, MessagesOutside
    <3>2. Retexted(m, Reminded(d))
      BY <1>2, RemindedGrown
    <3>3. id \in DOMAIN r /\ "coding" \in DOMAIN r[id]
      BY <1>5 DEF EncodesObj, Encodes
    <3>4. \A t : "coding" \notin DOMAIN Text(t)
      BY DEF Text
    <3> QED BY <3>1, <3>2, <3>3, <3>4 DEF Retexted, Same
  <2>2. CASE Policy.mode # "aggressive"
    BY <1>1, <1>2, <1>3, <2>2, MessagesOutside
  <2> QED BY <2>1, <2>2
<1>7. EncodesObj(m, id, "json") /\ out[id] = m[id]
  BY <1>5, <1>6 DEF Same, EncodesObj, Encodes
<1>8. ASSUME EncodesObj(d, id, "json") PROVE Document(d[id].doc)
  <2>1. id \in DOMAIN d /\ "coding" \in DOMAIN d[id]
    BY <1>8 DEF EncodesObj, Encodes
  <2>2. DOMAIN d[id].doc \subseteq Seq(STRING)
    BY <2>1, ClientRequestsAssumption DEF RewriteInv
  <2> QED BY <2>2, PathsAre DEF Document
<1>9. Document(m[id].doc) /\ \A k \in IdKeys : <<k>> \in DOMAIN m[id].doc => m[id].doc[<<k>>] = Canonical
  BY <1>2, <1>7, <1>8, UserIdIs DEF id
<1>10. x \in Paths /\ x # << >>
  <2>1. x \in Paths
    BY <1>7, <1>9 DEF Document, id
  <2>2. Len(<< >>) = 0 /\ Len(x) # 0
    OBVIOUS
  <2> QED BY <2>1, <2>2
<1>11. x = <<Key(x)>>
  <2>1. Key(x) \in Keys /\ x = Front(x) \o <<Key(x)>> /\ Front(x) \in Paths /\ Len(Front(x)) = 0
    BY <1>10, FrontIs
  <2>2. Front(x) = << >>
    BY <2>1, EmptySeq DEF Paths
  <2> QED BY <2>1, <2>2, FirstKey
<1> QED BY <1>7, <1>9, <1>11, NotClient DEF id

LEMMA DroppedEmpty ==
    ASSUME NEW d, d = << >>
    PROVE  DOMAIN RewriteRecursiveIdentity(DropGatewayKeys(d)) = {}
<1> DEFINE e == DropGatewayKeys(d)
           new == [q \in {x \in IdPaths(e) : \A p \in IdPaths(e) : ~IsStrictPrefix(p, x)} |-> Leaf(Canonical)]
<1>1. DOMAIN e = {}
  <2>1. DOMAIN d = {}
    OBVIOUS
  <2> QED BY <2>1 DEF DropGatewayKeys
<1> HIDE DEF e
<1>2. IdPaths(e) = {}
  BY <1>1 DEF IdPaths
<1>3. DOMAIN new = {}
  BY <1>2
<1>4. RewriteRecursiveIdentity(e) = PutAll(e, new)
  BY DEF RewriteRecursiveIdentity, Canonicalize
<1> HIDE DEF new
<1>5. DOMAIN PutAll(e, new) = {}
  BY <1>1, <1>3 DEF PutAll
<1> QED BY <1>4, <1>5 DEF e

(* The identity in an event: in its fields, and at any depth of its        *)
(* additional_metadata.                                                    *)
LEMMA EventIdentity ==
    ASSUME RewriteInv, NEW r, NEW drawn, RewrittenBody(r, drawn), Is("batch"), NEW p \in EventData(out),
           NEW k \in IdKeys, p \o <<k>> \in DOMAIN out, ~PreservedByName(p \o <<k>>)
    PROVE  out[p \o <<k>>] # Str("client")
<1> DEFINE d == request.body
           new == NewEvent(d, Policy, drawn.metrics, p)
<1>1. k \in FieldKeys \ TimestampKeys /\ k \in Keys
  BY KnownKeys DEF FieldKeys
<1>2. EventRewritten(d, Policy, drawn.metrics, r, p) /\ p \in Paths /\ Same(out, r, p \o <<k>>)
  BY <1>1, EventField
<1>3. <<k>> \in Paths /\ Key(p \o <<k>>) = k /\ k \notin TimestampKeys
  BY <1>1, <1>2, FirstKey, ChildIs
<1>4. p \o <<k>> \in DOMAIN r /\ out[p \o <<k>>] = r[p \o <<k>>]
  BY <1>2 DEF Same
<1>5. <<k>> \in DOMAIN new /\ r[p \o <<k>>] = new[<<k>>] /\ EventIdentified(new, Sub(d, p))
  BY <1>2, <1>3, <1>4 DEF EventRewritten
<1>6. new[<<k>>] = Canonical
  BY <1>5 DEF EventIdentified
<1> QED BY <1>4, <1>5, <1>6, NotClient

LEMMA MetadataDocument ==
    ASSUME RewriteInv, NEW p \in EventData(request.body), Grown(request.body),
           Encodes(Sub(request.body, p), <<"additional_metadata">>, "base64")
    PROVE  LET doc == Sub(request.body, p)[<<"additional_metadata">>].doc IN doc = << >> \/ Grown(doc)
<1> DEFINE d == request.body
           meta == <<"additional_metadata">>
           q == p \o meta
<1>1. p \in Paths /\ meta \in Paths
  BY EventDataIs, KnownKeys, FirstKey
<1>2. q \in Paths /\ IsPrefix(p, q) /\ Rest(p, q) = meta
  BY <1>1, ConcatIs
<1>3. Document(d) /\ meta \in DOMAIN Sub(d, p) /\ "coding" \in DOMAIN Sub(d, p)[meta]
  BY DEF Grown, Encodes
<1> HIDE DEF q, meta
<1>4. q \in DOMAIN d /\ Sub(d, p)[meta] = d[q]
  BY <1>1, <1>2, <1>3, SubIs
<1>5. Document(d[q].doc) /\ IsDocument(d[q].doc)
  <2>1. IsDocument(d[q].doc) /\ DOMAIN d[q].doc \subseteq Seq(STRING)
    BY <1>3, <1>4, ClientRequestsAssumption DEF RewriteInv
  <2> QED BY <2>1, PathsAre DEF Document
<1> QED BY <1>4, <1>5, EmptyIs DEF meta

LEMMA MetadataIdentity ==
    ASSUME RewriteInv, NEW r, NEW drawn, RewrittenBody(r, drawn), Is("batch"), NEW p \in EventData(out),
           Encodes(out, p \o <<"additional_metadata">>, "base64"), ~PreservedByName(p \o <<"additional_metadata">>),
           NEW x \in DOMAIN out[p \o <<"additional_metadata">>].doc \ {<< >>}, Key(x) \in IdKeys
    PROVE  out[p \o <<"additional_metadata">>].doc[x] # Str("client")
<1> DEFINE d == request.body
           meta == <<"additional_metadata">>
           q == p \o meta
           new == NewEvent(d, Policy, drawn.metrics, p)
           old == Sub(d, p)[meta].doc
<1>0. Grown(d)
  BY DEF RewrittenBody
<1>1. "additional_metadata" \in FieldKeys \ TimestampKeys /\ "additional_metadata" \in Keys /\ q \in DOMAIN out
  BY KnownKeys DEF FieldKeys, TimestampKeys, Encodes
<1>2. EventRewritten(d, Policy, drawn.metrics, r, p) /\ p \in Paths /\ Same(out, r, q)
  BY <1>1, EventField
<1>3. meta \in Paths /\ Key(q) = "additional_metadata" /\ Key(q) \notin TimestampKeys
  BY <1>1, <1>2, FirstKey, ChildIs
<1> HIDE DEF meta
<1>4. q \in DOMAIN r /\ out[q] = r[q]
  BY <1>1, <1>2 DEF Same
<1>5. meta \in DOMAIN new /\ r[q] = new[meta] /\ EventIdentified(new, Sub(d, p)) /\ p \in EventData(d)
  BY <1>2, <1>3, <1>4 DEF EventRewritten
<1>6. Encodes(new, meta, "base64")
  BY <1>4, <1>5 DEF Encodes, meta
<1>7. Encodes(Sub(d, p), meta, "base64") /\ new[meta].doc = RewriteRecursiveIdentity(DropGatewayKeys(old))
  BY <1>5, <1>6 DEF EventIdentified, meta
<1>8. old = << >> \/ Grown(old)
  BY <1>0, <1>5, <1>7, MetadataDocument DEF meta
<1> HIDE DEF old, new
<1> DEFINE e == RewriteRecursiveIdentity(DropGatewayKeys(old))
<1>9. out[q].doc = e
  BY <1>4, <1>5, <1>7
<1>10. x \in DOMAIN e \ {<< >>}
  BY <1>9 DEF meta
<1>11. CASE old = << >>
  BY <1>10, <1>11, DroppedEmpty
<1>12. CASE Grown(old)
  <2>1. Grown(DropGatewayKeys(old))
    BY <1>12, DropStep
  <2> HIDE DEF e
  <2>2. e[x] = Canonical
    BY <1>10, <2>1, RecursiveIdentityIs DEF e
  <2> QED BY <1>9, <2>2, NotClient DEF meta
<1> QED BY <1>8, <1>11, <1>12

(* The identity in a generic body. *)
LEMMA GenericIdentity ==
    ASSUME NEW r, NEW drawn, RewrittenBody(r, drawn), Is("generic"),
           NEW k \in IdKeys, <<k>> \in DOMAIN out, ~PreservedByName(<<k>>)
    PROVE  out[<<k>>] # Str("client")
<1>1. <<k>> \in Paths
  BY KnownKeys, FirstKey
<1>2. Same(out, r, <<k>>) /\ r = RewriteEventIdentity(request.body) /\ Grown(request.body)
  BY <1>1, RouteIs DEF RewrittenBody
<1>3. <<k>> \in DOMAIN r => r[<<k>>] = Canonical
  BY <1>2, IdentityStep
<1> QED BY <1>2, <1>3, NotClient DEF Same

LEMMA IdentityFollows == RewriteInv => IdentityIsCanonical
<1> SUFFICES ASSUME RewriteInv, Forwarded, Policy.mode # "passthrough", NEW q \in LeakedIds, ~PreservedByName(q)
             PROVE  FALSE
  BY DEF IdentityIsCanonical
<1>1. PICK drawn, r : RewrittenBody(r, drawn)
  BY ForwardedIs
<1>2. q \in DOMAIN out /\ q # << >> /\ q \in Paths
  BY <1>1 DEF LeakedIds, RewrittenBody, Grown, Document
<1> DEFINE p == Front(q)
           k == Key(q)
<1>3. q = p \o <<k>>
  BY <1>2, FrontIs
<1> HIDE DEF p, k
<1>4. CASE p \in IdObjects /\ k \in IdKeys /\ out[q] = Str("client")
  <2>1. CASE Is("batch")
    <3>1. p \in EventData(out)
      BY <1>4, <2>1, RouteIs DEF IdObjects
    <3> QED BY <1>1, <1>2, <1>3, <1>4, <2>1, <3>1, EventIdentity
  <2>2. CASE ~Is("batch") /\ Is("generic")
    <3>1. p = << >>
      BY <1>4, <2>2 DEF IdObjects
    <3>2. q = <<k>>
      BY <1>3, <1>4, <3>1, KnownKeys, FirstKey
    <3> QED BY <1>1, <1>2, <1>4, <2>2, <3>2, GenericIdentity
  <2>3. CASE ~Is("batch") /\ ~Is("generic")
    BY <1>4, <2>3 DEF IdObjects
  <2> QED BY <2>1, <2>2, <2>3
<1>5. CASE /\ EncodedIds(q)
           /\ \E x \in DOMAIN out[q].doc \ {<< >>} :
                /\ Len(x) = 1 \/ Is("batch")
                /\ Key(x) \in IdKeys
                /\ out[q].doc[x] = Str("client")
  <2>1. PICK x \in DOMAIN out[q].doc \ {<< >>} :
                /\ Len(x) = 1 \/ Is("batch")
                /\ Key(x) \in IdKeys
                /\ out[q].doc[x] = Str("client")
    BY <1>5
  <2>2. CASE Is("messages") /\ q = <<"metadata", "user_id">> /\ EncodesObj(out, q, "json")
    <3>1. Len(x) = 1
      BY <2>1, <2>2, RouteIs
    <3> QED BY <1>1, <2>1, <2>2, <3>1, MessageIdentity
  <2>3. CASE Is("batch") /\ p \in EventData(out) /\ k = "additional_metadata" /\ Encodes(out, q, "base64")
    BY <1>1, <1>3, <2>1, <2>3, MetadataIdentity
  <2> QED BY <1>5, <2>2, <2>3 DEF EncodedIds, p, k
<1> QED BY <1>4, <1>5 DEF LeakedIds, p, k

(* Under every policy but passthrough no identity of the client leaves in  *)
(* a field the gateway knows (rewrite_event_identity,                      *)
(* rewrite_messages_metadata, rewrite_recursive_identity), for every body  *)
(* and every policy.                                                       *)
THEOREM IdentityIsCanonicalHolds == RewriteSpec => []IdentityIsCanonical
BY RewriteInvHolds, IdentityFollows, PTL

-----------------------------------------------------------------------------
(* Paths and home directories: a rewritten line shows the canonical machine. *)

LEMMA HomeAtIs ==
    ASSUME NEW path \in Seq(STRING)
    PROVE  /\ HomeAt(path) \in SUBSET Nat /\ Len(path) \in Nat
           /\ \A j : j \in HomeAt(path) <=>
                /\ j \in Nat /\ 1 <= j /\ j + 2 <= Len(path)
                /\ path[j] \in {"Users", "home"} /\ path[j + 1] # ""
<1>1. Len(path) \in Nat
  BY LenProperties
<1> DEFINE n == Len(path)
<1> HIDE DEF n
<1>2. n \in Nat
  BY <1>1 DEF n
<1>3. \A j : j \in 1 .. n - 2 <=> j \in Nat /\ 1 <= j /\ j + 2 <= n
  BY <1>2
<1>4. HomeAt(path) = {j \in 1 .. n - 2 : path[j] \in {"Users", "home"} /\ path[j + 1] # ""}
  BY DEF HomeAt, n
<1> HIDE DEF HomeAt
<1> QED BY <1>2, <1>3, <1>4 DEF n

LEMMA PairIs ==
    ASSUME NEW S, NEW a \in S, NEW b \in S
    PROVE  <<a, b>> \in Seq(S) /\ Len(<<a, b>>) = 2 /\ <<a, b>>[1] = a /\ <<a, b>>[2] = b
<1>1. <<a, b>> \in [1 .. 2 -> S] /\ Len(<<a, b>>) = 2
  OBVIOUS
<1>2. <<a, b>> \in Seq(S)
  BY <1>1, IsASeq
<1> QED BY <1>1, <1>2

LEMMA SplitLength ==
    ASSUME NEW k \in Nat, NEW i \in Nat, 1 <= i, i + 2 <= k
    PROVE  /\ 1 \in 1 .. k + 1 /\ i - 1 \in 0 .. k /\ i + 2 \in 1 .. k + 1 /\ k \in 0 .. k /\ i + 2 <= k + 1
           /\ (i - 1) - 1 + 1 = i - 1 /\ k - (i + 2) + 1 = k - (i + 1)
           /\ (i - 1) + 2 = i + 1 /\ (i + 1) + (k - (i + 1)) = k /\ k - (i + 1) \in Nat /\ i - 1 \in Nat
           /\ i \in 1 .. k /\ i + 1 \in 1 .. k
OBVIOUS
(* A path with one home directory in it, split at that directory. *)
Rehomed(path, i, home) == SubSeq(path, 1, i - 1) \o home \o SubSeq(path, i + 2, Len(path))

LEMMA RehomedIs ==
    ASSUME NEW path \in Seq(STRING), NEW i \in Nat, 1 <= i, i + 2 <= Len(path), NEW h \in Seq(STRING), Len(h) = 2
    PROVE  LET n == Rehomed(path, i, h) IN
           /\ n \in Seq(STRING) /\ Len(n) = Len(path)
           /\ n[i] = h[1] /\ n[i + 1] = h[2]
           /\ \A j \in 1 .. Len(path) : j # i /\ j # i + 1 => n[j] = path[j]
<1> DEFINE k == Len(path)
           f == SubSeq(path, 1, i - 1)
           t == SubSeq(path, i + 2, k)
<1>0. k \in Nat /\ (\A j \in 1 .. k : path[j] \in STRING) /\ i + 2 <= k
  BY LenProperties, ElementOfSeq
<1> HIDE DEF k
<1>1. /\ (i - 1) - 1 + 1 = i - 1 /\ k - (i + 2) + 1 = k - (i + 1)
      /\ (i - 1) + 2 = i + 1 /\ (i + 1) + (k - (i + 1)) = k /\ k - (i + 1) \in Nat /\ i - 1 \in Nat
      /\ i \in 1 .. k /\ i + 1 \in 1 .. k
  BY <1>0, SplitLength
<1>2. f \in Seq(STRING) /\ Len(f) = i - 1 /\ \A j \in 1 .. i - 1 : f[j] = path[j]
  <2>1. 1 \in Int /\ i - 1 \in Int /\ \A j \in 1 .. i - 1 : path[j] \in STRING
    BY <1>0
  <2>2. /\ f \in Seq(STRING) /\ Len(f) = IF 1 <= i - 1 THEN (i - 1) - 1 + 1 ELSE 0
        /\ \A j \in 1 .. (i - 1) - 1 + 1 : f[j] = path[1 + j - 1]
    BY <2>1, SubSeqProperties
  <2> HIDE DEF f
  <2>3. \A j \in 1 .. i - 1 : 1 + j - 1 = j
    OBVIOUS
  <2> QED BY <1>1, <2>2, <2>3
<1>4. t \in Seq(STRING) /\ Len(t) = k - (i + 1) /\ \A j \in 1 .. k - (i + 1) : t[j] = path[j + (i + 1)]
  <2>1. i + 2 \in Int /\ k \in Int /\ \A j \in i + 2 .. k : path[j] \in STRING
    BY <1>0
  <2>2. /\ t \in Seq(STRING) /\ Len(t) = IF i + 2 <= k THEN k - (i + 2) + 1 ELSE 0
        /\ \A j \in 1 .. k - (i + 2) + 1 : t[j] = path[i + 2 + j - 1]
    BY <2>1, SubSeqProperties
  <2> HIDE DEF t
  <2>3. \A j \in 1 .. k - (i + 1) : i + 2 + j - 1 = j + (i + 1)
    BY <1>0
  <2> QED BY <1>0, <1>1, <2>2, <2>3
<1> HIDE DEF f, t
<1> DEFINE g == f \o h
<1>3. /\ g \in Seq(STRING) /\ Len(g) = Len(f) + Len(h)
      /\ \A j \in 1 .. Len(f) + Len(h) : g[j] = IF j <= Len(f) THEN f[j] ELSE h[j - Len(f)]
  BY <1>2, ConcatProperties
<1>5. /\ g \in Seq(STRING) /\ Len(g) = (i - 1) + 2
      /\ \A j \in 1 .. (i - 1) + 2 : g[j] = IF j <= i - 1 THEN f[j] ELSE h[j - (i - 1)]
  BY <1>2, <1>3
<1> HIDE DEF g
<1>6. g \in Seq(STRING) /\ Len(g) = i + 1 /\ g[i] = h[1] /\ g[i + 1] = h[2] /\ \A j \in 1 .. i - 1 : g[j] = path[j]
  <2>1. i \in 1 .. (i - 1) + 2 /\ i + 1 \in 1 .. (i - 1) + 2 /\ ~(i <= i - 1) /\ ~(i + 1 <= i - 1)
        /\ i - (i - 1) = 1 /\ (i + 1) - (i - 1) = 2
    OBVIOUS
  <2>2. g[i] = h[1] /\ g[i + 1] = h[2]
    BY <1>5, <2>1
  <2>3. \A j \in 1 .. i - 1 : j \in 1 .. (i - 1) + 2 /\ j <= i - 1
    OBVIOUS
  <2> QED BY <1>1, <1>2, <1>5, <2>2, <2>3
<1> DEFINE n == g \o t
<1>11. g \in Seq(STRING) /\ t \in Seq(STRING)
  BY <1>4, <1>6
<1>12. /\ n \in Seq(STRING) /\ Len(n) = Len(g) + Len(t)
       /\ \A j \in 1 .. Len(g) + Len(t) : n[j] = IF j <= Len(g) THEN g[j] ELSE t[j - Len(g)]
  BY <1>11, ConcatProperties
<1>7. n \in Seq(STRING) /\ Len(n) = k
      /\ \A j \in 1 .. k : n[j] = IF j <= i + 1 THEN g[j] ELSE t[j - (i + 1)]
  BY <1>1, <1>4, <1>6, <1>12
<1> HIDE DEF n
<1>8. ASSUME NEW j \in 1 .. k, j # i, j # i + 1 PROVE n[j] = path[j]
  <2>1. CASE j <= i - 1
    <3>1. j \in 1 .. i - 1 /\ j <= i + 1
      BY <2>1
    <3> QED BY <1>6, <1>7, <3>1
  <2>2. CASE ~(j <= i + 1)
    <3>1. j - (i + 1) \in 1 .. k - (i + 1) /\ (j - (i + 1)) + (i + 1) = j
      BY <1>0, <1>8, <2>2
    <3>2. t[j - (i + 1)] = path[j]
      BY <1>4, <3>1
    <3> QED BY <1>7, <2>2, <3>2
  <2>3. j <= i - 1 \/ ~(j <= i + 1)
    BY <1>0, <1>8
  <2> QED BY <2>1, <2>2, <2>3
<1>9. n[i] = h[1] /\ n[i + 1] = h[2]
  <2>1. i <= i + 1 /\ i + 1 <= i + 1
    OBVIOUS
  <2> QED BY <1>1, <1>6, <1>7, <2>1
<1>10. Rehomed(path, i, h) = n
  BY DEF Rehomed, f, t, g, k, n
<1> QED BY <1>7, <1>8, <1>9, <1>10 DEF k

LEMMA TwoOf ==
    ASSUME NEW path \in Seq(STRING), NEW i \in Nat, 1 <= i, i + 1 <= Len(path)
    PROVE  SubSeq(path, i, i + 1) = <<path[i], path[i + 1]>>
<1> DEFINE k == Len(path)
           s == SubSeq(path, i, i + 1)
<1>0. k \in Nat /\ (\A j \in 1 .. k : path[j] \in STRING) /\ i + 1 <= k
  BY LenProperties, ElementOfSeq
<1> HIDE DEF k
<1>1. i \in 1 .. k /\ i + 1 \in 1 .. k /\ i \in Int /\ i + 1 \in Int /\ (i + 1) - i + 1 = 2 /\ i <= i + 1
      /\ i + 1 - 1 = i /\ i + 2 - 1 = i + 1 /\ \A j \in i .. i + 1 : path[j] \in STRING
  BY <1>0
<1>2. /\ s \in Seq(STRING) /\ Len(s) = IF i <= i + 1 THEN (i + 1) - i + 1 ELSE 0
      /\ \A j \in 1 .. (i + 1) - i + 1 : s[j] = path[i + j - 1]
  BY <1>1, SubSeqProperties
<1> HIDE DEF s
<1>3. Len(s) = 2 /\ s[1] = path[i] /\ s[2] = path[i + 1]
  BY <1>1, <1>2
<1>4. path[i] \in STRING /\ path[i + 1] \in STRING
  BY <1>0, <1>1
<1> DEFINE h == <<path[i], path[i + 1]>>
<1>5. h \in Seq(STRING) /\ Len(h) = 2 /\ h[1] = path[i] /\ h[2] = path[i + 1]
  BY <1>4, PairIs
<1> HIDE DEF h
<1>6. \A j \in 1 .. 2 : s[j] = h[j]
  BY <1>3, <1>5
<1>7. s = h
  BY <1>2, <1>3, <1>5, <1>6, SeqEqual
<1> QED BY <1>7 DEF s, h

LEMMA HomesIs ==
    ASSUME HomesAreRecognized
    PROVE  /\ WorkingDir \in Seq(STRING) /\ Len(WorkingDir) \in Nat /\ Len(WorkingDir) >= 3
           /\ WorkingDir[1] \in STRING /\ WorkingDir[2] \in STRING /\ WorkingDir[2] \notin {"Users", "home"}
           /\ HomeAt(WorkingDir) \subseteq {1}
           /\ CanonicalHomePrefix = SubSeq(WorkingDir, 1, 2) /\ CanonicalHomePrefix = <<WorkingDir[1], WorkingDir[2]>>
           /\ CanonicalHomePrefix \in Seq(STRING) /\ Len(CanonicalHomePrefix) = 2
           /\ CanonicalHomePrefix[1] = WorkingDir[1] /\ CanonicalHomePrefix[2] = WorkingDir[2]
<1>1. WorkingDir \in Seq(STRING) /\ Len(WorkingDir) \in Nat /\ Len(WorkingDir) >= 3
  BY WorkingDirAssumption, LenProperties DEF HomesAreRecognized
<1>2. WorkingDir[1] \in STRING /\ WorkingDir[2] \in STRING
  BY <1>1, ElementOfSeq
<1>3. SubSeq(WorkingDir, 1, 2) = <<WorkingDir[1], WorkingDir[2]>>
  <2>1. 1 \in Nat /\ 1 + 1 <= Len(WorkingDir) /\ 1 + 1 = 2
    BY <1>1
  <2> QED BY <1>1, <2>1, TwoOf
<1>4. CanonicalHomePrefix = SubSeq(WorkingDir, 1, 2)
  BY <1>1 DEF CanonicalHomePrefix
<1>5. CanonicalHomePrefix \in Seq(STRING) /\ Len(CanonicalHomePrefix) = 2
      /\ CanonicalHomePrefix[1] = WorkingDir[1] /\ CanonicalHomePrefix[2] = WorkingDir[2]
  BY <1>2, <1>3, <1>4, PairIs
<1> QED BY <1>1, <1>2, <1>3, <1>4, <1>5 DEF HomesAreRecognized

(* The home directories left are those of the working directory. *)
Homely(path) == \A i \in HomeAt(path) : SubSeq(path, i, i + 1) = SubSeq(WorkingDir, 1, 2)

LEMMA Within ==
    \A k \in Nat, j \in Nat : 1 <= j /\ j + 2 <= k =>
        /\ j \in 1 .. k /\ j + 1 \in 1 .. k /\ j + 1 <= k
        /\ \A i \in Nat : j # i => j + 1 # i + 1
OBVIOUS

(* A home directory that is rewritten: it is the only one left.            *)
Rehoming(path, n, i) ==
    /\ i \in Nat /\ 1 <= i /\ i + 2 <= Len(path) /\ i + 1 <= Len(path)
    /\ n = Rehomed(path, i, CanonicalHomePrefix) /\ n \in Seq(STRING) /\ Len(n) = Len(path)
    /\ n[i] = CanonicalHomePrefix[1] /\ n[i + 1] = CanonicalHomePrefix[2]
    /\ \A j \in HomeAt(n) : j = i

LEMMA HomeReplaced ==
    ASSUME HomesAreRecognized, NEW path \in Seq(STRING), OneHome(path), HomeAt(path) # {}
    PROVE  Rehoming(path, RewriteHome(path), Min(HomeAt(path)))
<1> DEFINE i == Min(HomeAt(path))
           h == CanonicalHomePrefix
           n == Rehomed(path, i, h)
<1>0. Len(path) \in Nat
  BY LenProperties
<1>1. i \in HomeAt(path)
  BY HomeAtIs, MinIn
<1>2. RewriteHome(path) = n
  BY DEF RewriteHome, Rehomed
<1> HIDE DEF i
<1>3. i \in Nat /\ 1 <= i /\ i + 2 <= Len(path) /\ path[i] \in {"Users", "home"} /\ path[i + 1] # ""
  BY <1>1, HomeAtIs
<1>4. h[2] \notin {"Users", "home"} /\ h \in Seq(STRING) /\ Len(h) = 2
  BY HomesIs
<1> HIDE DEF h
<1>5. /\ n \in Seq(STRING) /\ Len(n) = Len(path) /\ n[i] = h[1] /\ n[i + 1] = h[2]
      /\ \A j \in 1 .. Len(path) : j # i /\ j # i + 1 => n[j] = path[j]
  BY <1>3, <1>4, RehomedIs
<1> HIDE DEF n
<1>6. ASSUME NEW j \in HomeAt(n) PROVE j = i
  <2>1. j \in Nat /\ 1 <= j /\ j + 2 <= Len(path) /\ n[j] \in {"Users", "home"} /\ n[j + 1] # ""
    BY <1>5, HomeAtIs
  <2>2. j # i + 1
    BY <1>4, <1>5, <2>1
  <2>3. SUFFICES ASSUME j # i PROVE FALSE
    OBVIOUS
  <2>4. path[j] \in {"Users", "home"}
    <3>1. j \in 1 .. Len(path)
      BY <1>0, <2>1, Within
    <3> QED BY <1>5, <2>1, <2>2, <2>3, <3>1
  <2>5. path[j + 1] # ""
    <3>1. CASE j + 1 = i
      BY <1>3, <3>1
    <3>2. CASE j + 1 # i
      <4>1. j + 1 \in 1 .. Len(path) /\ j + 1 # i + 1
        BY <1>0, <1>3, <2>1, <2>3, Within
      <4>2. n[j + 1] = path[j + 1]
        BY <1>5, <3>2, <4>1
      <4> QED BY <2>1, <4>2
    <3> QED BY <3>1, <3>2
  <2>6. j \in HomeAt(path)
    BY <2>1, <2>4, <2>5, HomeAtIs
  <2> QED BY <1>1, <2>3, <2>6 DEF OneHome
<1>7. i + 1 <= Len(path)
  BY <1>0, <1>3, Within
<1> QED BY <1>2, <1>3, <1>5, <1>6, <1>7 DEF Rehoming, i, h, n

LEMMA HomeIsCanonical ==
    ASSUME HomesAreRecognized, NEW path \in Seq(STRING), OneHome(path)
    PROVE  Homely(RewriteHome(path))
<1>1. CASE HomeAt(path) = {}
  BY <1>1 DEF RewriteHome, Homely
<1>2. CASE HomeAt(path) # {}
  <2> DEFINE i == Min(HomeAt(path))
             n == RewriteHome(path)
  <2>1. Rehoming(path, n, i)
    BY <1>2, HomeReplaced
  <2> HIDE DEF i, n
  <2>2. SubSeq(n, i, i + 1) = <<n[i], n[i + 1]>>
    BY <2>1, TwoOf DEF Rehoming
  <2>3. SubSeq(n, i, i + 1) = SubSeq(WorkingDir, 1, 2)
    BY <2>1, <2>2, HomesIs DEF Rehoming
  <2> QED BY <2>1, <2>3 DEF Homely, Rehoming, n
<1> QED BY <1>1, <1>2

LEMMA WorkingDirStays ==
    ASSUME HomesAreRecognized
    PROVE  RewriteHome(WorkingDir) = WorkingDir
<1> DEFINE w == WorkingDir
           n == Rehomed(w, 1, CanonicalHomePrefix)
<1>1. w \in Seq(STRING) /\ Len(w) \in Nat /\ Len(w) >= 3 /\ w[1] \in STRING /\ w[2] \in STRING
      /\ HomeAt(w) \subseteq {1} /\ CanonicalHomePrefix \in Seq(STRING) /\ Len(CanonicalHomePrefix) = 2
      /\ CanonicalHomePrefix[1] = w[1] /\ CanonicalHomePrefix[2] = w[2]
  BY HomesIs
<1>2. CASE HomeAt(w) = {}
  BY <1>2 DEF RewriteHome
<1>3. CASE HomeAt(w) # {}
  <2>1. Min(HomeAt(w)) = 1
    <3>1. HomeAt(w) \in SUBSET Nat
      BY <1>1
    <3> QED BY <1>1, <1>3, <3>1, MinIn
  <2>2. RewriteHome(w) = n
    BY <1>1, <1>3, <2>1 DEF RewriteHome, Rehomed
  <2>3. 1 \in Nat /\ 1 <= 1 /\ 1 + 2 <= Len(w) /\ 1 + 1 = 2
    BY <1>1
  <2>4. /\ n \in Seq(STRING) /\ Len(n) = Len(w) /\ n[1] = w[1] /\ n[1 + 1] = w[2]
        /\ \A j \in 1 .. Len(w) : j # 1 /\ j # 1 + 1 => n[j] = w[j]
    BY <1>1, <2>3, RehomedIs
  <2> HIDE DEF n, w
  <2>5. \A j \in 1 .. Len(w) : n[j] = w[j]
    BY <2>3, <2>4
  <2>6. n = w
    BY <1>1, <2>4, <2>5, SeqEqual
  <2> QED BY <2>2, <2>6 DEF w
<1> QED BY <1>2, <1>3

(* A directory that is not absolute does not become so. *)
LEMMA DriveStays ==
    ASSUME NEW dir \in Seq(STRING), dir # << >>, ~Absolute(dir), HomesAreRecognized
    PROVE  ~Absolute(RewriteHome(dir))
<1>1. CASE HomeAt(dir) = {}
  BY <1>1 DEF RewriteHome
<1>2. CASE HomeAt(dir) # {}
  <2> DEFINE i == Min(HomeAt(dir))
             n == Rehomed(dir, i, CanonicalHomePrefix)
  <2>0. Len(dir) \in Nat /\ dir[1] = "C:"
    BY LenProperties DEF Absolute
  <2>1. i \in HomeAt(dir)
    BY <1>2, HomeAtIs, MinIn
  <2>2. RewriteHome(dir) = n
    BY <1>2 DEF RewriteHome, Rehomed
  <2> HIDE DEF i
  <2>3. i \in Nat /\ 1 <= i /\ i + 2 <= Len(dir) /\ dir[i] \in {"Users", "home"}
    BY <2>1, HomeAtIs
  <2>4. \A j \in 1 .. Len(dir) : j # i /\ j # i + 1 => n[j] = dir[j]
    BY <2>3, HomesIs, RehomedIs
  <2> HIDE DEF n
  <2>5. i # 1 /\ 1 \in 1 .. Len(dir) /\ 1 # i + 1
    BY <2>0, <2>3
  <2>6. n[1] = "C:"
    BY <2>0, <2>4, <2>5
  <2> QED BY <2>2, <2>6 DEF Absolute
<1> QED BY <1>1, <1>2

(* What a line may say when it leaves, and what the client may have said. *)
Shown(l) ==
    /\ "fact" \in DOMAIN l => l.who = "canonical"
    /\ "dir" \in DOMAIN l /\ Absolute(l.dir) => l.dir = WorkingDir
    /\ "path" \in DOMAIN l =>
            \A i \in HomeAt(l.path) : SubSeq(l.path, i, i + 1) = SubSeq(WorkingDir, 1, 2)
Plausible(l) == IsLine(l) /\ ("path" \in DOMAIN l => OneHome(l.path))

LEMMA LineFields ==
    ASSUME NEW line, NEW hash
    PROVE  LET l == RewriteLine(line, hash) IN
           /\ DOMAIN l = DOMAIN line
           /\ "who" \in DOMAIN l => l.who = "canonical"
           /\ "dir" \in DOMAIN l => l.dir = RewriteHome(IF Absolute(line.dir) THEN WorkingDir ELSE line.dir)
           /\ "path" \in DOMAIN l => l.path = RewriteHome(line.path)
           /\ "reminder" \in DOMAIN l => l.reminder = line.reminder
           /\ "billing" \in DOMAIN l => l.billing = line.billing
BY DEF RewriteLine

LEMMA LineShown ==
    ASSUME HomesAreRecognized, NEW line, Plausible(line), NEW hash
    PROVE  Shown(RewriteLine(line, hash))
<1> DEFINE l == RewriteLine(line, hash)
<1>1. /\ DOMAIN l = DOMAIN line
      /\ "who" \in DOMAIN l => l.who = "canonical"
      /\ "dir" \in DOMAIN l => l.dir = RewriteHome(IF Absolute(line.dir) THEN WorkingDir ELSE line.dir)
      /\ "path" \in DOMAIN l => l.path = RewriteHome(line.path)
  BY LineFields
<1> HIDE DEF l
<1>2. "fact" \in DOMAIN l => l.who = "canonical"
  BY <1>1 DEF Plausible, IsLine
<1>3. ASSUME "dir" \in DOMAIN l, Absolute(l.dir) PROVE l.dir = WorkingDir
  <2>1. CASE Absolute(line.dir)
    BY <1>1, <1>3, <2>1, WorkingDirStays
  <2>2. CASE ~Absolute(line.dir)
    <3>1. line.dir \in Seq(STRING) /\ line.dir # << >> /\ l.dir = RewriteHome(line.dir)
      BY <1>1, <1>3, <2>2 DEF Plausible, IsLine
    <3> QED BY <1>3, <2>2, <3>1, DriveStays
  <2> QED BY <2>1, <2>2
<1>4. ASSUME "path" \in DOMAIN l PROVE Homely(l.path)
  <2>1. line.path \in Seq(STRING) /\ OneHome(line.path) /\ l.path = RewriteHome(line.path)
    BY <1>1, <1>4 DEF Plausible, IsLine
  <2> QED BY <2>1, HomeIsCanonical
<1> QED BY <1>2, <1>3, <1>4 DEF Shown, Homely, l

-----------------------------------------------------------------------------
(* The items of the system as documents, docs[i] at Item(i). *)
Item(i) == System \o <<Index[i]>>
Lists(d, docs) ==
    /\ Len(docs) \in 0 .. Len(Index)
    /\ Elements(d, System) = {Item(i) : i \in 1 .. Len(docs)}
    /\ \A i \in 1 .. Len(docs), r \in Paths :
        /\ Item(i) \o r \in DOMAIN d <=> r \in DOMAIN docs[i]
        /\ r \in DOMAIN docs[i] => d[Item(i) \o r] = docs[i][r]

LEMMA ItemIs ==
    ASSUME NEW i \in 1 .. Len(Index)
    PROVE  Item(i) \in Paths /\ Len(Item(i)) = 2 /\ IsPrefix(System, Item(i)) /\ Index[i] \in Keys
           /\ Item(i) \o << >> = Item(i)
           /\ \A r \in Paths : Item(i) \o r \in Paths /\ IsPrefix(Item(i), Item(i) \o r) /\ Rest(Item(i), Item(i) \o r) = r
           /\ \A j \in 1 .. Len(Index) : Item(i) = Item(j) => i = j
<1>1. Index[i] \in Keys /\ System \in Paths
  BY IndexIs, SystemPath
<1>2. Len(System) = 1
  BY DEF System
<1>3. Item(i) \in Paths /\ Len(Item(i)) = 1 + 1 /\ IsPrefix(System, Item(i))
  BY <1>1, <1>2, ChildIs DEF Item
<1>4. \A r \in Paths : Item(i) \o r \in Paths /\ IsPrefix(Item(i), Item(i) \o r) /\ Rest(Item(i), Item(i) \o r) = r
  BY <1>3, ConcatIs
<1>5. ASSUME NEW j \in 1 .. Len(Index), Item(i) = Item(j) PROVE i = j
  <2>1. Index[j] \in Keys
    BY IndexIs
  <2>2. Index[i] = Index[j]
    BY <1>1, <1>5, <2>1, ChildrenDiffer DEF Item
  <2> QED BY <2>2, IndexIs
<1>6. Item(i) \o << >> = Item(i)
  BY <1>3, ConcatEmptySeq DEF Paths
<1> QED BY <1>1, <1>3, <1>4, <1>5, <1>6

LEMMA ItemsListed ==
    ASSUME NEW d, Grown(d), IsArr(d, System)
    PROVE  Lists(d, Items(d, System))
<1> DEFINE items == Items(d, System)
           n == Cardinality(Elements(d, System))
<1>1. /\ Len(items) = n /\ n \in 0 .. Len(Index)
      /\ \A i \in 1 .. n : System \o <<Index[i]>> \in DOMAIN d /\ items[i] = Sub(d, System \o <<Index[i]>>)
  BY ItemsGrown
<1>2. Elements(d, System) = {System \o <<Index[i]>> : i \in 1 .. n}
  BY SystemPath, ElementsAre
<1> HIDE DEF items, n
<1>3. ASSUME NEW i \in 1 .. n, NEW r \in Paths
      PROVE  /\ Item(i) \o r \in DOMAIN d <=> r \in DOMAIN items[i]
             /\ r \in DOMAIN items[i] => d[Item(i) \o r] = items[i][r]
  <2>1. i \in 1 .. Len(Index)
    BY <1>1, IndexIs
  <2> DEFINE c == Item(i)
             q == c \o r
  <2>2. c \in Paths /\ q \in Paths /\ IsPrefix(c, q) /\ Rest(c, q) = r
    BY <2>1, ItemIs
  <2>3. items[i] = Sub(d, c)
    BY <1>1 DEF Item
  <2> HIDE DEF q, c
  <2>4. /\ Rest(c, q) \in DOMAIN Sub(d, c) <=> q \in DOMAIN d
        /\ q \in DOMAIN d => Sub(d, c)[Rest(c, q)] = d[q]
    BY <2>2, SubIs DEF Grown
  <2> QED BY <2>2, <2>3, <2>4 DEF q, c
<1> QED BY <1>1, <1>2, <1>3 DEF Lists, Item, items

LEMMA RetainListed ==
    ASSUME NEW d, Grown(d), IsArr(d, System)
    PROVE  LET items == Items(d, System)
           IN  Lists(RetainItems(d), Without(items, BlankItems(items))) /\ IsArr(RetainItems(d), System)
<1> DEFINE items == Items(d, System)
           kept == Without(items, BlankItems(items))
           e == RetainItems(d)
           a == ArrayOf(kept)
<1>1. items \in Seq(Subs(d)) /\ (\A s \in Subs(d) : Grown(s)) /\ Len(items) <= Len(Index) /\ Len(items) \in Nat
  <2>1. Len(items) \in 0 .. Len(Index)
    BY ItemsGrown
  <2> QED BY <2>1, ItemsGrown, IndexIs
<1>2. e = Put(d, System, a)
  BY DEF RetainItems
<1>9. Grown(e)
  BY RetainGrown
<1> HIDE DEF items, e
<1>3. kept \in Seq(Subs(d)) /\ Len(kept) <= Len(items) /\ Len(kept) \in Nat
  BY <1>1, FilterSeq, FilterLength, LenProperties
<1> HIDE DEF kept
<1>4. Len(kept) \in 0 .. Len(Index) /\ Len(kept) <= Len(Index)
  BY <1>1, <1>3, IndexIs
<1>5. IsArrayOf(a, kept)
  BY <1>1, <1>3, <1>4, ArrayAt DEF Grown
<1>6. \A q \in Paths : IsPrefix(System, q) =>
        /\ q \in DOMAIN e <=> Rest(System, q) \in DOMAIN a
        /\ q \in DOMAIN e => e[q] = a[Rest(System, q)]
  BY <1>2, <1>5, SystemPath, PutInside DEF IsArrayOf
<1> HIDE DEF a
<1>7. ASSUME NEW i \in 1 .. Len(kept), NEW r \in Paths
      PROVE  /\ Item(i) \o r \in DOMAIN e <=> r \in DOMAIN kept[i]
             /\ r \in DOMAIN kept[i] => e[Item(i) \o r] = kept[i][r]
  <2>1. Index[i] \in Keys /\ <<Index[i]>> \in Paths
    <3>1. i \in 1 .. Len(Index)
      BY <1>3, <1>4, IndexIs
    <3> QED BY <3>1, IndexIs
  <2> DEFINE x == <<Index[i]>> \o r
  <2>2. x \in Paths
    BY <2>1, ConcatIs
  <2>3. Item(i) \o r = System \o x
    BY <2>1, SystemPath, PathsAssociate DEF Item
  <2>4. x \in DOMAIN a <=> r \in DOMAIN kept[i]
    BY <1>5 DEF IsArrayOf
  <2>5. r \in DOMAIN kept[i] => a[x] = kept[i][r]
    BY <1>5 DEF IsArrayOf
  <2> HIDE DEF x
  <2>6. System \o x \in Paths /\ IsPrefix(System, System \o x) /\ Rest(System, System \o x) = x
    BY <2>2, SystemPath, ConcatIs
  <2> QED BY <1>6, <2>3, <2>4, <2>5, <2>6
<1>8. IsArr(e, System)
  <2>1. Rest(System, System) = << >> /\ System \in Paths /\ IsPrefix(System, System)
    BY SystemPath, PrefixOrder
  <2> QED BY <1>5, <1>6, <2>1 DEF IsArr, IsArrayOf
<1>10. ASSUME NEW k \in Keys, System \o <<k>> \in DOMAIN e PROVE \E i \in 1 .. Len(kept) : k = Index[i]
  <2>1. <<k>> \in Paths /\ <<k>> # << >>
    BY FirstKey
  <2>2. System \o <<k>> \in Paths /\ IsPrefix(System, System \o <<k>>) /\ Rest(System, System \o <<k>>) = <<k>>
    BY <2>1, SystemPath, ConcatIs
  <2>3. <<k>> \in DOMAIN a
    BY <1>6, <1>10, <2>2
  <2>4. PICK i \in 1 .. Len(kept), r \in Paths : <<k>> = <<Index[i]>> \o r
    BY <1>5, <2>1, <2>3 DEF IsArrayOf
  <2>5. Index[i] \in Keys
    <3>1. i \in 1 .. Len(Index)
      BY <1>3, <1>4, IndexIs
    <3> QED BY <3>1, IndexIs
  <2>6. (<<Index[i]>> \o r)[1] = Index[i]
    BY <2>5, FirstKey
  <2>7. <<k>>[1] = k
    BY Few
  <2> QED BY <2>4, <2>6, <2>7
<1>11. ASSUME NEW i \in 1 .. Len(kept) PROVE Item(i) \in DOMAIN e /\ Index[i] \in Keys
  <2>1. i \in 1 .. Len(Index)
    BY <1>3, <1>4, IndexIs
  <2>2. kept[i] \in Subs(d)
    BY <1>3, ElementOfSeq
  <2>3. << >> \in DOMAIN kept[i]
    BY <1>1, <2>2 DEF Grown
  <2>4. << >> \in Paths
    BY PrefixOrder, SystemPath
  <2>5. Item(i) \o << >> \in DOMAIN e
    BY <1>7, <2>3, <2>4
  <2>6. Item(i) \o << >> = Item(i) /\ Index[i] \in Keys
    BY <2>1, ItemIs
  <2> QED BY <2>5, <2>6
<1>12. Elements(e, System) = {Item(i) : i \in 1 .. Len(kept)}
  <2>1. Elements(e, System) = {System \o <<k>> : k \in {j \in Keys : System \o <<j>> \in DOMAIN e}}
    BY <1>8, <1>9, SystemPath, ChildrenAre DEF Elements, Grown
  <2>2. {j \in Keys : System \o <<j>> \in DOMAIN e} = {Index[i] : i \in 1 .. Len(kept)}
    BY <1>10, <1>11 DEF Item
  <2> QED BY <2>1, <2>2 DEF Item
<1> QED BY <1>4, <1>7, <1>8, <1>12 DEF Lists, items, kept, e

(* The texts of the system, where they are. *)
PromptTexts(d) == {q \in SystemTexts(d) : IsText(d, q)}
Pos(item) == IF IsObj(item, << >>) THEN <<"text">> ELSE << >>

LEMMA PosIs ==
    /\ \A item : Pos(item) \in Paths
    /\ \A item, i, other, j : i \in 1 .. Len(Index) /\ j \in 1 .. Len(Index)
            /\ Item(i) \o Pos(item) = Item(j) \o Pos(other) => i = j
<1>1. "text" \in Keys /\ <<"text">> \in Paths /\ << >> \in Paths
  BY TextPath, PrefixOrder DEF Keys, Words
<1>2. \A item : Pos(item) \in Paths
  BY <1>1 DEF Pos
<1>3. ASSUME NEW item, NEW i \in 1 .. Len(Index), NEW other, NEW j \in 1 .. Len(Index),
             Item(i) \o Pos(item) = Item(j) \o Pos(other)
      PROVE  i = j
  <2>1. /\ Item(i) \in Paths /\ Len(Item(i)) = 2 /\ Item(i) \o << >> = Item(i)
        /\ Item(j) \in Paths /\ Len(Item(j)) = 2 /\ Item(j) \o << >> = Item(j)
        /\ Item(i) = Item(j) => i = j
    BY ItemIs
  <2>2. Len(Item(i) \o <<"text">>) = 2 + 1 /\ Len(Item(j) \o <<"text">>) = 2 + 1
    <3>1. \A p \in Paths : Len(p \o <<"text">>) = Len(p) + 1
      BY <1>1, ChildIs
    <3> QED BY <2>1, <3>1
  <2>3. Item(i) \o <<"text">> = Item(j) \o <<"text">> => Item(i) = Item(j)
    BY <1>1, <2>1, ChildrenDiffer
  <2> QED BY <1>3, <2>1, <2>2, <2>3 DEF Pos
<1> QED BY <1>2, <1>3

TextsAt(d, docs) ==
    /\ \A q \in PromptTexts(d) : \E i \in 1 .. Len(docs) : q = Item(i) \o Pos(docs[i])
    /\ \A i \in 1 .. Len(docs) :
        /\ Item(i) \o Pos(docs[i]) \in PromptTexts(d) <=> IsText(docs[i], Pos(docs[i]))
        /\ Item(i) \o Pos(docs[i]) \in PromptTexts(d) => d[Item(i) \o Pos(docs[i])] = docs[i][Pos(docs[i])]
LEMMA TextsListed ==
    ASSUME NEW d, Document(d), IsArr(d, System), NEW docs, Lists(d, docs)
    PROVE  TextsAt(d, docs)
<1> DEFINE n == Len(docs)
<1>0. \A i \in 1 .. n : i \in 1 .. Len(Index)
  BY IndexIs DEF Lists
<1>1. Elements(d, System) = {Item(i) : i \in 1 .. n}
  BY DEF Lists
<1>2. ASSUME NEW i \in 1 .. n
      PROVE  LET q == Item(i) \o Pos(docs[i]) IN
             /\ ItemText(d, Item(i)) = {q} \cap DOMAIN d
             /\ q \in DOMAIN d <=> Pos(docs[i]) \in DOMAIN docs[i]
             /\ q \in DOMAIN d => d[q] = docs[i][Pos(docs[i])]
  <2>1. Item(i) \o << >> = Item(i) /\ << >> \in Paths /\ <<"text">> \in Paths
    BY <1>0, ItemIs, PrefixOrder, TextPath
  <2>2. /\ Item(i) \in DOMAIN d <=> << >> \in DOMAIN docs[i]
        /\ << >> \in DOMAIN docs[i] => d[Item(i)] = docs[i][<< >>]
    BY <2>1 DEF Lists
  <2>3. IsObj(d, Item(i)) <=> IsObj(docs[i], << >>)
    BY <2>2 DEF IsObj
  <2>4. /\ Item(i) \o Pos(docs[i]) \in DOMAIN d <=> Pos(docs[i]) \in DOMAIN docs[i]
        /\ Pos(docs[i]) \in DOMAIN docs[i] => d[Item(i) \o Pos(docs[i])] = docs[i][Pos(docs[i])]
    BY PosIs DEF Lists
  <2>5. ItemText(d, Item(i)) = {Item(i) \o Pos(docs[i])} \cap DOMAIN d
    <3>1. CASE IsObj(d, Item(i))
      <4>1. Item(i) \in DOMAIN d
        BY <3>1 DEF IsObj
      <4> QED BY <2>3, <3>1, <4>1 DEF ItemText, Pos
    <3>2. CASE ~IsObj(d, Item(i))
      BY <2>1, <2>3, <3>2 DEF ItemText, Pos
    <3> QED BY <3>1, <3>2
  <2> QED BY <2>4, <2>5
<1>3. SystemTexts(d) = UNION {ItemText(d, c) : c \in Elements(d, System)}
  BY DEF SystemTexts, SystemItems
<1>4. ASSUME NEW q \in PromptTexts(d) PROVE \E i \in 1 .. n : q = Item(i) \o Pos(docs[i])
  <2>1. PICK c \in Elements(d, System) : q \in ItemText(d, c)
    BY <1>3 DEF PromptTexts
  <2>2. PICK i \in 1 .. n : c = Item(i)
    BY <1>1
  <2> QED BY <1>2, <2>1, <2>2
<1>5. ASSUME NEW i \in 1 .. n
      PROVE  LET q == Item(i) \o Pos(docs[i]) IN
             /\ q \in PromptTexts(d) <=> IsText(docs[i], Pos(docs[i]))
             /\ q \in PromptTexts(d) => d[q] = docs[i][Pos(docs[i])]
  <2> DEFINE q == Item(i) \o Pos(docs[i])
             x == Pos(docs[i])
  <2>1. /\ ItemText(d, Item(i)) = {q} \cap DOMAIN d
        /\ q \in DOMAIN d <=> x \in DOMAIN docs[i]
        /\ q \in DOMAIN d => d[q] = docs[i][x]
    BY <1>2
  <2>2. ItemText(d, Item(i)) \subseteq SystemTexts(d)
    BY <1>1, <1>3
  <2> HIDE DEF q, x
  <2>3. IsText(d, q) <=> IsText(docs[i], x)
    BY <2>1 DEF IsText
  <2>4. q \in PromptTexts(d) <=> IsText(docs[i], x)
    BY <2>1, <2>2, <2>3 DEF PromptTexts, IsText
  <2>5. q \in PromptTexts(d) => d[q] = docs[i][x]
    BY <2>1, <2>4 DEF IsText
  <2> QED BY <2>4, <2>5 DEF q, x
<1> QED BY <1>4, <1>5 DEF TextsAt

-----------------------------------------------------------------------------
(* Every text of e is one of d, at most one, and all that are not blank.   *)
Moved(e, d, f) ==
    /\ f \in [PromptTexts(e) -> PromptTexts(d)]
    /\ \A q \in PromptTexts(e) : e[q] = d[f[q]]
    /\ \A q, x \in PromptTexts(e) : f[q] = f[x] => q = x
    /\ \A x \in PromptTexts(d) : ~IsBlank(d[x].text) => \E q \in PromptTexts(e) : f[q] = x

LEMMA BlankIs ==
    ASSUME NEW item, Blank(item)
    PROVE  IsText(item, Pos(item)) /\ IsBlank(item[Pos(item)].text)
<1>1. PICK x \in ItemText(item, << >>) : IsText(item, x) /\ IsBlank(item[x].text)
  BY DEF Blank
<1>2. "text" \in Keys /\ << >> \o <<"text">> = <<"text">>
  <2>1. "text" \in Keys
    BY DEF Keys, Words
  <2> QED BY <2>1, FirstKey
<1>3. x = Pos(item)
  <2>1. CASE IsObj(item, << >>)
    <3>1. << >> \in DOMAIN item
      BY <2>1 DEF IsObj
    <3> QED BY <1>1, <1>2, <2>1, <3>1 DEF ItemText, Pos
  <2>2. CASE ~IsObj(item, << >>)
    BY <1>1, <2>2 DEF ItemText, Pos
  <2> QED BY <2>1, <2>2
<1> QED BY <1>1, <1>3

LEMMA RetainMoves ==
    ASSUME NEW d, Grown(d), IsArr(d, System)
    PROVE  \E f : Moved(RetainItems(d), d, f)
<1> DEFINE items == Items(d, System)
           drop == BlankItems(items)
           kept == Without(items, drop)
           e == RetainItems(d)
<1>1. Lists(d, items) /\ Lists(e, kept) /\ IsArr(e, System)
  BY ItemsListed, RetainListed
<1>2. Document(d) /\ Document(e)
  BY RetainGrown DEF Grown
<1>3. items \in Seq(Subs(d))
  BY ItemsGrown
<1> HIDE DEF items, e
<1>4. PICK g : Origin(items, drop, kept, Len(items), g)
  BY <1>3, FilterOrigin
<1> HIDE DEF drop, kept
<1> DEFINE n == Len(items)
           m == Len(kept)
           PathAt(i) == Item(i) \o Pos(items[i])
           Now(j) == Item(j) \o Pos(kept[j])
<1>5. /\ n \in Nat /\ \A i \in 1 .. n : i \in 1 .. Len(Index)
      /\ \A j \in 1 .. m : j \in 1 .. Len(Index)
  BY <1>1, IndexIs DEF Lists
<1>6. /\ \A q \in PromptTexts(d) : \E i \in 1 .. n : q = PathAt(i)
      /\ \A i \in 1 .. n : /\ PathAt(i) \in PromptTexts(d) <=> IsText(items[i], Pos(items[i]))
                           /\ PathAt(i) \in PromptTexts(d) => d[PathAt(i)] = items[i][Pos(items[i])]
  <2>1. TextsAt(d, items)
    BY <1>1, <1>2, TextsListed
  <2> QED BY <2>1 DEF TextsAt
<1>7. /\ \A q \in PromptTexts(e) : \E j \in 1 .. m : q = Now(j)
      /\ \A j \in 1 .. m : /\ Now(j) \in PromptTexts(e) <=> IsText(kept[j], Pos(kept[j]))
                           /\ Now(j) \in PromptTexts(e) => e[Now(j)] = kept[j][Pos(kept[j])]
  <2>1. TextsAt(e, kept)
    BY <1>1, <1>2, TextsListed
  <2> QED BY <2>1 DEF TextsAt
<1>8. /\ g \in [1 .. m -> 1 .. n]
      /\ \A j \in 1 .. m : kept[j] = items[g[j]]
      /\ \A i \in 1 .. n : items[i] \notin drop => \E j \in 1 .. m : g[j] = i
      /\ \A j, k \in 1 .. m : g[j] = g[k] => j = k
  BY <1>4 DEF Origin
<1>9. /\ \A i, k \in 1 .. n : PathAt(i) = PathAt(k) => i = k
      /\ \A j, k \in 1 .. m : Now(j) = Now(k) => j = k
  BY <1>5, PosIs
<1>10. \A i \in 1 .. n : items[i] \in drop => (IsText(items[i], Pos(items[i])) => IsBlank(items[i][Pos(items[i])].text))
  <2>1. ASSUME NEW i \in 1 .. n, items[i] \in drop PROVE IsBlank(items[i][Pos(items[i])].text)
    BY <2>1, BlankIs DEF BlankItems, drop
  <2> QED BY <2>1
<1>11. ASSUME NEW j \in 1 .. m
      PROVE  /\ g[j] \in 1 .. n
             /\ Now(j) \in PromptTexts(e) <=> PathAt(g[j]) \in PromptTexts(d)
             /\ Now(j) \in PromptTexts(e) => e[Now(j)] = d[PathAt(g[j])]
  <2>1. g[j] \in 1 .. n /\ kept[j] = items[g[j]]
    BY <1>8
  <2>2. PathAt(g[j]) \in PromptTexts(d) <=> IsText(items[g[j]], Pos(items[g[j]]))
    BY <1>6, <2>1
  <2>3. Now(j) \in PromptTexts(e) <=> IsText(kept[j], Pos(kept[j]))
    BY <1>7
  <2>4. PathAt(g[j]) \in PromptTexts(d) => d[PathAt(g[j])] = items[g[j]][Pos(items[g[j]])]
    BY <1>6, <2>1
  <2>5. Now(j) \in PromptTexts(e) => e[Now(j)] = kept[j][Pos(kept[j])]
    BY <1>7
  <2> QED BY <2>1, <2>2, <2>3, <2>4, <2>5
<1>12. \A i \in 1 .. n : PathAt(i) \in PromptTexts(d) /\ ~IsBlank(d[PathAt(i)].text) => \E j \in 1 .. m : g[j] = i
  BY <1>6, <1>8, <1>10
<1> HIDE DEF PathAt, Now, n, m
<1> DEFINE h == [q \in PromptTexts(e) |-> CHOOSE j \in 1 .. m : q = Now(j)]
           f == [q \in PromptTexts(e) |-> PathAt(g[h[q]])]
<1>13. \A q \in PromptTexts(e) : h[q] \in 1 .. m /\ q = Now(h[q])
  BY <1>7
<1>14. \A j \in 1 .. m : Now(j) \in PromptTexts(e) => h[Now(j)] = j
  BY <1>9, <1>13
<1>15. f \in [PromptTexts(e) -> PromptTexts(d)] /\ \A q \in PromptTexts(e) : e[q] = d[f[q]] /\ f[q] = PathAt(g[h[q]])
  <2>1. ASSUME NEW q \in PromptTexts(e) PROVE PathAt(g[h[q]]) \in PromptTexts(d) /\ e[q] = d[PathAt(g[h[q]])]
    <3> HIDE DEF h
    <3> QED BY <1>11, <1>13
  <2> QED BY <2>1
<1> HIDE DEF h, f
<1>16. ASSUME NEW q \in PromptTexts(e), NEW x \in PromptTexts(e), f[q] = f[x] PROVE q = x
  <2>1. g[h[q]] = g[h[x]]
    BY <1>9, <1>11, <1>13, <1>15, <1>16
  <2>2. h[q] = h[x]
    BY <1>8, <1>13, <2>1
  <2> QED BY <1>13, <2>2
<1>17. ASSUME NEW x \in PromptTexts(d), ~IsBlank(d[x].text) PROVE \E q \in PromptTexts(e) : f[q] = x
  <2>1. PICK i \in 1 .. n : x = PathAt(i)
    BY <1>6 DEF n, PathAt
  <2>2. PICK j \in 1 .. m : g[j] = i
    BY <1>12, <1>17, <2>1
  <2>3. Now(j) \in PromptTexts(e)
    BY <1>11, <2>1, <2>2
  <2>4. f[Now(j)] = x
    BY <1>14, <1>15, <2>1, <2>2, <2>3
  <2> QED BY <2>3, <2>4
<1>18. Moved(e, d, f)
  BY <1>15, <1>16, <1>17 DEF Moved
<1> QED BY <1>18 DEF e

(* What is looked at depends on the containers alone. *)
LEMMA ShapeTexts ==
    ASSUME NEW d, NEW e, DOMAIN e = DOMAIN d,
           \A q : (IsObj(e, q) <=> IsObj(d, q)) /\ (IsArr(e, q) <=> IsArr(d, q))
    PROVE  SystemTexts(e) = SystemTexts(d) /\ ContentTexts(e) = ContentTexts(d)
<1>2. \A p : Below(e, p) = Below(d, p)
  BY DEF Below
<1>3. \A p : Children(e, p) = Children(d, p)
  BY <1>2 DEF Children
<1>4. \A p : Elements(e, p) = Elements(d, p)
  BY <1>3 DEF Elements
<1>5. \A p : TextContainer(e, p) = TextContainer(d, p)
  BY <1>4 DEF TextContainer
<1>6. \A p : ItemText(e, p) = ItemText(d, p)
  BY DEF ItemText
<1>7. SystemTexts(e) = SystemTexts(d)
  BY <1>4, <1>5, <1>6 DEF SystemTexts, SystemItems
<1>9. ContentTexts(e) = ContentTexts(d)
  BY <1>4, <1>5 DEF ContentTexts
<1> QED BY <1>7, <1>9

(* PromptTexts in the place of texts leave every text where it was. *)
LEMMA RetextedTexts ==
    ASSUME NEW d, NEW e, Retexted(d, e)
    PROVE  SystemTexts(e) = SystemTexts(d) /\ PromptTexts(e) = PromptTexts(d) /\ ContentTexts(e) = ContentTexts(d)
<1>1. DOMAIN e = DOMAIN d
  BY DEF Retexted
<1>2. \A q : /\ IsObj(e, q) <=> IsObj(d, q)
             /\ IsArr(e, q) <=> IsArr(d, q)
             /\ IsText(e, q) <=> IsText(d, q)
  BY RetextedShape
<1>3. SystemTexts(e) = SystemTexts(d) /\ ContentTexts(e) = ContentTexts(d)
  BY <1>1, <1>2, ShapeTexts
<1>4. PromptTexts(e) = PromptTexts(d)
  BY <1>2, <1>3 DEF PromptTexts
<1> QED BY <1>3, <1>4

(* What stripping makes of each text: moved, and without billing lines. *)
StrippedMoved(e, d, f) ==
    /\ f \in [PromptTexts(e) -> PromptTexts(d)]
    /\ \A q \in PromptTexts(e) : e[q].text = StripBillingHeaderBlock(d[f[q]].text)
    /\ \A q, x \in PromptTexts(e) : f[q] = f[x] => q = x
    /\ \A x \in PromptTexts(d) : ~IsBlank(StripBillingHeaderBlock(d[x].text)) => \E q \in PromptTexts(e) : f[q] = x

LEMMA TextIs == \A t : Text(t).text = t /\ "text" \in DOMAIN Text(t)
BY DEF Text

LEMMA StripMoves ==
    ASSUME NEW d, Grown(d)
    PROVE  /\ \E f : StrippedMoved(StripBillingHeader(d), d, f)
           /\ IsArr(StripBillingHeader(d), System) <=> IsArr(d, System)
           /\ IsObj(StripBillingHeader(d), System) <=> IsObj(d, System)
           /\ System \in DOMAIN StripBillingHeader(d) <=> System \in DOMAIN d
<1> DEFINE s == Stripped(d)
           e == StripBillingHeader(d)
<1>1. Retexted(d, s) /\ e = IF IsArr(d, System) THEN RetainItems(s) ELSE s
  BY StrippedIs
<1>2. PromptTexts(s) = PromptTexts(d) /\ Grown(s)
  BY <1>1, RetextedTexts, RetextedGrown
<1>3. (IsArr(s, System) <=> IsArr(d, System)) /\ (IsObj(s, System) <=> IsObj(d, System))
  BY <1>1, RetextedShape
<1>4. \A q \in PromptTexts(d) : s[q].text = StripBillingHeaderBlock(d[q].text)
  <2>1. ASSUME NEW q \in PromptTexts(d) PROVE s[q] = Text(StripBillingHeaderBlock(d[q].text))
    <3>1. q \in SystemTexts(d) /\ IsText(d, q) /\ q \in DOMAIN d
      BY DEF PromptTexts, IsText
    <3> QED BY <3>1 DEF Stripped, MapTexts
  <2> QED BY <2>1, TextIs
<1>5. DOMAIN s = DOMAIN d
  BY <1>1 DEF Retexted
<1> HIDE DEF s, e
<1>6. CASE IsArr(d, System)
  <2>1. PICK f : Moved(e, s, f)
    BY <1>1, <1>2, <1>3, <1>6, RetainMoves
  <2>2. StrippedMoved(e, d, f)
    BY <1>2, <1>4, <2>1 DEF Moved, StrippedMoved
  <2>3. IsArr(e, System)
    BY <1>1, <1>2, <1>3, <1>6, RetainListed
  <2>4. ~IsObj(e, System) /\ ~IsObj(d, System) /\ System \in DOMAIN e /\ System \in DOMAIN d
    BY <1>6, <2>3, EncIs DEF IsArr, IsObj
  <2> QED BY <1>6, <2>2, <2>3, <2>4 DEF e
<1>7. CASE ~IsArr(d, System)
  <2>1. e = s
    BY <1>1, <1>7
  <2>2. StrippedMoved(e, d, [q \in PromptTexts(d) |-> q])
    BY <1>2, <1>4, <2>1 DEF StrippedMoved
  <2> QED BY <1>3, <1>5, <2>1, <2>2 DEF e
<1> QED BY <1>6, <1>7

-----------------------------------------------------------------------------
(* Two documents that are the same from the system down. *)
Alike(d, e) == \A q \in Paths : IsPrefix(System, q) => Same(d, e, q)
LEMMA AlikeTexts ==
    ASSUME NEW d, Document(d), NEW e, Document(e), Alike(d, e)
    PROVE  /\ PromptTexts(e) = PromptTexts(d) /\ \A q \in PromptTexts(d) : e[q] = d[q]
           /\ IsArr(e, System) <=> IsArr(d, System)
           /\ IsObj(e, System) <=> IsObj(d, System)
           /\ System \in DOMAIN e <=> System \in DOMAIN d
           /\ SystemTexts(e) = SystemTexts(d)
<1>1. Below(e, System) = Below(d, System)
  BY DEF Below, Document, Alike, Same
<1>2. Children(e, System) = Children(d, System)
  BY <1>1 DEF Children
<1>3. \A q \in Paths : IsPrefix(System, q) =>
        /\ q \in DOMAIN e <=> q \in DOMAIN d
        /\ IsArr(e, q) <=> IsArr(d, q)
        /\ IsObj(e, q) <=> IsObj(d, q)
        /\ IsText(e, q) <=> IsText(d, q)
  BY DEF Alike, Same, IsArr, IsObj, IsText
<1>4. /\ IsArr(e, System) <=> IsArr(d, System)
      /\ IsObj(e, System) <=> IsObj(d, System)
      /\ System \in DOMAIN e <=> System \in DOMAIN d
  BY <1>3, SystemPath
<1>5. Elements(e, System) = Elements(d, System)
  BY <1>2, <1>4 DEF Elements
<1>6. ASSUME NEW c \in Elements(d, System) PROVE ItemText(e, c) = ItemText(d, c)
  <2>1. /\ c \in Paths /\ IsPrefix(System, c) /\ c \o <<"text">> \in Paths /\ IsPrefix(System, c \o <<"text">>)
    BY SystemPath, ElementsBelow
  <2>2. /\ c \in DOMAIN e <=> c \in DOMAIN d
        /\ IsObj(e, c) <=> IsObj(d, c)
        /\ c \o <<"text">> \in DOMAIN e <=> c \o <<"text">> \in DOMAIN d
    BY <1>3, <2>1
  <2> QED BY <2>2 DEF ItemText
<1>7. ~IsArr(d, System) => TextContainer(e, System) = TextContainer(d, System)
  <2>1. System \o <<"text">> \in Paths /\ IsPrefix(System, System \o <<"text">>)
    BY SystemPath, TextPath, ConcatIs
  <2>2. System \o <<"text">> \in DOMAIN e <=> System \o <<"text">> \in DOMAIN d
    BY <1>3, <2>1
  <2>3. CASE System \notin DOMAIN d
    <3>1. /\ System \notin DOMAIN e /\ ~IsArr(d, System) /\ ~IsObj(d, System)
          /\ ~IsArr(e, System) /\ ~IsObj(e, System)
      BY <1>4, <2>3 DEF IsArr, IsObj
    <3> QED BY <2>3, <3>1 DEF TextContainer
  <2>4. CASE System \in DOMAIN d /\ ~IsArr(d, System) /\ IsObj(d, System)
    <3>1. System \in DOMAIN e /\ ~IsArr(e, System) /\ IsObj(e, System)
      BY <1>4, <2>4
    <3>2. TextContainer(d, System) = {System \o <<"text">>} \cap DOMAIN d
      BY <2>4 DEF TextContainer
    <3>3. TextContainer(e, System) = {System \o <<"text">>} \cap DOMAIN e
      BY <3>1 DEF TextContainer
    <3> QED BY <2>2, <3>2, <3>3
  <2>5. CASE System \in DOMAIN d /\ ~IsArr(d, System) /\ ~IsObj(d, System)
    <3>1. TextContainer(d, System) = {System}
      BY <2>5 DEF TextContainer
    <3>2. TextContainer(e, System) = {System}
      BY <1>4, <2>5 DEF TextContainer
    <3> QED BY <3>1, <3>2
  <2> QED BY <2>3, <2>4, <2>5
<1>8. SystemTexts(e) = SystemTexts(d)
  BY <1>4, <1>5, <1>6, <1>7 DEF SystemTexts, SystemItems
<1>9. \A q \in SystemTexts(d) : q \in Paths /\ IsPrefix(System, q)
  BY SystemTextsBelow
<1>10. PromptTexts(e) = PromptTexts(d)
  BY <1>3, <1>8, <1>9 DEF PromptTexts
<1>11. ASSUME NEW q \in PromptTexts(d) PROVE e[q] = d[q]
  <2>1. q \in Paths /\ IsPrefix(System, q) /\ q \in DOMAIN d
    BY <1>9 DEF PromptTexts, IsText
  <2> QED BY <2>1 DEF Alike, Same
<1> QED BY <1>4, <1>8, <1>10, <1>11

(* Neither the metadata nor the messages are in the system. *)
LEMMA RemindedAlike ==
    ASSUME NEW d, Document(d), IsFiniteSet(DOMAIN d)
    PROVE  /\ Alike(d, RewriteMessagesMetadata(d)) /\ Alike(d, Reminded(d))
           /\ Document(RewriteMessagesMetadata(d)) /\ Document(Reminded(d))
<1> DEFINE m == RewriteMessagesMetadata(d)
<1>1. DOMAIN m = DOMAIN d /\ \A q \in DOMAIN d : q # <<"metadata", "user_id">> => m[q] = d[q]
  BY MetadataIs
<1>2. \A q \in Paths : IsPrefix(System, q) => q # <<"metadata", "user_id">> /\ q[1] = "system"
  BY SystemPath
<1>3. Alike(d, m)
  BY <1>1, <1>2 DEF Alike, Same
<1> HIDE DEF m
<1>4. Document(m)
  BY <1>1 DEF Document
<1>5. \A q \in ContentTexts(m) : q[1] = "messages"
  BY <1>4, ContentTextsBelow
<1>6. DOMAIN Reminded(d) = DOMAIN m /\ \A q \in DOMAIN m : q \notin ContentTexts(m) => Reminded(d)[q] = m[q]
  BY DEF Reminded, MapTexts, m
<1>7. Alike(d, Reminded(d))
  <2>1. \A q \in Paths : IsPrefix(System, q) => q \notin ContentTexts(m)
    BY <1>2, <1>5
  <2> QED BY <1>3, <1>6, <2>1 DEF Alike, Same
<1> QED BY <1>3, <1>4, <1>7, RemindedIs DEF m

(* Lines taken from a text: one from each and all that say something, with *)
(* the words they had or reworded.                                         *)
SameWords(a, b) == DOMAIN a = DOMAIN b /\ \A field \in DOMAIN a \ {"cr"} : a[field] = b[field]
Means(new, old, reworded) ==
    IF reworded THEN \E hash : SameWords(new, RewriteLine(old, hash)) ELSE SameWords(new, old)
Selected(new, old, g, reworded) ==
    /\ g \in [DOMAIN new -> DOMAIN old]
    /\ \A i \in DOMAIN new : Means(new[i], old[g[i]], reworded)
    /\ \A i, j \in DOMAIN new : g[i] = g[j] => i = j
    /\ \A i \in DOMAIN old : Spoken(old[i]) => \E j \in DOMAIN new : g[j] = i
Taken(new, old, reworded) == \E g : Selected(new, old, g, reworded)
IsList(text) == text \in Seq(Range(text))
Speaks(text) == \E i \in DOMAIN text : Spoken(text[i])

LEMMA WordsAre ==
    /\ \A a : SameWords(a, a)
    /\ \A a, b, c : SameWords(a, b) /\ SameWords(b, c) => SameWords(a, c)
    /\ \A a, b : SameWords(a, b) => (IsBilling(a) <=> IsBilling(b)) /\ (Spoken(a) <=> Spoken(b))
<1>1. \A a, b : SameWords(a, b) => (IsBilling(a) <=> IsBilling(b))
  BY DEF SameWords, IsBilling
<1> QED BY <1>1 DEF SameWords, Spoken

LEMMA RewordedWords ==
    ASSUME NEW a, NEW b, NEW hash
    PROVE  /\ SameWords(a, b) => SameWords(RewriteLine(a, hash), RewriteLine(b, hash))
           /\ Spoken(RewriteLine(a, hash)) <=> Spoken(a)
<1>1. SameWords(a, b) => SameWords(RewriteLine(a, hash), RewriteLine(b, hash))
  BY DEF SameWords, RewriteLine
<1> DEFINE k == RewriteLine(a, hash)
<1>2. DOMAIN k = DOMAIN a /\ ("billing" \in DOMAIN k => k.billing = a.billing)
  BY LineFields
<1> HIDE DEF k
<1>3. Spoken(k) <=> Spoken(a)
  BY <1>2 DEF Spoken, IsBilling
<1> QED BY <1>1, <1>3 DEF k

LEMMA MeansSpoken ==
    ASSUME NEW new, NEW old, NEW reworded, Means(new, old, reworded)
    PROVE  Spoken(new) <=> Spoken(old)
BY WordsAre, RewordedWords DEF Means

LEMMA TakenTwice ==
    ASSUME NEW a, NEW b, NEW c, NEW reworded, Taken(b, a, FALSE), Taken(c, b, reworded)
    PROVE  Taken(c, a, reworded)
<1>1. PICK f : Selected(b, a, f, FALSE)
  BY DEF Taken
<1>2. PICK g : Selected(c, b, g, reworded)
  BY DEF Taken
<1> DEFINE h == [i \in DOMAIN c |-> f[g[i]]]
<1>3. /\ f \in [DOMAIN b -> DOMAIN a] /\ \A i \in DOMAIN b : SameWords(b[i], a[f[i]])
      /\ \A i, j \in DOMAIN b : f[i] = f[j] => i = j
      /\ \A i \in DOMAIN a : Spoken(a[i]) => \E j \in DOMAIN b : f[j] = i
  BY <1>1 DEF Selected, Means
<1>4. /\ g \in [DOMAIN c -> DOMAIN b] /\ \A i \in DOMAIN c : Means(c[i], b[g[i]], reworded)
      /\ \A i, j \in DOMAIN c : g[i] = g[j] => i = j
      /\ \A i \in DOMAIN b : Spoken(b[i]) => \E j \in DOMAIN c : g[j] = i
  BY <1>2 DEF Selected
<1>5. h \in [DOMAIN c -> DOMAIN a] /\ \A i, j \in DOMAIN c : h[i] = h[j] => i = j
  BY <1>3, <1>4
<1>6. ASSUME NEW i \in DOMAIN c PROVE Means(c[i], a[h[i]], reworded)
  <2>1. SameWords(b[g[i]], a[h[i]]) /\ Means(c[i], b[g[i]], reworded)
    BY <1>3, <1>4
  <2> HIDE DEF h
  <2> QED BY <2>1, WordsAre, RewordedWords DEF Means
<1>7. ASSUME NEW i \in DOMAIN a, Spoken(a[i]) PROVE \E j \in DOMAIN c : h[j] = i
  <2>1. PICK k \in DOMAIN b : f[k] = i
    BY <1>3, <1>7
  <2>2. Spoken(b[k])
    BY <1>3, <1>7, <2>1, WordsAre
  <2>3. PICK j \in DOMAIN c : g[j] = k
    BY <1>4, <2>2
  <2> QED BY <2>1, <2>3
<1> HIDE DEF h
<1>8. Selected(c, a, h, reworded)
  BY <1>5, <1>6, <1>7 DEF Selected
<1> QED BY <1>8 DEF Taken

LEMMA SameTaken == \A text : Taken(text, text, FALSE)
<1> TAKE text
<1>1. Selected(text, text, [i \in DOMAIN text |-> i], FALSE)
  BY WordsAre DEF Selected, Means
<1> QED BY <1>1 DEF Taken

LEMMA RewordedTaken ==
    ASSUME NEW text, NEW hash
    PROVE  Taken(RewritePromptText(text, hash), text, TRUE)
<1> DEFINE new == RewritePromptText(text, hash)
<1>1. DOMAIN new = DOMAIN text /\ \A i \in DOMAIN text : new[i] = RewriteLine(text[i], hash)
  BY DEF RewritePromptText
<1> HIDE DEF new
<1>2. Selected(new, text, [i \in DOMAIN text |-> i], TRUE)
  BY <1>1, WordsAre DEF Selected, Means
<1> QED BY <1>2 DEF Taken, new

LEMMA TextLinesTaken ==
    ASSUME NEW S, NEW text \in Seq(S)
    PROVE  IsList(TextLines(text)) /\ Taken(TextLines(text), text, FALSE)
<1> DEFINE new == TextLines(text)
           n == Len(text)
<1>1. n \in Nat /\ DOMAIN text = 1 .. n
  BY LenProperties
<1> DEFINE m == IF n # 0 /\ IsEmptyLine(text[n]) THEN n - 1 ELSE n
<1>2. m \in Nat /\ {j \in DOMAIN text : j < n \/ ~IsEmptyLine(text[j])} = 1 .. m
  BY <1>1
<1>3. DOMAIN new = 1 .. m /\ \A i \in 1 .. m : i \in DOMAIN text /\ (new[i] = text[i] \/ new[i] = WithoutCr(text[i]))
  BY <1>1, <1>2 DEF TextLines
<1>4. new = [i \in 1 .. m |-> new[i]]
  BY <1>2 DEF TextLines
<1>5. \A i \in DOMAIN text : i \in 1 .. m \/ IsEmptyLine(text[i])
  BY <1>1
<1> HIDE DEF new, m, n
<1>6. IsList(new)
  <2>1. new \in [1 .. m -> Range(new)]
    BY <1>3, <1>4 DEF Range
  <2> QED BY <1>2, <2>1, SeqDef DEF IsList
<1>7. \A line : SameWords(WithoutCr(line), line) /\ (IsEmptyLine(line) => ~Spoken(line))
  BY DEF SameWords, WithoutCr, IsEmptyLine, Spoken
<1>8. Selected(new, text, [i \in DOMAIN new |-> i], FALSE)
  BY <1>3, <1>5, <1>7, WordsAre DEF Selected, Means
<1> QED BY <1>6, <1>8 DEF Taken, new

LEMMA WithoutTaken ==
    ASSUME NEW text, IsList(text)
    PROVE  LET new == Without(text, {line \in Range(text) : IsBilling(line)})
           IN  IsList(new) /\ Taken(new, text, FALSE) /\ \A i \in DOMAIN new : ~IsBilling(new[i])
<1> DEFINE S == Range(text)
           drop == {line \in Range(text) : IsBilling(line)}
           new == Without(text, drop)
<1>1. text \in Seq(S) /\ DOMAIN text = 1 .. Len(text)
  BY LenProperties DEF IsList
<1>2. \A i \in DOMAIN text : text[i] \notin drop <=> ~IsBilling(text[i])
  BY DEF Range
<1> HIDE DEF S, drop
<1>3. new \in Seq(S) /\ \E g : Origin(text, drop, new, Len(text), g)
  BY <1>1, FilterSeq, FilterOrigin
<1> HIDE DEF new
<1>4. PICK g : Origin(text, drop, new, Len(text), g)
  BY <1>3
<1>5. DOMAIN new = 1 .. Len(new) /\ Len(new) \in Nat /\ new = [i \in 1 .. Len(new) |-> new[i]]
  BY <1>3, LenProperties
<1>6. /\ g \in [DOMAIN new -> DOMAIN text]
      /\ \A i \in DOMAIN new : text[g[i]] \notin drop /\ new[i] = text[g[i]]
      /\ \A i \in DOMAIN text : text[i] \notin drop => \E j \in DOMAIN new : g[j] = i
      /\ \A i, j \in DOMAIN new : g[i] = g[j] => i = j
  BY <1>1, <1>4, <1>5 DEF Origin
<1>7. IsList(new)
  <2>1. new \in [1 .. Len(new) -> Range(new)]
    BY <1>5 DEF Range
  <2> QED BY <1>5, <2>1, SeqDef DEF IsList
<1>8. Selected(new, text, g, FALSE)
  BY <1>2, <1>6, WordsAre DEF Selected, Means, Spoken
<1>9. \A i \in DOMAIN new : ~IsBilling(new[i])
  BY <1>2, <1>6
<1> QED BY <1>7, <1>8, <1>9 DEF Taken, new, drop

(* Stripping takes lines from a text and leaves no billing line. *)
LEMMA BlockTaken ==
    ASSUME NEW S, NEW text \in Seq(S)
    PROVE  LET new == StripBillingHeaderBlock(text)
           IN  IsList(new) /\ Taken(new, text, FALSE) /\ \A i \in DOMAIN new : ~IsBilling(new[i])
<1> DEFINE lines == TextLines(text)
           kept == Without(lines, {line \in Range(lines) : IsBilling(line)})
           new == JoinLines(kept)
<1>1. IsList(lines) /\ Taken(lines, text, FALSE)
  BY TextLinesTaken
<1> HIDE DEF lines
<1>2. IsList(kept) /\ Taken(kept, lines, FALSE) /\ \A i \in DOMAIN kept : ~IsBilling(kept[i])
  BY <1>1, WithoutTaken
<1>3. StripBillingHeaderBlock(text) = new
  BY DEF StripBillingHeaderBlock, lines
<1> HIDE DEF kept
<1>4. IsList(new) /\ Taken(new, kept, FALSE) /\ \A i \in DOMAIN new : ~IsBilling(new[i])
  <2>1. CASE Len(kept) = 1 /\ IsEmptyLine(kept[1])
    <3>1. new = << >> /\ DOMAIN new = {}
      BY <2>1 DEF JoinLines
    <3> HIDE DEF new
    <3>2. IsList(new)
      BY <3>1, EmptySeq DEF IsList
    <3>3. \A i \in DOMAIN kept : ~Spoken(kept[i])
      <4>1. DOMAIN kept = 1 .. 1
        BY <1>2, <2>1, LenProperties DEF IsList
      <4>2. ~Spoken(kept[1])
        BY <2>1 DEF Spoken, IsEmptyLine
      <4>3. \A i \in 1 .. 1 : i = 1
        OBVIOUS
      <4> QED BY <4>1, <4>2, <4>3
    <3>4. Selected(new, kept, [i \in {} |-> i], FALSE)
      BY <3>1, <3>3 DEF Selected
    <3> QED BY <3>1, <3>2, <3>4 DEF Taken
  <2>2. CASE ~(Len(kept) = 1 /\ IsEmptyLine(kept[1]))
    BY <1>2, <2>2, SameTaken DEF JoinLines
  <2> QED BY <2>1, <2>2
<1> HIDE DEF new
<1>5. Taken(new, text, FALSE)
  BY <1>1, <1>2, <1>4, TakenTwice
<1> QED BY <1>3, <1>4, <1>5

LEMMA KeptTaken ==
    ASSUME NEW text, IsList(text), NEW strip
    PROVE  IsList(KeptText(text, strip)) /\ Taken(KeptText(text, strip), text, FALSE)
BY BlockTaken, SameTaken DEF KeptText, IsList

LEMMA SpeaksIs ==
    ASSUME NEW new, NEW old, Taken(new, old, FALSE), Speaks(old)
    PROVE  Speaks(new) /\ ~IsBlank(new)
<1>1. PICK g : Selected(new, old, g, FALSE)
  BY DEF Taken
<1>2. PICK i \in DOMAIN old : Spoken(old[i])
  BY DEF Speaks
<1>3. PICK j \in DOMAIN new : g[j] = i
  BY <1>1, <1>2 DEF Selected
<1>4. Spoken(new[j])
  BY <1>1, <1>2, <1>3, MeansSpoken DEF Selected
<1> QED BY <1>4 DEF Speaks, IsBlank, Spoken

(* What a message's prompt is made of: each text from one of the client's. *)
Prompts(e, d, f, reworded) ==
    /\ f \in [PromptTexts(e) -> PromptTexts(d)]
    /\ \A q \in PromptTexts(e) : Taken(e[q].text, d[f[q]].text, reworded)
    /\ \A q, x \in PromptTexts(e) : f[q] = f[x] => q = x
    /\ \A x \in PromptTexts(d) : Speaks(d[x].text) => \E q \in PromptTexts(e) : f[q] = x
ListTexts(d) == \A q \in PromptTexts(d) : IsList(d[q].text)
SystemStays(e, d) ==
    /\ IsArr(e, System) <=> IsArr(d, System)
    /\ IsObj(e, System) <=> IsObj(d, System)
    /\ System \in DOMAIN e <=> System \in DOMAIN d

LEMMA AlikePrompts ==
    ASSUME NEW d, Document(d), NEW e, Document(e), Alike(d, e)
    PROVE  (\E f : Prompts(e, d, f, FALSE)) /\ SystemStays(e, d)
<1>1. PromptTexts(e) = PromptTexts(d) /\ (\A q \in PromptTexts(d) : e[q] = d[q]) /\ SystemStays(e, d)
  BY AlikeTexts DEF SystemStays
<1>2. Prompts(e, d, [q \in PromptTexts(d) |-> q], FALSE)
  BY <1>1, SameTaken DEF Prompts
<1> QED BY <1>1, <1>2

LEMMA KeptPrompts ==
    ASSUME NEW d, Grown(d), ListTexts(d), NEW strip \in BOOLEAN
    PROVE  LET e == IF strip THEN StripBillingHeader(d) ELSE d
           IN  (\E f : Prompts(e, d, f, FALSE)) /\ SystemStays(e, d) /\ ListTexts(e)
<1>1. CASE strip
  <2> DEFINE e == StripBillingHeader(d)
  <2>1. (\E f : StrippedMoved(e, d, f)) /\ SystemStays(e, d)
    BY StripMoves DEF SystemStays
  <2> HIDE DEF e
  <2>2. PICK f : StrippedMoved(e, d, f)
    BY <2>1
  <2>3. \A x \in PromptTexts(d) : /\ IsList(StripBillingHeaderBlock(d[x].text))
                                  /\ Taken(StripBillingHeaderBlock(d[x].text), d[x].text, FALSE)
    BY BlockTaken DEF ListTexts, IsList
  <2>4. \A x \in PromptTexts(d) : Speaks(d[x].text) => ~IsBlank(StripBillingHeaderBlock(d[x].text))
    BY <2>3, SpeaksIs
  <2>5. \A q \in PromptTexts(e) : IsList(e[q].text) /\ Taken(e[q].text, d[f[q]].text, FALSE)
    <3>1. \A q \in PromptTexts(e) : f[q] \in PromptTexts(d) /\ e[q].text = StripBillingHeaderBlock(d[f[q]].text)
      BY <2>2 DEF StrippedMoved
    <3> QED BY <2>3, <3>1
  <2>6. ListTexts(e)
    BY <2>5 DEF ListTexts
  <2>7. Prompts(e, d, f, FALSE)
    BY <2>2, <2>4, <2>5 DEF StrippedMoved, Prompts
  <2> QED BY <1>1, <2>1, <2>6, <2>7 DEF e
<1>2. CASE ~strip
  <2>1. Alike(d, d) /\ Document(d)
    BY DEF Alike, Same, Grown
  <2> QED BY <1>2, <2>1, AlikePrompts
<1> QED BY <1>1, <1>2

LEMMA RewordedPrompts ==
    ASSUME NEW d, Grown(d), ListTexts(d), NEW hash, NEW strip \in BOOLEAN, ~IsObj(d, System)
    PROVE  LET e == RewriteSystemBody(d, hash, strip)
           IN  (\E f : Prompts(e, d, f, TRUE)) /\ SystemStays(e, d)
<1> DEFINE k == Unbilled(d, strip)
           e == Prompted(k, hash, strip)
<1>1. RewriteSystemBody(d, hash, strip) = e
  BY PromptedIs
<1>2. (\E f : Prompts(k, d, f, FALSE)) /\ SystemStays(k, d) /\ ListTexts(k)
  <2>1. k = IF strip /\ IsArr(d, System) THEN StripBillingHeader(d) ELSE d
    BY DEF Unbilled
  <2> HIDE DEF k
  <2>2. k = (IF TRUE THEN StripBillingHeader(d) ELSE d) \/ k = IF FALSE THEN StripBillingHeader(d) ELSE d
    BY <2>1
  <2> QED BY <2>2, KeptPrompts
<1> HIDE DEF k
<1>3. Retexted(k, e)
  BY PromptedIs
<1>4. PromptTexts(e) = PromptTexts(k) /\ SystemStays(e, k)
  <2>1. (IsArr(e, System) <=> IsArr(k, System)) /\ (IsObj(e, System) <=> IsObj(k, System))
    BY <1>3, RetextedShape
  <2>2. DOMAIN e = DOMAIN k
    BY <1>3 DEF Retexted
  <2>3. PromptTexts(e) = PromptTexts(k)
    BY <1>3, RetextedTexts
  <2> HIDE DEF e
  <2> QED BY <2>1, <2>2, <2>3 DEF SystemStays
<1>5. \A q \in PromptTexts(k) : e[q].text = RewritePromptText(KeptText(k[q].text, strip), hash)
  <2>1. ASSUME NEW q \in PromptTexts(k) PROVE e[q] = Text(RewritePromptText(KeptText(k[q].text, strip), hash))
    <3>1. q \in SystemTexts(k) /\ IsText(k, q) /\ q \in DOMAIN k
      BY DEF PromptTexts, IsText
    <3> QED BY <3>1, PromptedIs
  <2> QED BY <2>1, TextIs
<1> HIDE DEF e
<1>6. PICK f : Prompts(k, d, f, FALSE)
  BY <1>2
<1>7. ASSUME NEW q \in PromptTexts(e) PROVE Taken(e[q].text, d[f[q]].text, TRUE)
  <2> DEFINE kept == KeptText(k[q].text, strip)
  <2>1. q \in PromptTexts(k) /\ IsList(k[q].text) /\ Taken(k[q].text, d[f[q]].text, FALSE)
    BY <1>2, <1>4, <1>6 DEF Prompts, ListTexts
  <2>2. Taken(kept, k[q].text, FALSE)
    BY <2>1, KeptTaken
  <2>3. e[q].text = RewritePromptText(kept, hash)
    BY <1>5, <2>1
  <2> HIDE DEF kept
  <2>4. Taken(e[q].text, kept, TRUE)
    BY <2>3, RewordedTaken
  <2> QED BY <2>1, <2>2, <2>4, TakenTwice
<1>8. Prompts(e, d, f, TRUE)
  BY <1>4, <1>6, <1>7 DEF Prompts
<1>9. SystemStays(e, d)
  BY <1>2, <1>4 DEF SystemStays
<1> QED BY <1>1, <1>8, <1>9

LEMMA PromptsAlike ==
    ASSUME NEW d, Document(d), NEW u, Document(u), Alike(d, u), NEW e, NEW reworded,
           \E f : Prompts(e, u, f, reworded), SystemStays(e, u)
    PROVE  (\E f : Prompts(e, d, f, reworded)) /\ SystemStays(e, d)
<1>1. PromptTexts(u) = PromptTexts(d) /\ (\A q \in PromptTexts(d) : u[q] = d[q]) /\ (System \in DOMAIN u <=> System \in DOMAIN d)
      /\ (IsArr(u, System) <=> IsArr(d, System)) /\ (IsObj(u, System) <=> IsObj(d, System))
  BY AlikeTexts
<1>2. PICK f : Prompts(e, u, f, reworded)
  OBVIOUS
<1>3. Prompts(e, d, f, reworded)
  BY <1>1, <1>2 DEF Prompts
<1>4. SystemStays(e, d)
  BY <1>1 DEF SystemStays
<1> QED BY <1>3, <1>4

LEMMA MessagesPrompts ==
    ASSUME NEW d, Grown(d), ListTexts(d), IsFiniteSet(DOMAIN d), NEW policy, policy.strip \in BOOLEAN, NEW fallback
    PROVE  LET e == RewriteMessagesBody(d, policy, fallback)
               reworded == policy.mode = "aggressive" /\ ~IsObj(d, System)
           IN  (\E f : Prompts(e, d, f, reworded)) /\ SystemStays(e, d)
<1> DEFINE e == RewriteMessagesBody(d, policy, fallback)
           m == RewriteMessagesMetadata(d)
           u == Reminded(d)
           hash == BillingHash(d, fallback)
           k == IF policy.strip THEN StripBillingHeader(m) ELSE m
<1>1. Document(d) /\ Alike(d, m) /\ Alike(d, u) /\ Grown(m) /\ Grown(u) /\ Document(m) /\ Document(u)
  BY MetadataGrown, RemindedGrown, RemindedAlike DEF Grown
<1>2. policy.mode = "aggressive" => e = RewriteSystemBody(u, hash, policy.strip)
  BY AggressiveBody
<1>3. policy.mode # "aggressive" => e = k
  BY DEF RewriteMessagesBody
<1> HIDE DEF e, u, hash
<1>4. (IsObj(u, System) <=> IsObj(d, System)) /\ ListTexts(u) /\ ListTexts(m)
  BY <1>1, AlikeTexts DEF ListTexts
<1>5. CASE policy.mode = "aggressive" /\ ~IsObj(d, System)
  <2>1. (\E f : Prompts(e, u, f, TRUE)) /\ SystemStays(e, u)
    BY <1>1, <1>2, <1>4, <1>5, RewordedPrompts
  <2>2. (\E f : Prompts(e, d, f, TRUE)) /\ SystemStays(e, d)
    BY <1>1, <2>1, PromptsAlike
  <2> QED BY <1>5, <2>2 DEF e
<1>6. CASE policy.mode = "aggressive" /\ IsObj(d, System)
  <2>1. e = u
    BY <1>2, <1>4, <1>6 DEF RewriteSystemBody
  <2>2. (\E f : Prompts(e, d, f, FALSE)) /\ SystemStays(e, d)
    BY <1>1, <2>1, AlikePrompts
  <2>3. (policy.mode = "aggressive" /\ ~IsObj(d, System)) = FALSE
    BY <1>6
  <2> QED BY <2>2, <2>3 DEF e
<1>7. CASE policy.mode # "aggressive"
  <2>1. (\E f : Prompts(k, m, f, FALSE)) /\ SystemStays(k, m)
    BY <1>1, <1>4, KeptPrompts
  <2> HIDE DEF k, m
  <2>2. (\E f : Prompts(e, d, f, FALSE)) /\ SystemStays(e, d)
    <3>1. (\E f : Prompts(e, m, f, FALSE)) /\ SystemStays(e, m)
      BY <1>3, <1>7, <2>1
    <3> QED BY <1>1, <3>1, PromptsAlike
  <2>3. (policy.mode = "aggressive" /\ ~IsObj(d, System)) = FALSE
    BY <1>7
  <2> QED BY <2>2, <2>3 DEF e
<1> QED BY <1>5, <1>6, <1>7

(* Texts as a parser gives them. *)
Lined(d) == \A q \in DOMAIN d : "text" \in DOMAIN d[q] =>
                IsList(d[q].text) /\ \A line \in Range(d[q].text) : IsLine(line)

LEMMA RequestLined ==
    ASSUME RewriteInv
    PROVE  Lined(request.body) /\ IsFiniteSet(DOMAIN request.body) /\ ListTexts(request.body)
<1>1. Lined(request.body) /\ IsFiniteSet(DOMAIN request.body)
  BY ClientRequestsAssumption DEF RewriteInv, Lined, IsList
<1> QED BY <1>1 DEF Lined, ListTexts, PromptTexts, IsText

-----------------------------------------------------------------------------
LEMMA SystemKeys ==
    ASSUME NEW d, Grown(d), NEW q \in SystemTexts(d)
    PROVE  q \in Paths /\ q # << >> /\ Key(q) \notin TimestampKeys
<1>1. q \in Paths /\ q \in DOMAIN d /\ IsPrefix(System, q)
  BY SystemTextsBelow DEF Grown
<1>2. "system" \in Keys /\ "text" \in Keys /\ "system" \notin TimestampKeys /\ "text" \notin TimestampKeys
  BY DEF Keys, Words, TimestampKeys
<1>3. q # << >>
  BY <1>1, SystemPath
<1>4. System \in Paths /\ Key(System) = "system"
  BY <1>2, FirstKey, SystemPath DEF System
<1>5. \A p \in Paths : Key(p \o <<"text">>) = "text"
  BY <1>2, ChildIs
<1>6. CASE IsArr(d, System)
  <2>1. PICK c \in Elements(d, System) : q \in ItemText(d, c)
    BY <1>6 DEF SystemTexts, SystemItems
  <2>2. q = c \/ q = c \o <<"text">>
    BY <2>1 DEF ItemText
  <2>3. c \in Paths /\ Key(c) \in Range(Index)
    <3> DEFINE n == Cardinality(Elements(d, System))
    <3>1. n \in 0 .. Len(Index) /\ Elements(d, System) = {System \o <<Index[i]>> : i \in 1 .. n}
      BY <1>4, <1>6, ElementsAre
    <3> HIDE DEF n
    <3>2. PICK i \in 1 .. n : c = System \o <<Index[i]>>
      BY <2>1, <3>1
    <3>3. i \in 1 .. Len(Index)
      BY <3>1, IndexIs
    <3>4. Index[i] \in Keys /\ Index[i] \in Range(Index)
      BY <3>3, IndexIs
    <3> QED BY <1>4, <3>2, <3>4, ChildIs
  <2>4. Key(c) \notin TimestampKeys
    BY <2>3, FieldsAre DEF FieldKeys
  <2> QED BY <1>1, <1>2, <1>3, <1>5, <2>2, <2>3, <2>4
<1>7. CASE ~IsArr(d, System)
  <2>1. q \in TextContainer(d, System)
    BY <1>7 DEF SystemTexts
  <2>2. q = System \/ q = System \o <<"text">>
    BY <1>7, <2>1 DEF TextContainer, IsArr, IsObj
  <2> QED BY <1>1, <1>2, <1>3, <1>4, <1>5, <2>2
<1> QED BY <1>6, <1>7

LEMMA TimedTexts ==
    ASSUME NEW d, Grown(d), NEW e, Timed(e, d)
    PROVE  /\ PromptTexts(e) = PromptTexts(d) /\ \A q \in PromptTexts(d) : e[q] = d[q]
           /\ SystemStays(e, d) /\ Same(e, d, << >>)
<1>1. DOMAIN e = DOMAIN d /\ \A q : (IsObj(e, q) <=> IsObj(d, q)) /\ (IsArr(e, q) <=> IsArr(d, q))
  BY TimedGrown DEF Timed
<1>2. SystemTexts(e) = SystemTexts(d)
  BY <1>1, ShapeTexts
<1>3. ASSUME NEW q \in SystemTexts(d) PROVE q \in DOMAIN d /\ e[q] = d[q]
  <2>1. q \in DOMAIN d /\ Key(q) \notin TimestampKeys
    BY SystemKeys, SystemTextsBelow DEF Grown
  <2> QED BY <2>1 DEF Timed
<1>4. PromptTexts(e) = PromptTexts(d) /\ \A q \in PromptTexts(d) : e[q] = d[q]
  BY <1>1, <1>2, <1>3 DEF PromptTexts, IsText
<1>5. SystemStays(e, d)
  BY <1>1 DEF SystemStays
<1>6. Same(e, d, << >>)
  BY <1>1 DEF Timed, Same
<1> QED BY <1>4, <1>5, <1>6

LEMMA BatchPrompts ==
    ASSUME NEW d, Grown(d), NEW policy, NEW drawn \in [EventData(d) -> Metrics]
    PROVE  LET e == RewriteEventBatch(d, policy, drawn)
           IN  (\E f : Prompts(e, d, f, FALSE)) /\ SystemStays(e, d) /\ Same(e, d, << >>)
<1> DEFINE b == Rewritten(d, policy, drawn)
           e == RewriteEventBatch(d, policy, drawn)
<1>1. EventsReplaced(b, d, policy, drawn) /\ Grown(b)
  BY RewrittenIs
<1>2. e = b \/ Timed(e, b)
  BY BatchIs, TimedIs
<1> HIDE DEF b, e
<1>3. \A q \in Paths : (q = << >> \/ q[1] # "events") => Same(b, d, q)
  <2>1. ASSUME NEW q \in Paths, q = << >> \/ q[1] # "events", NEW p \in EventData(d) PROVE ~IsPrefix(p, q)
    <3>1. CASE q = << >>
      BY <3>1, EventDataIs, PrefixOrder
    <3>2. CASE q[1] # "events"
      BY <3>2, EventsBelow DEF Grown
    <3> QED BY <2>1, <3>1, <3>2
  <2> QED BY <1>1, <2>1 DEF EventsReplaced
<1>4. Alike(d, b) /\ Document(d) /\ Document(b) /\ Same(b, d, << >>)
  <2>1. \A q \in Paths : IsPrefix(System, q) => q[1] # "events"
    BY SystemPath
  <2>2. << >> \in Paths
    BY PrefixOrder, SystemPath
  <2> QED BY <1>1, <1>3, <2>1, <2>2 DEF Alike, Same, Grown
<1>5. CASE e = b
  BY <1>4, <1>5, AlikePrompts DEF e
<1>6. CASE Timed(e, b)
  <2>1. PromptTexts(e) = PromptTexts(b) /\ (\A q \in PromptTexts(b) : e[q] = b[q]) /\ SystemStays(e, b) /\ Same(e, b, << >>)
    BY <1>1, <1>6, TimedTexts
  <2>2. Prompts(e, b, [q \in PromptTexts(b) |-> q], FALSE)
    BY <2>1, SameTaken DEF Prompts
  <2>3. (\E f : Prompts(e, d, f, FALSE)) /\ SystemStays(e, d)
    BY <1>4, <2>1, <2>2, PromptsAlike
  <2>4. Same(e, d, << >>)
    BY <1>4, <2>1 DEF Same
  <2> QED BY <2>3, <2>4 DEF e
<1> QED BY <1>2, <1>5, <1>6

LEMMA GenericPrompts ==
    ASSUME NEW d, Grown(d)
    PROVE  LET e == RewriteEventIdentity(d)
           IN  (\E f : Prompts(e, d, f, FALSE)) /\ SystemStays(e, d) /\ Same(e, d, << >>)
<1>1. Grown(RewriteEventIdentity(d)) /\ Untouched(RewriteEventIdentity(d), d, IdKeys)
  BY IdentityStep
<1>2. Alike(d, RewriteEventIdentity(d))
  <2>1. \A q \in Paths : IsPrefix(System, q) => q[1] \notin IdKeys
    BY SystemPath DEF IdKeys
  <2> QED BY <1>1, <2>1 DEF Alike, Untouched, Same
<1>3. Same(RewriteEventIdentity(d), d, << >>)
  <2>1. << >> \in Paths
    BY PrefixOrder, SystemPath
  <2> QED BY <1>1, <2>1 DEF Untouched
<1> QED BY <1>1, <1>2, <1>3, AlikePrompts DEF Grown

LEMMA MessagesRoot ==
    ASSUME NEW d, Grown(d), IsFiniteSet(DOMAIN d), NEW policy, policy.strip \in BOOLEAN, NEW fallback
    PROVE  Same(RewriteMessagesBody(d, policy, fallback), d, << >>)
<1> DEFINE e == RewriteMessagesBody(d, policy, fallback)
           m == RewriteMessagesMetadata(d)
<1>1. Document(d) /\ << >> \in DOMAIN d /\ << >> \in Paths /\ ~IsPrefix(System, << >>)
  <2>1. << >> \in Paths /\ (IsPrefix(System, << >>) => System = << >>)
    BY PrefixOrder, SystemPath
  <2> QED BY <2>1 DEF System, Grown
<1>2. << >> \in DOMAIN m /\ m[<< >>] = d[<< >>] /\ Document(m)
  BY <1>1, MetadataIs, RemindedAlike
<1>3. Same(Reminded(d), d, << >>)
  <2>1. << >> \notin ContentTexts(m)
    <3>1. ~IsPrefix(<<"messages">>, << >>)
      <4>1. "messages" \in Keys
        BY DEF Keys, Words
      <4> QED BY <1>1, <4>1, FirstKey
    <3> QED BY <1>2, <3>1, ContentTextsBelow
  <2>2. << >> \in DOMAIN Reminded(d) /\ Reminded(d)[<< >>] = m[<< >>]
    BY <1>2, <2>1 DEF Reminded, MapTexts
  <2> QED BY <1>1, <1>2, <2>2 DEF Same
<1>4. Same(m, d, << >>)
  BY <1>1, <1>2 DEF Same
<1>5. /\ policy.mode = "aggressive" => Same(e, Reminded(d), << >>)
      /\ policy.mode # "aggressive" => Same(e, m, << >>)
  BY <1>1, MessagesOutside
<1> HIDE DEF e, m
<1>6. Same(e, d, << >>)
  BY <1>3, <1>4, <1>5 DEF Same
<1> QED BY <1>6 DEF e

LEMMA OtherRoute ==
    ASSUME NEW d, NEW drawn, ~Is("messages"), ~Is("batch"), ~Is("generic")
    PROVE  RewriteRoute(d, request.path, Policy, drawn) = d
BY DEF Is, RewriteRoute

Reworded == Is("messages") /\ Policy.mode = "aggressive" /\ ~IsObj(request.body, System)
LEMMA RoutePrompts ==
    ASSUME RewriteInv, NEW r, NEW drawn, RewrittenBody(r, drawn)
    PROVE  (\E f : Prompts(r, request.body, f, Reworded)) /\ SystemStays(r, request.body) /\ Same(r, request.body, << >>)
<1> DEFINE body == request.body
<1>0. /\ Grown(body) /\ Document(body) /\ IsFiniteSet(DOMAIN body) /\ Policy.strip \in BOOLEAN /\ ListTexts(body)
      /\ drawn.metrics \in [EventData(body) -> Metrics] /\ r = RewriteRoute(body, request.path, Policy, drawn)
  BY PolicyIs, RequestLined DEF RewrittenBody, Draws
<1> HIDE DEF body
<1>1. CASE Is("messages")
  <2>1. r = RewriteMessagesBody(body, Policy, drawn.hash)
    BY <1>0, <1>1, RouteIs
  <2>2. Reworded = (Policy.mode = "aggressive" /\ ~IsObj(body, System))
    BY <1>1 DEF Reworded, body
  <2>3. (\E f : Prompts(r, body, f, Policy.mode = "aggressive" /\ ~IsObj(body, System))) /\ SystemStays(r, body)
    BY <1>0, <2>1, MessagesPrompts
  <2>4. Same(r, body, << >>)
    BY <1>0, <2>1, MessagesRoot
  <2> QED BY <2>2, <2>3, <2>4 DEF body
<1>2. CASE ~Is("messages")
  <2>1. Reworded = FALSE
    BY <1>2 DEF Reworded
  <2>2. (\E f : Prompts(r, body, f, FALSE)) /\ SystemStays(r, body) /\ Same(r, body, << >>)
    <3>1. CASE Is("batch")
      <4>1. r = RewriteEventBatch(body, Policy, drawn.metrics)
        BY <1>0, <3>1, RouteIs
      <4> QED BY <1>0, <4>1, BatchPrompts
    <3>2. CASE Is("generic")
      <4>1. r = RewriteEventIdentity(body)
        BY <1>0, <3>2, RouteIs
      <4> QED BY <1>0, <4>1, GenericPrompts
    <3>3. CASE ~Is("batch") /\ ~Is("generic")
      <4>1. r = body
        BY <1>0, <1>2, <3>3, OtherRoute
      <4>2. Alike(body, r) /\ Same(r, body, << >>)
        BY <4>1 DEF Alike, Same
      <4> QED BY <1>0, <4>1, <4>2, AlikePrompts
    <3> QED BY <3>1, <3>2, <3>3
  <2> QED BY <2>1, <2>2 DEF body
<1> QED BY <1>1, <1>2

-----------------------------------------------------------------------------
(* A preserved field is put back, whatever is preserved before and after   *)
(* it, when its container was left and the field is still there.           *)
LEMMA PreservedIsOriginal ==
    ASSUME NEW original, Grown(original), NEW d, NEW paths \in Seq(Paths),
           NEW i \in 1 .. Len(paths), NEW p, p = paths[i], p # << >>, p \in DOMAIN original, p \in DOMAIN d,
           Same(d, original, Front(p)), NEW q \in Paths, IsPrefix(p, q)
    PROVE  Same(PreserveFields(original, d, paths), original, q)
<1>0. Len(paths) \in Nat /\ (\A k \in 1 .. Len(paths) : paths[k] \in Paths) /\ Document(original)
  BY LenProperties, ElementOfSeq DEF Grown
<1>1. PICK g : /\ PreservedEquation(original, d, paths, g, Len(paths))
               /\ PreserveFields(original, d, paths) = g[Len(paths)]
  BY <1>0, PreservedIs
<1>2. p \in Paths /\ Front(p) \in Paths /\ Key(p) \in Keys /\ p = Front(p) \o <<Key(p)>>
  <2>1. p \in Paths
    BY <1>0
  <2> QED BY <2>1, FrontIs
<1>3. IsObj(original, Front(p)) \/ IsArr(original, Front(p))
  BY <1>2 DEF Grown
<1> DEFINE Good(e) == p \in DOMAIN e /\ Same(e, original, Front(p))
           S == {k \in Nat : k <= Len(paths) => Good(g[k]) /\ (i <= k => Same(g[k], original, q))}
<1>4. 0 \in S
  <2>1. g[0] = d
    BY <1>0, <1>1 DEF PreservedEquation
  <2> QED BY <2>1
<1>5. ASSUME NEW e, Good(e), NEW x \in Paths PROVE Good(PreserveField(original, e, x))
  <2>1. /\ Same(PreserveField(original, e, x), e, p) \/ Same(PreserveField(original, e, x), original, p)
        /\ \/ Same(PreserveField(original, e, x), e, Front(p))
           \/ Same(PreserveField(original, e, x), original, Front(p))
    BY <1>0, <1>2, PreserveFieldSame
  <2> QED BY <1>5, <2>1 DEF Same
<1>6. ASSUME NEW e, Good(e) PROVE Same(PreserveField(original, e, p), original, q)
  <2> DEFINE v == Sub(original, p)
             w == Put(e, p, v)
  <2>1. IsObj(e, Front(p)) \/ (IsArr(e, Front(p)) /\ p \in DOMAIN e)
    BY <1>3, <1>6 DEF Same, IsObj, IsArr
  <2>2. PreserveField(original, e, p) = w
    BY <2>1 DEF PreserveField
  <2>3. Document(v)
    BY <1>0, <1>2, SubDocument
  <2>4. /\ Rest(p, q) \in DOMAIN v <=> q \in DOMAIN original
        /\ q \in DOMAIN original => v[Rest(p, q)] = original[q]
    BY <1>0, <1>2, SubIs
  <2> HIDE DEF v
  <2>5. /\ q \in DOMAIN w <=> Rest(p, q) \in DOMAIN v
        /\ q \in DOMAIN w => w[q] = v[Rest(p, q)]
    BY <1>2, <2>3, PutInside
  <2> HIDE DEF w
  <2>6. Same(w, original, q)
    BY <2>4, <2>5 DEF Same
  <2> QED BY <2>2, <2>6
<1> HIDE DEF Good
<1>7. ASSUME NEW k \in Nat, k \in S PROVE k + 1 \in S
  <2>1. SUFFICES ASSUME k + 1 <= Len(paths)
                 PROVE  Good(g[k + 1]) /\ (i <= k + 1 => Same(g[k + 1], original, q))
    OBVIOUS
  <2>2. k + 1 \in 1 .. Len(paths) /\ k + 1 \in 0 .. Len(paths) /\ (k + 1) - 1 = k /\ k + 1 # 0 /\ k <= Len(paths)
    BY <1>0, <2>1
  <2>3. g[k + 1] = PreserveField(original, g[k], paths[k + 1]) /\ paths[k + 1] \in Paths
    BY <1>0, <1>1, <2>2 DEF PreservedEquation
  <2>4. Good(g[k]) /\ (i <= k => Same(g[k], original, q))
    BY <1>7, <2>2
  <2>5. Good(g[k + 1])
    BY <1>5, <2>3, <2>4
  <2>6. CASE i <= k
    <3>1. Same(g[k + 1], g[k], q) \/ Same(g[k + 1], original, q)
      BY <1>0, <2>3, PreserveFieldSame
    <3> QED BY <2>4, <2>5, <2>6, <3>1 DEF Same
  <2>7. CASE i = k + 1
    <3>1. g[k + 1] = PreserveField(original, g[k], p)
      BY <2>3, <2>7
    <3> QED BY <1>6, <2>4, <2>5, <3>1
  <2>8. i <= k + 1 => i <= k \/ i = k + 1
    BY <1>0
  <2> QED BY <2>5, <2>6, <2>7, <2>8
<1> HIDE DEF S
<1>8. Len(paths) \in S
  BY <1>0, <1>4, <1>7, NatBySet
<1>9. i <= Len(paths)
  BY <1>0
<1> QED BY <1>0, <1>1, <1>8, <1>9 DEF S

LEMMA PreservePaths ==
    ASSUME RewriteInv
    PROVE  /\ Policy.preserve \in Seq(Paths)
           /\ \A i \in DOMAIN Policy.preserve : Policy.preserve[i] # << >> /\ Policy.preserve[i] \in Paths
           /\ DOMAIN Policy.preserve = 1 .. Len(Policy.preserve)
<1>1. Policy.preserve \in Seq(Paths) /\ \A i \in DOMAIN Policy.preserve : Policy.preserve[i] # << >>
  BY OptionIs DEF RewriteInv, Policy
<1>2. DOMAIN Policy.preserve = 1 .. Len(Policy.preserve)
  BY <1>1, LenProperties
<1> QED BY <1>1, <1>2, ElementOfSeq

(* Preserved or not, the system that leaves is a rewritten one, or the     *)
(* client's, unless parts of it are preserved.                             *)
LEMMA OutPrompts ==
    ASSUME RewriteInv, NEW r, NEW drawn, RewrittenBody(r, drawn), ~SystemIndexed
    PROVE  /\ PreservedByName(System) => Alike(request.body, out)
           /\ ~PreservedByName(System) =>
                Alike(r, out) /\ \A q \in Paths : IsPrefix(System, q) => ~PreservedByName(q)
<1> DEFINE body == request.body
           paths == Policy.preserve
<1>0. /\ Grown(body) /\ Document(body) /\ SystemStays(r, body) /\ Same(r, body, << >>)
      /\ out = PreserveFields(body, r, paths) /\ Grown(out)
      /\ \A q \in Paths : ~PreservedByName(q) => Same(out, r, q)
      /\ \A q \in Paths : Same(out, r, q) \/ Same(out, body, q)
  BY RoutePrompts DEF RewrittenBody, Grown
<1>1. /\ paths \in Seq(Paths) /\ DOMAIN paths = 1 .. Len(paths)
      /\ \A i \in DOMAIN paths : paths[i] # << >> /\ paths[i] \in Paths
  BY PreservePaths
<1> HIDE DEF body
<1>2. System \in Paths /\ "system" \in Keys /\ System = <<"system">> /\ System # << >> /\ Front(System) = << >>
  <2>1. "system" \in Keys
    BY DEF Keys, Words
  <2> QED BY <2>1, SystemPath, FirstKey DEF System
<1>3. ASSUME NEW p \in Paths, p # << >>, IsPrefix(p, System) PROVE p = System
  <2>1. << >> \in Paths /\ << >> \o <<"system">> = System
    BY <1>2, FirstKey
  <2>2. p = << >> \o <<"system">> \/ IsPrefix(p, << >>)
    BY <1>2, <1>3, <2>1, PrefixOfChild
  <2> QED BY <1>3, <2>1, <2>2, PrefixOrder
<1>4. CASE PreservedByName(System)
  <2>1. PICK i \in DOMAIN paths : IsPrefix(paths[i], System)
    BY <1>4 DEF PreservedByName
  <2>2. paths[i] = System /\ i \in 1 .. Len(paths)
    BY <1>1, <1>3, <2>1
  <2>3. CASE System \in DOMAIN body
    <3>1. System \in DOMAIN r
      BY <1>0, <2>3 DEF SystemStays
    <3>2. ASSUME NEW q \in Paths, IsPrefix(System, q) PROVE Same(out, body, q)
      <4> HIDE DEF paths
      <4> QED BY <1>0, <1>1, <1>2, <2>2, <2>3, <3>1, <3>2, PreservedIsOriginal
    <3> QED BY <1>4, <3>2 DEF Alike, Same, body
  <2>4. CASE System \notin DOMAIN body
    <3>1. System \notin DOMAIN r
      BY <1>0, <2>4 DEF SystemStays
    <3>2. System \notin DOMAIN out
      BY <1>0, <1>2, <2>4, <3>1 DEF Same
    <3>3. ASSUME NEW q \in Paths, IsPrefix(System, q) PROVE q \notin DOMAIN body /\ q \notin DOMAIN out
      BY <1>0, <1>2, <2>4, <3>2, <3>3, GrownAbove
    <3> QED BY <1>4, <3>3 DEF Alike, Same, body
  <2> QED BY <2>3, <2>4
<1>5. CASE ~PreservedByName(System)
  <2>1. ASSUME NEW q \in Paths, IsPrefix(System, q) PROVE ~PreservedByName(q)
    <3>1. SUFFICES ASSUME NEW i \in DOMAIN paths, IsPrefix(paths[i], q) PROVE FALSE
      BY DEF PreservedByName
    <3>2. IsPrefix(paths[i], System) \/ IsPrefix(System, paths[i])
      BY <1>1, <1>2, <2>1, <3>1, PrefixesOfOne
    <3>3. ~IsPrefix(paths[i], System)
      BY <1>5 DEF PreservedByName
    <3>4. ~IsStrictPrefix(System, paths[i])
      BY DEF SystemIndexed
    <3>5. paths[i] = System
      BY <3>2, <3>3, <3>4 DEF IsStrictPrefix
    <3> QED BY <1>2, <3>3, <3>5, PrefixOrder
  <2>2. Alike(r, out)
    BY <1>0, <2>1 DEF Alike, Same
  <2> QED BY <1>5, <2>1, <2>2
<1> QED BY <1>4, <1>5

-----------------------------------------------------------------------------
(* Every line of the prompt that says something has one counterpart. *)
LEMMA PromptLinesAre ==
    ASSUME NEW d
    PROVE  \A x : x \in PromptLines(d) <=>
                \E q \in PromptTexts(d) : \E i \in DOMAIN d[q].text : Spoken(d[q].text[i]) /\ x = <<q, i>>
<1>1. PromptLines(d) = UNION {{q} \X {i \in DOMAIN d[q].text : Spoken(d[q].text[i])} : q \in PromptTexts(d)}
  BY DEF PromptLines, PromptTexts
<1>2. \A q : \A x : x \in {q} \X {i \in DOMAIN d[q].text : Spoken(d[q].text[i])} <=>
                    \E i \in DOMAIN d[q].text : Spoken(d[q].text[i]) /\ x = <<q, i>>
  OBVIOUS
<1> QED BY <1>1, <1>2

LEMMA PromptLinesFinite ==
    ASSUME NEW d, IsFiniteSet(DOMAIN d), ListTexts(d)
    PROVE  IsFiniteSet(PromptLines(d))
<1> DEFINE L(p) == {p} \X {i \in DOMAIN d[p].text : Spoken(d[p].text[i])}
           F == {L(q) : q \in PromptTexts(d)}
           h == [q \in PromptTexts(d) |-> L(q)]
<1>1. PromptLines(d) = UNION F
  BY DEF PromptLines, PromptTexts
<1>2. IsFiniteSet(PromptTexts(d))
  <2>1. PromptTexts(d) \in SUBSET DOMAIN d
    BY DEF PromptTexts, IsText
  <2> QED BY <2>1, FS_Subset
<1>3. ASSUME NEW q \in PromptTexts(d) PROVE IsFiniteSet(L(q))
  <2> DEFINE text == d[q].text
             T == {i \in DOMAIN text : Spoken(text[i])}
  <2>1. text \in Seq(Range(text))
    BY DEF ListTexts, IsList
  <2> HIDE DEF text
  <2>2. DOMAIN text = 1 .. Len(text) /\ Len(text) \in Nat
    BY <2>1, LenProperties
  <2>3. IsFiniteSet(1 .. Len(text))
    BY <2>2, CountTo
  <2>4. T \in SUBSET (1 .. Len(text))
    BY <2>2
  <2>5. IsFiniteSet(T)
    <3> HIDE DEF T
    <3> QED BY <2>3, <2>4, FS_Subset
  <2>6. IsFiniteSet({q})
    BY FS_Singleton
  <2> HIDE DEF T
  <2>7. IsFiniteSet({q} \X T)
    BY <2>5, <2>6, FS_Product
  <2> QED BY <2>7 DEF T, text
<1> HIDE DEF L
<1>4. h \in Surjection(PromptTexts(d), F)
  <2>1. h \in [PromptTexts(d) -> F] /\ \A t \in F : \E q \in PromptTexts(d) : h[q] = t
    OBVIOUS
  <2> QED BY <2>1 DEF Surjection
<1>5. \A t \in F : IsFiniteSet(t)
  BY <1>3
<1> HIDE DEF F, h
<1>6. IsFiniteSet(F)
  BY <1>2, <1>4, FS_Surjection
<1> QED BY <1>1, <1>5, <1>6, FS_UNION

LEMMA PairEqual == \A a, b, c, d : <<a, b>> = <<c, d>> => a = c /\ b = d
OBVIOUS

LEMMA PromptsSurvive ==
    ASSUME NEW d, IsFiniteSet(DOMAIN d), ListTexts(d), NEW e, NEW f, NEW reworded, Prompts(e, d, f, reworded)
    PROVE  Cardinality(PromptLines(e)) = Cardinality(PromptLines(d))
<1> DEFINE Old(q) == d[q].text
           New(q) == e[q].text
<1>2. /\ f \in [PromptTexts(e) -> PromptTexts(d)]
      /\ \A q \in PromptTexts(e) : \E g : Selected(New(q), Old(f[q]), g, reworded)
      /\ \A q, x \in PromptTexts(e) : f[q] = f[x] => q = x
      /\ \A x \in PromptTexts(d) : (\E i \in DOMAIN Old(x) : Spoken(Old(x)[i])) => \E q \in PromptTexts(e) : f[q] = x
  BY DEF Prompts, Taken, Speaks
<1>3. /\ \A x : x \in PromptLines(d) <=> \E q \in PromptTexts(d) : \E i \in DOMAIN Old(q) : Spoken(Old(q)[i]) /\ x = <<q, i>>
      /\ \A x : x \in PromptLines(e) <=> \E q \in PromptTexts(e) : \E i \in DOMAIN New(q) : Spoken(New(q)[i]) /\ x = <<q, i>>
  BY PromptLinesAre
<1> HIDE DEF Old, New
<1> DEFINE G(q) == CHOOSE g : Selected(New(q), Old(f[q]), g, reworded)
           h == [x \in PromptLines(e) |-> <<f[x[1]], G(x[1])[x[2]]>>]
<1>6. \A q \in PromptTexts(e) : /\ Selected(New(q), Old(f[q]), G(q), reworded)
                                /\ \A i \in DOMAIN New(q) : Spoken(New(q)[i]) <=> Spoken(Old(f[q])[G(q)[i]])
  <2>1. \A q \in PromptTexts(e) : Selected(New(q), Old(f[q]), G(q), reworded)
    BY <1>2
  <2> HIDE DEF G
  <2> QED BY <2>1, MeansSpoken DEF Selected
<1> HIDE DEF G
<1>7. ASSUME NEW q \in PromptTexts(e), NEW i \in DOMAIN New(q), Spoken(New(q)[i])
      PROVE  <<q, i>> \in PromptLines(e) /\ h[<<q, i>>] = <<f[q], G(q)[i]>> /\ h[<<q, i>>] \in PromptLines(d)
  <2>1. <<q, i>> \in PromptLines(e)
    BY <1>3, <1>7
  <2>2. h[<<q, i>>] = <<f[q], G(q)[i]>>
    BY <2>1
  <2>3. f[q] \in PromptTexts(d) /\ G(q)[i] \in DOMAIN Old(f[q]) /\ Spoken(Old(f[q])[G(q)[i]])
    BY <1>2, <1>6, <1>7 DEF Selected
  <2>4. <<f[q], G(q)[i]>> \in PromptLines(d)
    BY <1>3, <2>3
  <2> QED BY <2>1, <2>2, <2>4
<1>9. h \in [PromptLines(e) -> PromptLines(d)]
  <2>1. \A x \in PromptLines(e) : h[x] \in PromptLines(d)
    <3> HIDE DEF h
    <3> QED BY <1>3, <1>7
  <2> QED BY <2>1
<1> HIDE DEF h
<1>10. ASSUME NEW x \in PromptLines(e), NEW y \in PromptLines(e), h[x] = h[y] PROVE x = y
  <2>1. PICK q \in PromptTexts(e) : \E i \in DOMAIN New(q) : Spoken(New(q)[i]) /\ x = <<q, i>>
    BY <1>3
  <2>2. PICK i \in DOMAIN New(q) : Spoken(New(q)[i]) /\ x = <<q, i>>
    BY <2>1
  <2>3. PICK p \in PromptTexts(e) : \E j \in DOMAIN New(p) : Spoken(New(p)[j]) /\ y = <<p, j>>
    BY <1>3
  <2>4. PICK j \in DOMAIN New(p) : Spoken(New(p)[j]) /\ y = <<p, j>>
    BY <2>3
  <2>5. h[x] = <<f[q], G(q)[i]>> /\ h[y] = <<f[p], G(p)[j]>>
    BY <1>7, <2>2, <2>4
  <2>6. q = p /\ G(q)[i] = G(q)[j]
    <3>1. f[q] = f[p] /\ G(q)[i] = G(p)[j]
      <4>1. <<f[q], G(q)[i]>> = <<f[p], G(p)[j]>>
        BY <1>10, <2>5
      <4> QED BY <4>1, PairEqual
    <3>2. q = p
      BY <1>2, <3>1
    <3> QED BY <3>1, <3>2
  <2>7. i = j
    BY <1>6, <2>2, <2>4, <2>6 DEF Selected
  <2> QED BY <2>2, <2>4, <2>6, <2>7
<1>11. ASSUME NEW y \in PromptLines(d) PROVE \E x \in PromptLines(e) : h[x] = y
  <2>1. PICK p \in PromptTexts(d) : \E i \in DOMAIN Old(p) : Spoken(Old(p)[i]) /\ y = <<p, i>>
    BY <1>3
  <2>2. PICK i \in DOMAIN Old(p) : Spoken(Old(p)[i]) /\ y = <<p, i>>
    BY <2>1
  <2>3. PICK q \in PromptTexts(e) : f[q] = p
    BY <1>2, <2>2
  <2>4. PICK j \in DOMAIN New(q) : G(q)[j] = i
    BY <1>6, <2>2, <2>3 DEF Selected
  <2>5. Spoken(New(q)[j])
    BY <1>6, <2>2, <2>3, <2>4 DEF Selected
  <2> QED BY <1>7, <2>2, <2>3, <2>4, <2>5
<1>12. h \in Bijection(PromptLines(e), PromptLines(d))
  BY <1>9, <1>10, <1>11, Fun_IsBij
<1>13. ExistsBijection(PromptLines(d), PromptLines(e))
  BY <1>12, Fun_ExistsBijSymmetric DEF ExistsBijection
<1>14. IsFiniteSet(PromptLines(d))
  BY PromptLinesFinite
<1> QED BY <1>13, <1>14, FS_Bijection

LEMMA PassthroughIs ==
    ASSUME RewriteInv, Forwarded, Policy.mode = "passthrough"
    PROVE  out = request.body
<1>1. PICK drawn \in Draws(request.body) : out = RewriteRequestBody(request.body, request.path, option, drawn)
  BY DEF RewriteInv, Forwarded, Once
<1> QED BY <1>1 DEF RewriteRequestBody, Policy

LEMMA PromptSurvivesFollows == RewriteInv => (~SystemIndexed => PromptSurvives)
<1> SUFFICES ASSUME RewriteInv, ~SystemIndexed, Forwarded
             PROVE  Cardinality(PromptLines(out)) = Cardinality(PromptLines(request.body))
  BY DEF PromptSurvives
<1> DEFINE body == request.body
<1>0. ListTexts(body) /\ IsFiniteSet(DOMAIN body)
  BY RequestLined
<1>1. CASE Policy.mode = "passthrough"
  BY <1>1, PassthroughIs
<1>2. CASE Policy.mode # "passthrough"
  <2>1. PICK drawn, r : RewrittenBody(r, drawn)
    BY <1>2, ForwardedIs
  <2>2. Grown(body) /\ Document(body) /\ Document(out) /\ Document(r)
    BY <2>1 DEF RewrittenBody, Grown
  <2>3. /\ PreservedByName(System) => Alike(body, out)
        /\ ~PreservedByName(System) => Alike(r, out)
    BY <2>1, OutPrompts
  <2>4. \E f : Prompts(r, body, f, Reworded)
    BY <2>1, RoutePrompts
  <2> HIDE DEF body
  <2>5. \E reworded : \E f : Prompts(out, body, f, reworded)
    <3>1. CASE PreservedByName(System)
      BY <2>2, <2>3, <3>1, AlikePrompts
    <3>2. CASE ~PreservedByName(System)
      <4>1. PromptTexts(out) = PromptTexts(r) /\ \A q \in PromptTexts(r) : out[q] = r[q]
        BY <2>2, <2>3, <3>2, AlikeTexts
      <4>2. PICK f : Prompts(r, body, f, Reworded)
        BY <2>4
      <4>3. Prompts(out, body, f, Reworded)
        BY <4>1, <4>2 DEF Prompts
      <4> QED BY <4>3
    <3> QED BY <3>1, <3>2
  <2> QED BY <1>0, <2>5, PromptsSurvive DEF body
<1> QED BY <1>1, <1>2

-----------------------------------------------------------------------------
(* Where a text that leaves comes from: the prompt and the reminders show    *)
(* nothing of the client.                                                  *)

LEMMA ElementSame ==
    ASSUME NEW d, NEW e, NEW p, NEW c \in Elements(d, p), Same(d, e, p), Same(d, e, c)
    PROVE  c \in Elements(e, p)
<1>1. IsArr(d, p) /\ c \in Children(d, p)
  BY DEF Elements
<1>2. IsArr(e, p)
  BY <1>1 DEF IsArr, Same
<1>3. c \in Children(e, p)
  BY <1>1 DEF Children, Below, Same
<1> QED BY <1>2, <1>3 DEF Elements

LEMMA ContainerIs ==
    ASSUME NEW d, NEW p, IsArr(d, p)
    PROVE  p \in DOMAIN d /\ TextContainer(d, p) = {c \o <<"text">> : c \in Elements(d, p)} \cap DOMAIN d
<1>1. p \in DOMAIN d /\ ~IsObj(d, p)
  BY EncIs DEF IsArr, IsObj
<1> QED BY <1>1 DEF TextContainer

LEMMA ContainerSame ==
    ASSUME NEW d, Document(d), NEW e, NEW p \in Paths, NEW q \in TextContainer(d, p),
           \A x \in Paths : IsPrefix(x, q) => Same(d, e, x)
    PROVE  q \in TextContainer(e, p)
<1>0. "text" \in Keys /\ p \in DOMAIN d
  BY DEF Keys, Words, TextContainer, IsArr, IsObj
<1>1. CASE IsArr(d, p)
  <2>1. PICK c \in Elements(d, p) : q = c \o <<"text">> /\ q \in DOMAIN d
    BY <1>1, ContainerIs
  <2>2. c \in Paths /\ IsPrefix(p, c)
    BY <2>1, ElementsBelow
  <2>3. q \in Paths /\ IsPrefix(c, q) /\ IsPrefix(q, q)
    BY <1>0, <2>1, <2>2, ChildIs, PrefixOrder
  <2>4. IsPrefix(p, q)
    BY <2>2, <2>3, PrefixOfPrefix
  <2>5. Same(d, e, p) /\ Same(d, e, c) /\ Same(d, e, q)
    BY <2>2, <2>3, <2>4
  <2>6. c \in Elements(e, p)
    BY <2>5, ElementSame
  <2>7. IsArr(e, p) /\ p \in DOMAIN e
    BY <1>1, <2>5 DEF IsArr, Same
  <2>8. q \in DOMAIN e
    BY <2>1, <2>5 DEF Same
  <2> QED BY <2>1, <2>6, <2>7, <2>8, ContainerIs
<1>2. CASE ~IsArr(d, p) /\ IsObj(d, p)
  <2>1. q = p \o <<"text">> /\ q \in DOMAIN d
    BY <1>0, <1>2 DEF TextContainer
  <2>2. q \in Paths /\ IsPrefix(p, q) /\ IsPrefix(q, q)
    BY <1>0, <2>1, ChildIs, PrefixOrder
  <2>3. Same(d, e, p) /\ Same(d, e, q)
    BY <2>2
  <2>4. ~IsArr(e, p) /\ IsObj(e, p) /\ p \in DOMAIN e /\ q \in DOMAIN e
    BY <1>0, <1>2, <2>1, <2>3 DEF IsArr, IsObj, Same
  <2> QED BY <2>1, <2>4 DEF TextContainer
<1>3. CASE ~IsArr(d, p) /\ ~IsObj(d, p)
  <2>1. q = p
    BY <1>0, <1>3 DEF TextContainer
  <2>2. IsPrefix(p, q)
    BY <2>1, PrefixOrder
  <2>3. Same(d, e, p)
    BY <2>2
  <2>4. ~IsArr(e, p) /\ ~IsObj(e, p) /\ p \in DOMAIN e
    BY <1>0, <1>3, <2>3 DEF IsArr, IsObj, Same
  <2> QED BY <2>1, <2>4 DEF TextContainer
<1> QED BY <1>1, <1>2, <1>3

(* What a message's text is depends on what is above it alone. *)
LEMMA ContentTextsSame ==
    ASSUME NEW d, Document(d), NEW e, NEW q \in ContentTexts(d),
           \A x \in Paths : IsPrefix(x, q) => Same(d, e, x)
    PROVE  q \in ContentTexts(e) /\ Same(d, e, q)
<1>0. "messages" \in Keys /\ "content" \in Keys /\ <<"messages">> \in Paths
  BY Few DEF Keys, Words
<1>1. PICK m \in Elements(d, <<"messages">>) : q \in TextContainer(d, m \o <<"content">>)
  BY DEF ContentTexts
<1> DEFINE p == m \o <<"content">>
<1>2. m \in Paths /\ IsPrefix(<<"messages">>, m) /\ p \in Paths /\ IsPrefix(m, p)
  BY <1>0, <1>1, ElementsBelow, ChildIs
<1>3. q \in Paths /\ IsPrefix(q, q) /\ IsPrefix(<<"messages">>, q)
  BY ContentTextsBelow, PrefixOrder
<1> HIDE DEF p
<1>4. IsPrefix(p, q)
  <2>1. q = p \/ q = p \o <<"text">> \/ \E c \in Elements(d, p) : q = c \o <<"text">>
    BY <1>1 DEF TextContainer, IsArr, IsObj, p
  <2>2. \A c \in Elements(d, p) : c \in Paths /\ IsPrefix(p, c)
    BY <1>2, ElementsBelow
  <2>3. \A c \in Paths : IsPrefix(c, c \o <<"text">>)
    <3>1. "text" \in Keys
      BY DEF Keys, Words
    <3> QED BY <3>1, ChildIs
  <2>4. IsPrefix(p, p)
    BY <1>2, PrefixOrder
  <2>5. PICK c \in Paths : IsPrefix(p, c) /\ (q = c \/ q = c \o <<"text">>)
    BY <1>2, <2>1, <2>2, <2>4
  <2>6. IsPrefix(c, q)
    BY <2>3, <2>5, PrefixOrder
  <2> QED BY <1>2, <1>3, <2>5, <2>6, PrefixOfPrefix
<1>5. IsPrefix(m, q)
  BY <1>2, <1>3, <1>4, PrefixOfPrefix
<1>6. Same(d, e, <<"messages">>) /\ Same(d, e, m) /\ Same(d, e, q)
  BY <1>0, <1>2, <1>3, <1>5
<1>7. m \in Elements(e, <<"messages">>)
  BY <1>6, ElementSame
<1>8. q \in TextContainer(d, p)
  BY <1>1 DEF p
<1>9. q \in TextContainer(e, p)
  BY <1>2, <1>8, ContainerSame
<1> QED BY <1>6, <1>7, <1>9 DEF ContentTexts, p

LEMMA RequestPlausible ==
    ASSUME RewriteInv, HomesAreRecognized, NEW q \in DOMAIN request.body, IsText(request.body, q),
           NEW i \in DOMAIN request.body[q].text
    PROVE  Plausible(request.body[q].text[i])
<1> DEFINE text == request.body[q].text
<1>1. text[i] \in Range(text)
  BY DEF Range
<1>2. IsLine(text[i])
  BY <1>1, RequestLined DEF IsText, Lined
<1>3. "path" \in DOMAIN text[i] => OneHome(text[i].path)
  BY <1>1 DEF HomesAreRecognized
<1> QED BY <1>2, <1>3 DEF Plausible

LEMMA ShownWords ==
    ASSUME HomesAreRecognized, NEW line, Plausible(line), NEW l, Means(l, line, TRUE)
    PROVE  Shown(l)
<1>1. PICK hash : SameWords(l, RewriteLine(line, hash))
  BY DEF Means
<1> DEFINE k == RewriteLine(line, hash)
<1>2. Shown(k) /\ DOMAIN k = DOMAIN line /\ ("fact" \in DOMAIN k => "who" \in DOMAIN k)
  BY LineShown, LineFields DEF Plausible, IsLine
<1> HIDE DEF k
<1>3. DOMAIN l = DOMAIN k /\ \A field \in DOMAIN k \ {"cr"} : l[field] = k[field]
  BY <1>1 DEF SameWords, k
<1> QED BY <1>2, <1>3 DEF Shown

LEMMA SystemShown ==
    ASSUME RewriteInv, HomesAreRecognized, Aggressively, Is("messages"), ~IsObj(out, System),
           NEW l \in SystemLines(out)
    PROVE  Shown(l)
<1> DEFINE body == request.body
           paths == Policy.preserve
<1>1. PICK drawn, r : RewrittenBody(r, drawn)
  BY ForwardedIs DEF Aggressively
<1>2. paths \in Seq(Paths) /\ Document(out) /\ \A q \in Paths : ~PreservedByName(q) => Same(out, r, q)
  BY <1>1, PolicyIs DEF RewrittenBody, Grown
<1>3. PICK q \in SystemTexts(out) : IsText(out, q) /\ ~PreservedByName(q) /\ \E i \in DOMAIN out[q].text : l = out[q].text[i]
  BY DEF SystemLines
<1>4. PICK i \in DOMAIN out[q].text : l = out[q].text[i]
  BY <1>3
<1>5. \A x : PreservedByName(x) <=> ~Unpreserved(paths, x)
  BY DEF PreservedByName, Unpreserved
<1> HIDE DEF paths
<1>6. q \in SystemTexts(r) /\ ~IsObj(r, System) /\ Same(out, r, q)
  BY <1>2, <1>3, <1>5, SystemTextsSame
<1>7. q \in PromptTexts(r) /\ out[q] = r[q]
  BY <1>3, <1>6 DEF PromptTexts, IsText, Same
<1>8. SystemStays(r, body) /\ \E f : Prompts(r, body, f, Reworded)
  BY <1>1, RoutePrompts
<1>9. Reworded
  BY <1>6, <1>8 DEF SystemStays, Reworded, Aggressively
<1> HIDE DEF body
<1>10. PICK f : Prompts(r, body, f, TRUE)
  BY <1>8, <1>9
<1> DEFINE text == body[f[q]].text
<1>11. f[q] \in PromptTexts(body) /\ Taken(out[q].text, text, TRUE)
  BY <1>7, <1>10 DEF Prompts
<1>12. \A j \in DOMAIN text : Plausible(text[j])
  <2>1. f[q] \in DOMAIN body /\ IsText(body, f[q])
    BY <1>11 DEF PromptTexts, IsText
  <2> QED BY <2>1, RequestPlausible DEF body
<1> HIDE DEF text
<1>13. PICK g : Selected(out[q].text, text, g, TRUE)
  BY <1>11 DEF Taken
<1>14. g[i] \in DOMAIN text /\ Means(l, text[g[i]], TRUE)
  BY <1>4, <1>13 DEF Selected
<1> QED BY <1>12, <1>14, ShownWords

LEMMA ReminderShown ==
    ASSUME RewriteInv, HomesAreRecognized, Aggressively, Is("messages"), NEW l \in ReminderLines(out)
    PROVE  Shown(l)
<1> DEFINE body == request.body
           m == RewriteMessagesMetadata(body)
           u == Reminded(body)
<1>1. PICK drawn, r : RewrittenBody(r, drawn)
  BY ForwardedIs DEF Aggressively
<1>2. /\ Document(out) /\ Document(r) /\ Grown(body) /\ Document(body) /\ IsFiniteSet(DOMAIN body)
      /\ \A q \in Paths : ~PreservedByName(q) => Same(out, r, q)
      /\ \A p, q \in Paths : IsPrefix(p, q) /\ ~PreservedByName(q) => ~PreservedByName(p)
  BY <1>1, PolicyIs DEF RewrittenBody, Grown
<1>3. PICK q \in ContentTexts(out) : IsText(out, q) /\ ~PreservedByName(q) /\ l \in {out[q].text[i] : i \in DOMAIN out[q].text} /\ l.reminder
  BY DEF ReminderLines
<1>4. PICK i \in DOMAIN out[q].text : l = out[q].text[i]
  BY <1>3
<1>5. q \in Paths /\ IsPrefix(<<"messages">>, q) /\ q[1] = "messages"
  BY <1>2, ContentTextsBelow
<1>6. q \in ContentTexts(r) /\ Same(out, r, q)
  <2>1. \A x \in Paths : IsPrefix(x, q) => Same(out, r, x)
    BY <1>2, <1>3, <1>5
  <2> QED BY <1>2, <2>1, ContentTextsSame
<1>7. r = RewriteMessagesBody(body, Policy, drawn.hash)
  BY <1>1, RouteIs DEF RewrittenBody
<1>8. \A x \in Paths : ~IsPrefix(System, x) => Same(r, u, x)
  BY <1>2, <1>7, PolicyIs, MessagesOutside DEF Aggressively
<1> HIDE DEF u
<1>9. q \in ContentTexts(u) /\ Same(r, u, q)
  <2>1. ASSUME NEW x \in Paths, IsPrefix(x, q) PROVE Same(r, u, x)
    <3>1. ~IsPrefix(System, x)
      <4>1. SUFFICES ASSUME IsPrefix(System, x) PROVE FALSE
        OBVIOUS
      <4>2. IsPrefix(System, q)
        BY <1>5, <2>1, <4>1, SystemPath, PrefixOfPrefix
      <4> QED BY <1>5, <4>2, SystemPath
    <3> QED BY <1>8, <3>1
  <2> QED BY <1>2, <1>6, <2>1, ContentTextsSame
<1>10. Retexted(m, u) /\ Document(m) /\ Document(u)
  BY <1>2, RemindedGrown, RemindedAlike DEF u
<1>11. q \in ContentTexts(m) /\ (IsText(u, q) <=> IsText(m, q))
  BY <1>9, <1>10, RetextedTexts, RetextedShape
<1>12. IsText(u, q) /\ out[q] = u[q] /\ q \in DOMAIN u
  BY <1>3, <1>6, <1>9 DEF IsText, Same
<1>13. q \in DOMAIN body /\ m[q] = body[q] /\ IsText(body, q)
  <2>1. q # <<"metadata", "user_id">>
    BY <1>5
  <2>2. q \in DOMAIN m /\ "text" \in DOMAIN m[q]
    BY <1>11, <1>12 DEF IsText
  <2>3. DOMAIN m = DOMAIN body /\ (q \in DOMAIN body => m[q] = body[q])
    BY <2>1, MetadataIs
  <2> QED BY <2>2, <2>3 DEF IsText
<1> DEFINE text == body[q].text
<1>14. u[q] = Text(RewriteSystemReminders(text))
  BY <1>11, <1>12, <1>13 DEF u, Reminded, MapTexts, IsText
<1>15. out[q].text = RewriteSystemReminders(text)
  BY <1>12, <1>14, TextIs
<1>16. \A j \in DOMAIN text : Plausible(text[j])
  BY <1>13, RequestPlausible
<1> HIDE DEF text
<1>17. i \in DOMAIN text /\ l = IF text[i].reminder THEN RewriteLine(text[i], NoHash) ELSE text[i]
  BY <1>4, <1>15 DEF RewriteSystemReminders
<1>18. l = RewriteLine(text[i], NoHash)
  BY <1>3, <1>17
<1> QED BY <1>16, <1>17, <1>18, LineShown

LEMMA PromptFollows == RewriteInv => (HomesAreRecognized => PromptIsCanonical)
<1> SUFFICES ASSUME RewriteInv, HomesAreRecognized, Aggressively, Is("messages"),
                    NEW l \in ReminderLines(out) \cup (IF IsObj(out, System) THEN {} ELSE SystemLines(out))
             PROVE  Shown(l)
  BY DEF PromptIsCanonical, Shown
<1>1. CASE l \in ReminderLines(out)
  BY <1>1, ReminderShown
<1>2. CASE ~IsObj(out, System) /\ l \in SystemLines(out)
  BY <1>2, SystemShown
<1> QED BY <1>1, <1>2

(* Every text about the client's machine shows the canonical one, when the *)
(* home directories are recognised: prompts, reminders, and what           *)
(* preserve_fields does not put back (prompt.rs, server.rs).               *)
THEOREM PromptIsCanonicalHolds == RewriteSpec => [](HomesAreRecognized => PromptIsCanonical)
<1>1. RewriteInv => (HomesAreRecognized => PromptIsCanonical)
  BY PromptFollows
<1> QED BY <1>1, RewriteInvHolds, PTL

(* Nothing of the client's machine or identity is in what leaves, in any   *)
(* place that shows one and under any policy that rewrites: the rewriting  *)
(* functions follow one another, and preserve_fields is last (server.rs    *)
(* rewrite_request_body).                                                  *)
THEOREM NothingOfTheClientHolds == RewriteSpec => []NothingOfTheClient
<1>1. RewriteInv => NothingOfTheClient
  BY IdentityFollows, EventsFollow, NoClientTimestampFollows, PromptFollows DEF NothingOfTheClient
<1> QED BY <1>1, RewriteInvHolds, PTL

-----------------------------------------------------------------------------
(* The prompt's words in conservative mode. *)

LEMMA SystemLinesAre ==
    ASSUME NEW d
    PROVE  \A l : l \in SystemLines(d) <=>
                \E q \in PromptTexts(d) : ~PreservedByName(q) /\ \E i \in DOMAIN d[q].text : l = d[q].text[i]
<1>1. SystemLines(d) = UNION {{d[q].text[i] : i \in DOMAIN d[q].text} : q \in {p \in PromptTexts(d) : ~PreservedByName(p)}}
  <2>1. {p \in SystemTexts(d) : IsText(d, p) /\ ~PreservedByName(p)} = {p \in PromptTexts(d) : ~PreservedByName(p)}
    BY DEF PromptTexts
  <2> QED BY <2>1 DEF SystemLines
<1> QED BY <1>1

SpokenIn(w, d) == \E q \in PromptTexts(d) : \E i \in DOMAIN d[q].text : Spoken(d[q].text[i]) /\ w = Worded(d[q].text[i])

(* Without rewording, the prompt says what the client's said. *)
LEMMA PromptsWords ==
    ASSUME NEW d, NEW e, NEW f, Prompts(e, d, f, FALSE), NEW w
    PROVE  SpokenIn(w, e) <=> SpokenIn(w, d)
<1>1. \A a, b : SameWords(a, b) => Worded(a) = Worded(b) /\ (Spoken(a) <=> Spoken(b))
  BY WordsAre DEF SameWords, Worded
<1>2. \A q \in PromptTexts(e) : \E g : Selected(e[q].text, d[f[q]].text, g, FALSE)
  BY DEF Prompts, Taken
<1>3. ASSUME SpokenIn(w, e) PROVE SpokenIn(w, d)
  <2>1. PICK q \in PromptTexts(e) : \E i \in DOMAIN e[q].text : Spoken(e[q].text[i]) /\ w = Worded(e[q].text[i])
    BY <1>3 DEF SpokenIn
  <2>2. PICK i \in DOMAIN e[q].text : Spoken(e[q].text[i]) /\ w = Worded(e[q].text[i])
    BY <2>1
  <2>3. PICK g : Selected(e[q].text, d[f[q]].text, g, FALSE)
    BY <1>2
  <2>4. f[q] \in PromptTexts(d) /\ g[i] \in DOMAIN d[f[q]].text /\ SameWords(e[q].text[i], d[f[q]].text[g[i]])
    BY <2>3 DEF Prompts, Selected, Means
  <2> QED BY <1>1, <2>2, <2>4 DEF SpokenIn
<1>4. ASSUME SpokenIn(w, d) PROVE SpokenIn(w, e)
  <2>1. PICK x \in PromptTexts(d) : \E i \in DOMAIN d[x].text : Spoken(d[x].text[i]) /\ w = Worded(d[x].text[i])
    BY <1>4 DEF SpokenIn
  <2>2. PICK i \in DOMAIN d[x].text : Spoken(d[x].text[i]) /\ w = Worded(d[x].text[i])
    BY <2>1
  <2>3. PICK q \in PromptTexts(e) : f[q] = x
    BY <2>2 DEF Prompts, Speaks
  <2>4. PICK g : Selected(e[q].text, d[x].text, g, FALSE)
    BY <1>2, <2>3
  <2>5. PICK j \in DOMAIN e[q].text : g[j] = i
    BY <2>2, <2>4 DEF Selected
  <2>6. SameWords(e[q].text[j], d[x].text[i])
    BY <2>4, <2>5 DEF Selected, Means
  <2> QED BY <1>1, <2>2, <2>5, <2>6 DEF SpokenIn
<1> QED BY <1>3, <1>4

LEMMA ConservativeLines ==
    ASSUME RewriteInv, Forwarded, Policy.mode = "conservative", ~SystemIndexed
    PROVE  SpokenLines(out) = SpokenLines(request.body)
<1> DEFINE body == request.body
<1>1. PICK drawn, r : RewrittenBody(r, drawn)
  BY ForwardedIs
<1>2. /\ Document(out) /\ Document(r) /\ Document(body)
      /\ \A p, q \in Paths : IsPrefix(p, q) /\ ~PreservedByName(q) => ~PreservedByName(p)
  BY <1>1 DEF RewrittenBody, Grown
<1>3. \A d : \A w : w \in SpokenLines(d) <=>
            \E q \in PromptTexts(d) : /\ ~PreservedByName(q)
                                      /\ \E i \in DOMAIN d[q].text : Spoken(d[q].text[i]) /\ w = Worded(d[q].text[i])
  <2>1. \A d : SpokenLines(d) = {Worded(l) : l \in {k \in SystemLines(d) : Spoken(k)}}
    BY DEF SpokenLines
  <2> QED BY <2>1, SystemLinesAre
<1>4. /\ \A q \in PromptTexts(out) : q \in Paths /\ IsPrefix(System, q)
      /\ \A q \in PromptTexts(body) : q \in Paths /\ IsPrefix(System, q)
  <2>1. \A d : Document(d) => \A q \in PromptTexts(d) : q \in Paths /\ IsPrefix(System, q)
    BY SystemTextsBelow DEF PromptTexts
  <2> QED BY <1>2, <2>1
<1> HIDE DEF body
<1>5. CASE PreservedByName(System)
  <2>1. \A q \in Paths : IsPrefix(System, q) => PreservedByName(q)
    BY <1>2, <1>5, SystemPath
  <2> QED BY <1>3, <1>4, <2>1 DEF body
<1>6. CASE ~PreservedByName(System)
  <2>1. Alike(r, out) /\ \A q \in Paths : IsPrefix(System, q) => ~PreservedByName(q)
    BY <1>1, <1>6, OutPrompts
  <2>2. PromptTexts(out) = PromptTexts(r) /\ \A q \in PromptTexts(r) : out[q] = r[q]
    BY <1>2, <2>1, AlikeTexts
  <2>3. \E f : Prompts(r, body, f, FALSE)
    BY <1>1, RoutePrompts DEF body, Reworded
  <2>4. ASSUME NEW w PROVE w \in SpokenLines(out) <=> w \in SpokenLines(body)
    <3>1. SpokenIn(w, r) <=> SpokenIn(w, body)
      BY <2>3, PromptsWords
    <3>2. w \in SpokenLines(body) <=> SpokenIn(w, body)
      BY <1>3, <1>4, <2>1 DEF SpokenIn
    <3>3. w \in SpokenLines(out) <=> SpokenIn(w, out)
      BY <1>3, <1>4, <2>1 DEF SpokenIn
    <3>4. SpokenIn(w, out) <=> SpokenIn(w, r)
      BY <2>2 DEF SpokenIn
    <3> QED BY <3>1, <3>2, <3>3, <3>4
  <2> QED BY <2>4 DEF body
<1> QED BY <1>5, <1>6

LEMMA SameTimes ==
    ASSUME NEW d, NEW e, NEW q, Same(e, d, q)
    PROVE  Same(NormalizeTimestamps(e), NormalizeTimestamps(d), q)
<1>1. DOMAIN NormalizeTimestamps(e) = DOMAIN e /\ DOMAIN NormalizeTimestamps(d) = DOMAIN d
  BY DEF NormalizeTimestamps
<1>2. (IsString(e, q) <=> IsString(d, q)) /\ (IsNum(e, q) <=> IsNum(d, q))
  BY DEF Same, IsString, IsNum
<1>3. q \in DOMAIN d => NormalizeTimestamps(e)[q] = NormalizeTimestamps(d)[q]
  BY <1>2 DEF NormalizeTimestamps, Same
<1> QED BY <1>1, <1>3 DEF Same

LEMMA TimedContainer ==
    ASSUME NEW d, NEW e, Timed(e, d), NEW q, IsObj(d, q) \/ IsArr(d, q)
    PROVE  Same(e, d, q)
<1>1. q \in DOMAIN d /\ q \in DOMAIN e
  BY DEF Timed, IsObj, IsArr
<1>2. ~IsString(d, q) /\ ~IsNum(d, q)
  BY StringShape
<1> QED BY <1>1, <1>2 DEF Timed, Same

-----------------------------------------------------------------------------
(* Along the path of an event's environment or process, and below it,      *)
(* a batch stays as it is in conservative mode.                            *)
Along(p, x) == IsPrefix(p, x) \/ IsPrefix(x, p)
LEMMA EventAlong ==
    ASSUME NEW d, Grown(d), NEW policy, policy.mode # "aggressive", NEW drawn \in [EventData(d) -> Metrics],
           NEW e \in EventData(d), NEW k \in {"env", "process"}, NEW x \in Paths, Along(e \o <<k>>, x)
    PROVE  Same(Rewritten(d, policy, drawn), d, x)
<1> DEFINE b == Rewritten(d, policy, drawn)
           new == NewEvent(d, policy, drawn, e)
           old == Sub(d, e)
<1>1. /\ EventsReplaced(b, d, policy, drawn) /\ Grown(old) /\ Document(d)
  BY RewrittenIs DEF Grown
<1>2. e \in Paths /\ k \in Keys /\ e \o <<k>> \in Paths
  BY EventDataIs, KnownKeys, ChildIs
<1>3. Untouched(new, old, EventLeft) /\ k \notin EventLeft
  <2>1. drawn[e] \in Metrics
    OBVIOUS
  <2>2. k \notin EventLeft
    BY KnownKeys DEF EventLeft
  <2> QED BY <1>1, <2>1, <2>2, EventStep DEF NewEvent
<1> HIDE DEF b, old
<1>4. ASSUME NEW y \in Paths, y = << >> \/ y[1] = k, x = e \o y PROVE Same(b, d, x)
  <2>1. Same(new, old, y)
    BY <1>3, <1>4 DEF Untouched
  <2>2. IsPrefix(e, x) /\ Rest(e, x) = y
    BY <1>2, <1>4, ConcatIs
  <2>3. (y \in DOMAIN old <=> x \in DOMAIN d) /\ (x \in DOMAIN d => old[y] = d[x])
    BY <1>1, <1>2, <2>2, SubIs DEF old
  <2>4. (x \in DOMAIN b <=> y \in DOMAIN new) /\ (x \in DOMAIN b => b[x] = new[y])
    BY <1>1, <2>2 DEF EventsReplaced
  <2> HIDE DEF new
  <2> QED BY <2>1, <2>3, <2>4 DEF Same
<1>5. CASE IsPrefix(e \o <<k>>, x)
  <2>1. PICK y \in Paths : y # << >> /\ y[1] = k /\ x = e \o y
    BY <1>2, <1>5, PathBelow
  <2> QED BY <1>4, <2>1 DEF b
<1>6. CASE x = e
  <2>1. << >> \in Paths /\ e = e \o << >>
    BY <1>2, PrefixOrder
  <2> QED BY <1>4, <1>6, <2>1 DEF b
<1>7. CASE IsPrefix(x, e) /\ x # e
  <2>1. ASSUME NEW p \in EventData(d), IsPrefix(p, x) PROVE FALSE
    <3>1. p \in Paths
      BY EventDataIs
    <3>2. IsPrefix(p, e)
      BY <1>2, <1>7, <2>1, <3>1, PrefixOfPrefix
    <3>3. p = e
      BY <3>2, EventsApart
    <3> QED BY <1>2, <1>7, <2>1, <3>3, PrefixOrder
  <2> QED BY <1>1, <2>1 DEF EventsReplaced, b
<1>8. \/ IsPrefix(e \o <<k>>, x) \/ x = e \/ (IsPrefix(x, e) /\ x # e)
  <2>1. IsPrefix(x, e \o <<k>>) => x = e \o <<k>> \/ IsPrefix(x, e)
    BY <1>2, PrefixOfChild
  <2> QED BY <1>2, <2>1, PrefixOrder DEF Along
<1> QED BY <1>5, <1>6, <1>7, <1>8 DEF b

(* What is left of a body that a conservative policy rewrites, along the   *)
(* path of an environment or a process: its times alone may be others.     *)
Left(d) == IF Is("batch") /\ Policy.normalize THEN NormalizeTimestamps(d) ELSE d
LEMMA ConservativeAlong ==
    ASSUME RewriteInv, Policy.mode = "conservative", NEW r, NEW drawn, RewrittenBody(r, drawn),
           NEW e \in EventData(request.body), NEW k \in {"env", "process"}, NEW x \in Paths, Along(e \o <<k>>, x)
    PROVE  /\ Same(r, Left(request.body), x)
           /\ IsObj(request.body, x) \/ IsArr(request.body, x) => Same(r, request.body, x)
<1> DEFINE body == request.body
<1>0. /\ Grown(body) /\ Document(body) /\ IsFiniteSet(DOMAIN body) /\ Policy.strip \in BOOLEAN
      /\ drawn.metrics \in [EventData(body) -> Metrics] /\ r = RewriteRoute(body, request.path, Policy, drawn)
  BY PolicyIs DEF RewrittenBody, Draws
<1>1. e \in Paths /\ k \in Keys /\ e \o <<k>> \in Paths /\ IsArr(body, Events) /\ IsPrefix(e, e \o <<k>>)
  BY <1>0, EventDataIs, KnownKeys, ChildIs
<1>3. x = << >> \/ x[1] = "events"
  <2>1. CASE IsPrefix(e \o <<k>>, x)
    <3>1. IsPrefix(e, x)
      BY <1>1, <2>1, PrefixOfPrefix
    <3> QED BY <1>0, <3>1, EventsBelow
  <2>2. CASE IsPrefix(x, e \o <<k>>)
    <3>1. ASSUME NEW q \in Paths, IsPrefix(q, e \o <<k>>), q # << >> PROVE q[1] = (e \o <<k>>)[1]
      <4>1. \A i \in 1 .. Len(q) : q[i] = (e \o <<k>>)[i]
        BY <1>1, <3>1, PrefixIs
      <4>2. 1 \in 1 .. Len(q)
        BY <3>1, LenProperties, EmptySeq
      <4> QED BY <4>1, <4>2
    <3>2. (e \o <<k>>)[1] = "events"
      BY <1>0, <1>1, EventsBelow
    <3> QED BY <2>2, <3>1, <3>2
  <2> QED BY <2>1, <2>2 DEF Along
<1> HIDE DEF body
<1>4. CASE Is("batch")
  <2> DEFINE b == Rewritten(body, Policy, drawn.metrics)
  <2>1. r = IF Policy.normalize THEN NormalizeTimestamps(b) ELSE b
    BY <1>0, <1>1, <1>4, RouteIs, BatchIs
  <2>2. Same(b, body, x)
    BY <1>0, EventAlong DEF body
  <2> HIDE DEF b
  <2>3. Left(body) = IF Policy.normalize THEN NormalizeTimestamps(body) ELSE body
    BY <1>4 DEF Left
  <2>4. Same(r, Left(body), x)
    BY <2>1, <2>2, <2>3, SameTimes
  <2>5. ASSUME IsObj(body, x) \/ IsArr(body, x) PROVE Same(r, body, x)
    <3>1. IsObj(b, x) \/ IsArr(b, x)
      BY <2>2, <2>5 DEF Same, IsObj, IsArr
    <3>2. Same(NormalizeTimestamps(b), b, x)
      BY <3>1, TimedIs, TimedContainer
    <3> QED BY <2>1, <2>2, <3>2 DEF Same
  <2> QED BY <2>4, <2>5 DEF body
<1>5. CASE ~Is("batch")
  <2>1. Left(body) = body
    BY <1>5 DEF Left
  <2>2. Same(r, body, x)
    <3>1. CASE Is("messages")
      <4>1. r = RewriteMessagesBody(body, Policy, drawn.hash)
        BY <1>0, <3>1, RouteIs
      <4>2. ~IsPrefix(System, x)
        BY <1>3, SystemPath
      <4>3. Same(r, RewriteMessagesMetadata(body), x)
        BY <1>0, <4>1, <4>2, MessagesOutside
      <4>4. x # <<"metadata", "user_id">>
        BY <1>3
      <4>5. Same(RewriteMessagesMetadata(body), body, x)
        BY <4>4, MetadataIs DEF Same
      <4> QED BY <4>3, <4>5 DEF Same
    <3>2. CASE Is("generic")
      <4>1. r = RewriteEventIdentity(body)
        BY <1>0, <3>2, RouteIs
      <4>2. "events" \notin IdKeys
        BY DEF IdKeys
      <4> QED BY <1>0, <1>3, <4>1, <4>2, IdentityStep DEF Untouched
    <3>3. CASE ~Is("messages") /\ ~Is("generic")
      <4>1. r = body
        BY <1>0, <1>5, <3>3, OtherRoute
      <4> QED BY <4>1 DEF Same
    <3> QED BY <3>1, <3>2, <3>3
  <2> QED BY <2>1, <2>2 DEF body
<1> QED BY <1>4, <1>5

-----------------------------------------------------------------------------
(* What leaves of an environment or a process in conservative mode.        *)
LEMMA ConservativeNode ==
    ASSUME RewriteInv, Policy.mode = "conservative", NEW r, NEW drawn, RewrittenBody(r, drawn),
           NEW e \in EventData(request.body), NEW k \in {"env", "process"}, NEW q \in Paths, IsPrefix(e \o <<k>>, q)
    PROVE  /\ q \in DOMAIN out <=> q \in DOMAIN request.body
           /\ q \in DOMAIN request.body =>
                out[q] = IF Is("batch") /\ Policy.normalize /\ ~PreservedByName(q)
                         THEN NormalizeTimestamps(request.body)[q] ELSE request.body[q]
<1> DEFINE body == request.body
           paths == Policy.preserve
<1>0. /\ Grown(body) /\ Document(body) /\ out = PreserveFields(body, r, paths) /\ Grown(r)
      /\ ~PreservedByName(q) => Same(out, r, q)
      /\ Same(out, r, q) \/ Same(out, body, q)
      /\ paths \in Seq(Paths) /\ DOMAIN paths = 1 .. Len(paths)
      /\ \A i \in DOMAIN paths : paths[i] # << >> /\ paths[i] \in Paths
  BY PreservePaths DEF RewrittenBody, Grown
<1>1. DOMAIN Left(body) = DOMAIN body
  BY DEF Left, NormalizeTimestamps
<1>2. Same(r, Left(body), q)
  BY ConservativeAlong DEF Along
<1>3. q \in DOMAIN out <=> q \in DOMAIN body
  BY <1>0, <1>1, <1>2 DEF Same
<1>4. SUFFICES ASSUME q \in DOMAIN body
               PROVE  out[q] = IF Is("batch") /\ Policy.normalize /\ ~PreservedByName(q)
                               THEN NormalizeTimestamps(body)[q] ELSE body[q]
  BY <1>3
<1>5. CASE ~PreservedByName(q)
  BY <1>0, <1>1, <1>2, <1>4, <1>5 DEF Same, Left
<1>6. CASE PreservedByName(q) /\ ~(Is("batch") /\ Policy.normalize)
  BY <1>0, <1>1, <1>2, <1>4, <1>6 DEF Same, Left
<1>7. CASE PreservedByName(q)
  <2>1. PICK i \in DOMAIN paths : IsPrefix(paths[i], q)
    BY <1>7 DEF PreservedByName
  <2> DEFINE p == paths[i]
  <2>2. p \in Paths /\ p # << >> /\ i \in 1 .. Len(paths) /\ IsPrefix(p, q)
    BY <1>0, <2>1
  <2> HIDE DEF p
  <2>3. p \in DOMAIN body
    BY <1>0, <1>4, <2>2, GrownAbove
  <2>4. p \in DOMAIN r
    <3>1. q \in DOMAIN r
      BY <1>1, <1>2, <1>4 DEF Same
    <3> QED BY <1>0, <2>2, <3>1, GrownAbove
  <2>5. Front(p) \in Paths /\ IsPrefix(Front(p), q) /\ Front(p) # q
    <3>1. Front(p) \in Paths /\ IsPrefix(Front(p), p) /\ p = Front(p) \o <<Key(p)>> /\ Key(p) \in Keys
      BY <2>2, FrontIs
    <3>2. IsPrefix(Front(p), q)
      BY <2>2, <3>1, PrefixOfPrefix
    <3>3. Front(p) # q
      <4>1. Front(p) = q => p = q
        BY <2>2, <3>1, PrefixOrder
      <4>2. Front(p) # p
        BY <3>1, ChildIs
      <4> QED BY <4>1, <4>2
    <3> QED BY <3>1, <3>2, <3>3
  <2>6. IsObj(body, Front(p)) \/ IsArr(body, Front(p))
    BY <1>0, <1>4, <2>5, GrownAbove
  <2>7. Along(e \o <<k>>, Front(p))
    <3>1. e \o <<k>> \in Paths
      BY <1>0, EventDataIs, KnownKeys, ChildIs
    <3> QED BY <2>5, <3>1, PrefixesOfOne DEF Along
  <2>8. Same(r, body, Front(p))
    BY <2>5, <2>6, <2>7, ConservativeAlong
  <2>9. Same(out, body, q)
    <3> HIDE DEF body, paths
    <3>1. p = paths[i]
      BY DEF p
    <3> QED BY <1>0, <2>2, <2>3, <2>4, <2>8, <3>1, PreservedIsOriginal
  <2> QED BY <1>4, <1>7, <2>9 DEF Same
<1> QED BY <1>5, <1>7

LEMMA ConservativeFollows == RewriteInv => ConservativeKeepsTheRest
<1> SUFFICES ASSUME RewriteInv, Forwarded, Policy.mode = "conservative" PROVE ConservativeKeepsTheRest
  BY DEF ConservativeKeepsTheRest
<1> DEFINE body == request.body
<1>1. PICK drawn, r : RewrittenBody(r, drawn)
  BY ForwardedIs
<1>2. Document(out) /\ Document(body)
  BY <1>1 DEF RewrittenBody, Grown
<1>3. ~SystemIndexed => SpokenLines(out) = SpokenLines(body)
  BY ConservativeLines
<1>4. ASSUME NEW e \in EventData(body), NEW k \in {"env", "process"}
      PROVE  LET old == Below(body, e \o <<k>>) IN
             /\ Below(out, e \o <<k>>) = old
             /\ \A q \in old : out[q] =
                    IF Is("batch") /\ Policy.normalize /\ ~PreservedByName(q)
                    THEN NormalizeTimestamps(body)[q] ELSE body[q]
  <2>1. \A q \in Paths : IsPrefix(e \o <<k>>, q) =>
            /\ q \in DOMAIN out <=> q \in DOMAIN body
            /\ q \in DOMAIN body =>
                out[q] = IF Is("batch") /\ Policy.normalize /\ ~PreservedByName(q)
                         THEN NormalizeTimestamps(body)[q] ELSE body[q]
    BY <1>1, ConservativeNode
  <2>2. Below(out, e \o <<k>>) = Below(body, e \o <<k>>)
    BY <1>2, <2>1 DEF Below, Document
  <2>3. \A q \in Below(body, e \o <<k>>) : q \in Paths /\ q \in DOMAIN body /\ IsPrefix(e \o <<k>>, q)
    BY <1>2 DEF Below, Document
  <2> QED BY <2>1, <2>2, <2>3
<1> QED BY <1>3, <1>4 DEF ConservativeKeepsTheRest

(* In conservative mode the prompt's words, the environment and the        *)
(* process leave as they came, but for billing lines and timestamps.       *)
THEOREM ConservativeKeepsTheRestHolds == RewriteSpec => []ConservativeKeepsTheRest
BY RewriteInvHolds, ConservativeFollows, PTL

(* What the rewriter need not change is still there when the body leaves:  *)
(* a document, the user's words, what a conservative policy leaves alone   *)
(* and every line of the prompt, for every body and every policy.          *)
THEOREM NothingElseChangesHolds == RewriteSpec => []NothingElseChanges
<1>1. RewriteInv /\ BodyInv => NothingElseChanges
  BY BodyFollows, UserWordsFollow, ConservativeFollows, PromptSurvivesFollows DEF NothingElseChanges
<1> QED BY <1>1, RewriteInvHolds, BodyInvHolds, PTL

-----------------------------------------------------------------------------
(* Rewriting what is rewritten already: a line, a text. *)

LEMMA HomeTwice ==
    ASSUME HomesAreRecognized, NEW path \in Seq(STRING), OneHome(path)
    PROVE  RewriteHome(RewriteHome(path)) = RewriteHome(path)
<1> DEFINE i == Min(HomeAt(path))
           h == CanonicalHomePrefix
           n == RewriteHome(path)
           m == Rehomed(n, i, h)
<1>1. CASE HomeAt(path) = {} \/ HomeAt(n) = {}
  BY <1>1 DEF RewriteHome
<1>2. CASE HomeAt(path) # {} /\ HomeAt(n) # {}
  <2>1. Rehoming(path, n, i)
    BY <1>2, HomeReplaced
  <2>2. h \in Seq(STRING) /\ Len(h) = 2
    BY HomesIs
  <2> HIDE DEF i, n
  <2>3. Min(HomeAt(n)) = i
    BY <1>2, <2>1, HomeAtIs, MinIn DEF Rehoming
  <2>4. RewriteHome(n) = m
    BY <1>2, <2>3 DEF RewriteHome, Rehomed
  <2> HIDE DEF h
  <2>5. /\ m \in Seq(STRING) /\ Len(m) = Len(n) /\ m[i] = h[1] /\ m[i + 1] = h[2]
        /\ \A j \in 1 .. Len(n) : j # i /\ j # i + 1 => m[j] = n[j]
    BY <2>1, <2>2, RehomedIs DEF Rehoming
  <2> HIDE DEF m
  <2>6. \A j \in 1 .. Len(n) : m[j] = n[j]
    BY <2>1, <2>5 DEF Rehoming, h
  <2>7. m = n
    BY <2>1, <2>5, <2>6, SeqEqual DEF Rehoming
  <2> QED BY <2>4, <2>7 DEF n
<1> QED BY <1>1, <1>2

(* What a line is rewritten to is rewritten to itself, with the same hash  *)
(* where it announces one.                                                 *)
Decent(l) == Plausible(l) /\ ("dir" \in DOMAIN l => OneHome(l.dir))

LEMMA DirTwice ==
    ASSUME HomesAreRecognized, NEW dir \in Seq(STRING), dir # << >>, OneHome(dir)
    PROVE  LET new == RewriteHome(IF Absolute(dir) THEN WorkingDir ELSE dir)
           IN  RewriteHome(IF Absolute(new) THEN WorkingDir ELSE new) = new
<1>1. CASE Absolute(dir)
  BY <1>1, WorkingDirStays
<1>2. CASE ~Absolute(dir)
  BY <1>2, DriveStays, HomeTwice
<1> QED BY <1>1, <1>2

LEMMA LineTwice ==
    ASSUME HomesAreRecognized, NEW line, Decent(line), NEW hash, NEW other,
           "cc" \in DOMAIN line => hash = other
    PROVE  RewriteLine(RewriteLine(line, hash), other) = RewriteLine(line, hash)
<1> DEFINE l == RewriteLine(line, hash)
           m == RewriteLine(l, other)
<1>1. DOMAIN l = DOMAIN line /\ DOMAIN m = DOMAIN line
  BY LineFields
<1>2. ASSUME NEW field \in DOMAIN line PROVE m[field] = l[field]
  <2>1. CASE field = "who"
    BY <1>1, <1>2, <2>1 DEF RewriteLine
  <2>2. CASE field = "dir"
    <3>1. line.dir \in Seq(STRING) /\ line.dir # << >> /\ OneHome(line.dir)
      BY <1>2, <2>2 DEF Decent, Plausible, IsLine
    <3>2. l.dir = RewriteHome(IF Absolute(line.dir) THEN WorkingDir ELSE line.dir)
      BY <1>1, <1>2, <2>2, LineFields
    <3>3. m.dir = RewriteHome(IF Absolute(l.dir) THEN WorkingDir ELSE l.dir)
      BY <1>1, <1>2, <2>2, LineFields
    <3> HIDE DEF l, m
    <3> QED BY <2>2, <3>1, <3>2, <3>3, DirTwice
  <2>3. CASE field = "path"
    <3>1. line.path \in Seq(STRING) /\ OneHome(line.path)
      BY <1>2, <2>3 DEF Decent, Plausible, IsLine
    <3>2. l.path = RewriteHome(line.path) /\ m.path = RewriteHome(l.path)
      BY <1>1, <1>2, <2>3, LineFields
    <3> HIDE DEF l, m
    <3> QED BY <2>3, <3>1, <3>2, HomeTwice
  <2>4. CASE field = "cc"
    <3>1. l[field] = IF hash # NoHash THEN hash ELSE line[field]
      BY <1>2, <2>4 DEF RewriteLine
    <3>2. m[field] = IF hash # NoHash THEN hash ELSE l[field]
      BY <1>1, <1>2, <2>4 DEF RewriteLine
    <3> QED BY <3>1, <3>2
  <2>5. CASE field = "cr"
    <3>1. "fact" \in DOMAIN line => l.fact = line.fact
      BY DEF RewriteLine
    <3>2. l[field] = IF "fact" \in DOMAIN line /\ line.fact = "OS Version" THEN 0 ELSE line[field]
      BY <1>2, <2>5 DEF RewriteLine
    <3>3. m[field] = IF "fact" \in DOMAIN l /\ l.fact = "OS Version" THEN 0 ELSE l[field]
      BY <1>1, <1>2, <2>5 DEF RewriteLine
    <3> HIDE DEF l, m
    <3> QED BY <1>1, <3>1, <3>2, <3>3
  <2>6. CASE field \notin {"who", "dir", "path", "cc", "cr"}
    BY <1>1, <1>2, <2>6 DEF RewriteLine
  <2> QED BY <2>1, <2>2, <2>3, <2>4, <2>5, <2>6
<1>3. m = [field \in DOMAIN line |-> m[field]] /\ l = [field \in DOMAIN line |-> l[field]]
  BY <1>1 DEF RewriteLine
<1> HIDE DEF l, m
<1>4. m = l
  BY <1>2, <1>3
<1> QED BY <1>4 DEF l, m

LEMMA PromptTwice ==
    ASSUME HomesAreRecognized, NEW text, \A i \in DOMAIN text : Decent(text[i]), NEW hash, NEW other,
           hash = other \/ \A i \in DOMAIN text : "cc" \notin DOMAIN text[i]
    PROVE  RewritePromptText(RewritePromptText(text, hash), other) = RewritePromptText(text, hash)
<1> DEFINE t == RewritePromptText(text, hash)
           u == RewritePromptText(t, other)
<1>1. t = [i \in DOMAIN text |-> RewriteLine(text[i], hash)] /\ u = [i \in DOMAIN t |-> RewriteLine(t[i], other)]
  BY DEF RewritePromptText
<1> HIDE DEF t, u
<1>2. DOMAIN t = DOMAIN text
  BY <1>1
<1>3. \A i \in DOMAIN text : RewriteLine(t[i], other) = t[i]
  BY <1>1, LineTwice
<1>4. t = [i \in DOMAIN text |-> t[i]]
  BY <1>1
<1>5. u = t
  BY <1>1, <1>2, <1>3, <1>4
<1> QED BY <1>5 DEF t, u

LEMMA RemindersTwice ==
    ASSUME HomesAreRecognized, NEW text, \A i \in DOMAIN text : Decent(text[i])
    PROVE  RewriteSystemReminders(RewriteSystemReminders(text)) = RewriteSystemReminders(text)
<1> DEFINE t == RewriteSystemReminders(text)
           u == RewriteSystemReminders(t)
<1>1. /\ t = [i \in DOMAIN text |-> IF text[i].reminder THEN RewriteLine(text[i], NoHash) ELSE text[i]]
      /\ u = [i \in DOMAIN t |-> IF t[i].reminder THEN RewriteLine(t[i], NoHash) ELSE t[i]]
  BY DEF RewriteSystemReminders
<1> HIDE DEF t, u
<1>2. DOMAIN t = DOMAIN text
  BY <1>1
<1>3. ASSUME NEW i \in DOMAIN text PROVE u[i] = t[i]
  <2>1. CASE text[i].reminder
    BY <1>1, <1>2, <1>3, <2>1, LineTwice
  <2>2. CASE ~text[i].reminder
    BY <1>1, <1>2, <1>3, <2>2
  <2> QED BY <2>1, <2>2
<1>4. t = [i \in DOMAIN text |-> t[i]] /\ u = [i \in DOMAIN text |-> u[i]]
  BY <1>1, <1>2
<1>5. u = t
  BY <1>3, <1>4
<1> QED BY <1>5 DEF t, u

(* Nothing is dropped that is not there. *)

-----------------------------------------------------------------------------
(* A prompt that has been stripped: its texts say nothing of billing, and  *)
(* those of an array say something.                                        *)

LEMMA ListedIn ==
    ASSUME NEW d, Grown(d), IsArr(d, System), NEW docs, Lists(d, docs),
           NEW q \in DOMAIN d, IsPrefix(System, q), q # System
    PROVE  \E i \in 1 .. Len(docs), r \in Paths : q = Item(i) \o r /\ r \in DOMAIN docs[i]
<1> DEFINE x == Rest(System, q)
           k == x[1]
           c == System \o <<k>>
           r == Rest(<<k>>, x)
<1>1. q \in Paths /\ System \in Paths /\ Document(d)
  BY SystemPath DEF Grown, Document
<1>2. x \in Paths /\ System \o x = q
  BY <1>1, RestIs
<1>3. x # << >>
  <2>1. SUFFICES ASSUME x = << >> PROVE FALSE
    OBVIOUS
  <2>2. System \o << >> = System
    BY DEF System
  <2> QED BY <1>2, <2>1, <2>2
<1> HIDE DEF x
<1>4. k \in Keys
  BY <1>2, <1>3, EmptySeq, LenProperties, ElementOfSeq DEF Paths
<1> HIDE DEF k
<1>5. IsPrefix(<<k>>, x) /\ <<k>> \in Paths
  BY <1>2, <1>3, <1>4, FirstKey DEF k
<1>6. r \in Paths /\ <<k>> \o r = x
  BY <1>2, <1>5, RestIs
<1> HIDE DEF r
<1>7. q = c \o r
  <2>1. (System \o <<k>>) \o r = System \o (<<k>> \o r)
    BY <1>1, <1>5, <1>6, PathsAssociate
  <2>2. q = System \o (<<k>> \o r)
    BY <1>2, <1>6
  <2> QED BY <2>1, <2>2
<1>8. c \in Paths /\ IsPrefix(c, q)
  BY <1>1, <1>4, <1>6, <1>7, ChildIs, ConcatIs
<1>9. c \in DOMAIN d
  BY <1>8, GrownAbove
<1>10. Elements(d, System) = {System \o <<j>> : j \in {l \in Keys : System \o <<l>> \in DOMAIN d}}
  BY <1>1, ChildrenAre DEF Elements
<1>11. c \in Elements(d, System)
  BY <1>4, <1>9, <1>10
<1>12. PICK i \in 1 .. Len(docs) : c = Item(i)
  BY <1>11 DEF Lists
<1> QED BY <1>6, <1>7, <1>12 DEF Lists

LEMMA ListsAlike ==
    ASSUME NEW d, Grown(d), IsArr(d, System), NEW e, Grown(e), IsArr(e, System),
           NEW docs, Lists(d, docs), Lists(e, docs)
    PROVE  Alike(d, e)
<1>1. ASSUME NEW q \in Paths, IsPrefix(System, q) PROVE Same(d, e, q)
  <2>1. CASE q = System
    BY <2>1 DEF Same, IsArr
  <2>2. CASE q # System
    <3>1. ASSUME q \in DOMAIN d PROVE q \in DOMAIN e /\ e[q] = d[q]
      <4>1. PICK i \in 1 .. Len(docs), r \in Paths : q = Item(i) \o r /\ r \in DOMAIN docs[i]
        BY <1>1, <2>2, <3>1, ListedIn
      <4> QED BY <4>1 DEF Lists
    <3>2. ASSUME q \in DOMAIN e PROVE q \in DOMAIN d
      <4>1. PICK i \in 1 .. Len(docs), r \in Paths : q = Item(i) \o r /\ r \in DOMAIN docs[i]
        BY <1>1, <2>2, <3>2, ListedIn
      <4> QED BY <4>1 DEF Lists
    <3> QED BY <3>1, <3>2 DEF Same
  <2> QED BY <2>1, <2>2
<1> QED BY <1>1 DEF Alike

LEMMA NotBlank ==
    ASSUME NEW item, IsText(item, Pos(item)), ~Blank(item)
    PROVE  ~IsBlank(item[Pos(item)].text)
<1>1. "text" \in Keys /\ << >> \o <<"text">> = <<"text">>
  <2>1. "text" \in Keys
    BY DEF Keys, Words
  <2> QED BY <2>1, FirstKey
<1>2. Pos(item) \in ItemText(item, << >>)
  <2>1. CASE IsObj(item, << >>)
    BY <1>1, <2>1 DEF ItemText, Pos, IsText, IsObj
  <2>2. CASE ~IsObj(item, << >>)
    BY <2>2 DEF ItemText, Pos, IsText
  <2> QED BY <2>1, <2>2
<1> QED BY <1>2 DEF Blank

Free(node) ==
    node = Text(node.text) /\ IsList(node.text) /\ \A i \in DOMAIN node.text : ~IsBilling(node.text[i])
Clean(d) == \A q \in PromptTexts(d) : Free(d[q]) /\ (IsArr(d, System) => Speaks(d[q].text))
Tidy(d) == \A q \in PromptTexts(d) : IsTidy(d[q].text)

LEMMA StripClean ==
    ASSUME NEW d, Grown(d), ListTexts(d)
    PROVE  Clean(StripBillingHeader(d))
<1> DEFINE s == Stripped(d)
           e == StripBillingHeader(d)
<1>1. Retexted(d, s) /\ e = IF IsArr(d, System) THEN RetainItems(s) ELSE s
  BY StrippedIs
<1>2. PromptTexts(s) = PromptTexts(d) /\ Grown(s) /\ (IsArr(s, System) <=> IsArr(d, System))
  BY <1>1, RetextedTexts, RetextedGrown, RetextedShape
<1>3. ASSUME NEW q \in PromptTexts(d) PROVE Free(s[q])
  <2>1. q \in SystemTexts(d) /\ IsText(d, q) /\ q \in DOMAIN d
    BY DEF PromptTexts, IsText
  <2> DEFINE t == StripBillingHeaderBlock(d[q].text)
  <2>2. s[q] = Text(t)
    BY <2>1 DEF Stripped, MapTexts
  <2>3. IsList(t) /\ \A i \in DOMAIN t : ~IsBilling(t[i])
    BY BlockTaken DEF ListTexts, IsList
  <2> HIDE DEF t
  <2> QED BY <2>2, <2>3, TextIs DEF Free
<1> HIDE DEF s, e
<1>4. CASE IsArr(d, System)
  <2> DEFINE items == Items(s, System)
             drop == BlankItems(items)
             kept == Without(items, drop)
  <2>1. e = RetainItems(s) /\ IsArr(s, System)
    BY <1>1, <1>2, <1>4
  <2>2. Lists(e, kept) /\ IsArr(e, System) /\ Grown(e)
    BY <1>2, <2>1, RetainListed, RetainGrown
  <2>3. items \in Seq(Subs(s))
    BY <1>2, <2>1, ItemsGrown
  <2>4. PICK f : Moved(e, s, f)
    BY <1>2, <2>1, RetainMoves
  <2>5. drop = {item \in Range(items) : Blank(item)}
    BY DEF BlankItems
  <2> HIDE DEF items, drop
  <2>6. PICK g : Origin(items, drop, kept, Len(items), g)
    BY <2>3, FilterOrigin
  <2> HIDE DEF kept
  <2>7. DOMAIN items = 1 .. Len(items)
    BY <2>3, LenProperties
  <2>8. ASSUME NEW q \in PromptTexts(e) PROVE Free(e[q]) /\ Speaks(e[q].text)
    <3>1. f[q] \in PromptTexts(d) /\ e[q] = s[f[q]]
      BY <1>2, <2>4 DEF Moved
    <3>2. Free(e[q])
      BY <1>3, <3>1
    <3>3. TextsAt(e, kept)
      BY <2>2, TextsListed DEF Grown
    <3>4. PICK i \in 1 .. Len(kept) : q = Item(i) \o Pos(kept[i])
      BY <3>3 DEF TextsAt
    <3>5. IsText(kept[i], Pos(kept[i])) /\ e[q] = kept[i][Pos(kept[i])]
      BY <3>3, <3>4 DEF TextsAt
    <3>6. ~Blank(kept[i])
      <4>1. g[i] \in DOMAIN items /\ kept[i] = items[g[i]] /\ kept[i] \notin drop
        BY <2>6, <2>7 DEF Origin
      <4>2. kept[i] \in Range(items)
        BY <4>1 DEF Range
      <4> QED BY <2>5, <4>1, <4>2
    <3>7. ~IsBlank(e[q].text)
      BY <3>5, <3>6, NotBlank
    <3> QED BY <3>2, <3>7 DEF Free, IsBlank, Speaks, Spoken
  <2> QED BY <2>8 DEF Clean, e
<1>5. CASE ~IsArr(d, System)
  BY <1>1, <1>2, <1>3, <1>5 DEF Clean, e
<1> QED BY <1>4, <1>5

LEMMA BlockStays ==
    ASSUME NEW node, Free(node), IsTidy(node.text)
    PROVE  Text(StripBillingHeaderBlock(node.text)) = node /\ StripBillingHeaderBlock(node.text) = node.text
<1> DEFINE text == node.text
           n == Len(text)
           drop == {line \in Range(text) : IsBilling(line)}
<1>1. text \in Seq(Range(text)) /\ n \in Nat /\ DOMAIN text = 1 .. n /\ text = [i \in 1 .. n |-> text[i]]
  BY LenProperties DEF Free, IsList
<1>2. \A i \in DOMAIN text : text[i] \notin drop
  BY DEF Free
<1>3. node = Text(text) /\ IsTidy(text)
  BY DEF Free
<1> HIDE DEF drop, text
<1>4. TextLines(text) = text
  <2>1. {j \in DOMAIN text : j < n \/ ~IsEmptyLine(text[j])} = 1 .. n
    BY <1>1, <1>3 DEF IsTidy
  <2>2. \A i \in 1 .. n : i < n => WithoutCr(text[i]) = text[i]
    <3>1. \A i \in 1 .. n : i < n => ("cr" \in DOMAIN text[i] => text[i].cr = 0)
      BY <1>1, <1>3 DEF IsTidy
    <3> QED BY <3>1 DEF WithoutCr
  <2>3. TextLines(text) = [i \in 1 .. n |-> text[i]]
    BY <2>1, <2>2 DEF TextLines
  <2> QED BY <1>1, <2>3
<1>5. Without(text, drop) = text
  BY <1>1, <1>2, WithoutNothing
<1>6. JoinLines(text) = text
  BY <1>1, <1>3 DEF JoinLines, IsTidy
<1>7. StripBillingHeaderBlock(text) = text
  BY <1>4, <1>5, <1>6 DEF StripBillingHeaderBlock, drop
<1> QED BY <1>3, <1>7 DEF text

LEMMA CleanStrip ==
    ASSUME NEW d, Grown(d), Clean(d), Tidy(d)
    PROVE  Alike(StripBillingHeader(d), d)
<1> DEFINE s == Stripped(d)
           e == StripBillingHeader(d)
<1>1. Retexted(d, s) /\ e = IF IsArr(d, System) THEN RetainItems(s) ELSE s
  BY StrippedIs
<1>2. PromptTexts(s) = PromptTexts(d) /\ Grown(s) /\ (IsArr(s, System) <=> IsArr(d, System)) /\ DOMAIN s = DOMAIN d
  BY <1>1, RetextedTexts, RetextedGrown, RetextedShape DEF Retexted
<1>3. ASSUME NEW q \in DOMAIN d PROVE s[q] = d[q]
  <2>1. CASE q \in PromptTexts(d)
    <3>1. q \in SystemTexts(d) /\ IsText(d, q)
      BY <2>1 DEF PromptTexts
    <3>2. s[q] = Text(StripBillingHeaderBlock(d[q].text))
      BY <1>3, <3>1 DEF Stripped, MapTexts
    <3> QED BY <2>1, <3>2, BlockStays DEF Clean, Tidy
  <2>2. CASE q \notin PromptTexts(d)
    BY <1>3, <2>2 DEF PromptTexts, Stripped, MapTexts
  <2> QED BY <2>1, <2>2
<1> HIDE DEF s, e
<1>4. Alike(s, d)
  BY <1>2, <1>3 DEF Alike, Same
<1>5. CASE IsArr(d, System)
  <2> DEFINE items == Items(s, System)
             drop == BlankItems(items)
             kept == Without(items, drop)
  <2>1. e = RetainItems(s) /\ IsArr(s, System)
    BY <1>1, <1>2, <1>5
  <2>2. Lists(e, kept) /\ IsArr(e, System) /\ Grown(e) /\ Lists(s, items)
    BY <1>2, <2>1, RetainListed, RetainGrown, ItemsListed
  <2>3. items \in Seq(Subs(s))
    BY <1>2, <2>1, ItemsGrown
  <2>4. drop = {item \in Range(items) : Blank(item)}
    BY DEF BlankItems
  <2> HIDE DEF items, drop
  <2>5. DOMAIN items = 1 .. Len(items)
    BY <2>3, LenProperties
  <2>6. ASSUME NEW i \in DOMAIN items PROVE items[i] \notin drop
    <3> DEFINE item == items[i]
               q == Item(i) \o Pos(item)
    <3>1. SUFFICES ASSUME Blank(item) PROVE FALSE
      BY <2>4
    <3>2. IsText(item, Pos(item)) /\ IsBlank(item[Pos(item)].text)
      BY <3>1, BlankIs
    <3>3. TextsAt(s, items)
      BY <1>2, <2>1, <2>2, TextsListed DEF Grown
    <3>4. q \in PromptTexts(s) /\ s[q] = item[Pos(item)]
      BY <2>5, <3>2, <3>3 DEF TextsAt
    <3>5. q \in PromptTexts(d) /\ q \in DOMAIN d
      BY <1>2, <3>4 DEF PromptTexts, IsText
    <3>6. ~IsBlank(d[q].text)
      BY <1>5, <3>5 DEF Clean, Speaks, Spoken, IsBlank
    <3> HIDE DEF q, item
    <3> QED BY <1>3, <3>2, <3>4, <3>5, <3>6
  <2>7. kept = items
    BY <2>3, <2>6, WithoutNothing
  <2>8. Alike(e, s)
    BY <1>2, <2>1, <2>2, <2>7, ListsAlike
  <2> QED BY <1>4, <2>8 DEF Alike, Same, e
<1>6. CASE ~IsArr(d, System)
  BY <1>1, <1>4, <1>6 DEF e
<1> QED BY <1>5, <1>6

-----------------------------------------------------------------------------
(* A rewritten prompt, rewritten once more. *)

LEMMA CleanAlike ==
    ASSUME NEW d, Document(d), NEW e, Document(e), Alike(d, e)
    PROVE  (Clean(d) => Clean(e)) /\ (Tidy(d) => Tidy(e))
BY AlikeTexts DEF Clean, Tidy

LEMMA FreePrompt ==
    ASSUME NEW text, IsList(text), \A i \in DOMAIN text : ~IsBilling(text[i]), NEW hash
    PROVE  LET new == Text(RewritePromptText(text, hash))
           IN  Free(new) /\ (Speaks(text) => Speaks(new.text))
<1> DEFINE t == RewritePromptText(text, hash)
<1>1. DOMAIN text = 1 .. Len(text) /\ Len(text) \in Nat
  BY LenProperties DEF IsList
<1>2. /\ t \in [1 .. Len(text) -> Range(t)] /\ DOMAIN t = DOMAIN text
      /\ \A i \in DOMAIN text : t[i] = RewriteLine(text[i], hash)
  BY <1>1 DEF RewritePromptText, Range
<1> HIDE DEF t
<1>3. IsList(t)
  BY <1>1, <1>2, SeqDef DEF IsList
<1>4. \A i \in DOMAIN t : ~IsBilling(t[i])
  BY <1>2, LineFields DEF IsBilling
<1>5. Speaks(text) => Speaks(t)
  BY <1>2, RewordedWords DEF Speaks
<1> QED BY <1>3, <1>4, <1>5, TextIs DEF Free, t

LEMMA CleanPrompted ==
    ASSUME NEW d, ListTexts(d), IsArr(d, System) => Clean(d), NEW hash
    PROVE  Clean(Prompted(d, hash, TRUE))
<1> DEFINE e == Prompted(d, hash, TRUE)
<1>1. /\ Retexted(d, e)
      /\ \A q \in DOMAIN d : e[q] = IF q \in SystemTexts(d) /\ IsText(d, q)
                                    THEN Text(RewritePromptText(KeptText(d[q].text, TRUE), hash)) ELSE d[q]
  BY PromptedIs
<1> HIDE DEF e
<1>2. PromptTexts(e) = PromptTexts(d) /\ (IsArr(e, System) <=> IsArr(d, System))
  BY <1>1, RetextedTexts, RetextedShape
<1>3. ASSUME NEW q \in PromptTexts(d) PROVE Free(e[q]) /\ (IsArr(d, System) => Speaks(e[q].text))
  <2> DEFINE t == StripBillingHeaderBlock(d[q].text)
  <2>1. q \in SystemTexts(d) /\ IsText(d, q) /\ q \in DOMAIN d
    BY DEF PromptTexts, IsText
  <2>2. e[q] = Text(RewritePromptText(t, hash))
    BY <1>1, <2>1 DEF KeptText
  <2>3. IsList(t) /\ Taken(t, d[q].text, FALSE) /\ \A i \in DOMAIN t : ~IsBilling(t[i])
    BY BlockTaken DEF ListTexts, IsList
  <2> HIDE DEF t
  <2>4. IsArr(d, System) => Speaks(t)
    BY <2>3, SpeaksIs DEF Clean
  <2> QED BY <2>2, <2>3, <2>4, FreePrompt
<1> QED BY <1>2, <1>3 DEF Clean, e

(* Texts as a client may have sent them: on these every rewriting of a     *)
(* line is idempotent.                                                     *)
Decently(d) ==
    \A q \in PromptTexts(d) : IsList(d[q].text) /\ \A i \in DOMAIN d[q].text : Decent(d[q].text[i])

Announcing(d) == \E q \in PromptTexts(d) : \E i \in DOMAIN d[q].text : "cc" \in DOMAIN d[q].text[i]

LEMMA KeptDecent ==
    ASSUME NEW d, Grown(d), Decently(d), NEW strip \in BOOLEAN
    PROVE  LET e == Unbilled(d, strip)
           IN  /\ ListTexts(e) /\ (strip /\ IsArr(e, System) => Clean(e))
               /\ \A q \in PromptTexts(e) : LET new == KeptText(e[q].text, strip)
                                            IN  \A i \in DOMAIN new : Decent(new[i])
<1> DEFINE e == Unbilled(d, strip)
<1>0. ListTexts(d) /\ e = IF strip /\ IsArr(d, System) THEN StripBillingHeader(d) ELSE d
  BY DEF Decently, ListTexts, Unbilled
<1> HIDE DEF e
<1>1. (\E f : Prompts(e, d, f, FALSE)) /\ ListTexts(e) /\ SystemStays(e, d)
  <2>1. e = (IF TRUE THEN StripBillingHeader(d) ELSE d) \/ e = IF FALSE THEN StripBillingHeader(d) ELSE d
    BY <1>0
  <2> QED BY <1>0, <2>1, KeptPrompts
<1>2. PICK f : Prompts(e, d, f, FALSE)
  BY <1>1
<1>3. strip /\ IsArr(e, System) => Clean(e)
  BY <1>0, <1>1, StripClean DEF SystemStays
<1>4. ASSUME NEW q \in PromptTexts(e) PROVE LET new == KeptText(e[q].text, strip) IN \A i \in DOMAIN new : Decent(new[i])
  <2> DEFINE old == d[f[q]].text
             new == KeptText(e[q].text, strip)
  <2>1. f[q] \in PromptTexts(d) /\ Taken(e[q].text, old, FALSE) /\ IsList(e[q].text)
    BY <1>1, <1>2 DEF Prompts, ListTexts
  <2>2. \A i \in DOMAIN old : Decent(old[i])
    BY <2>1 DEF Decently
  <2>3. Taken(new, e[q].text, FALSE)
    BY <2>1, KeptTaken
  <2> HIDE DEF old, new
  <2>4. PICK g : Selected(new, old, g, FALSE)
    BY <2>1, <2>3, TakenTwice DEF Taken
  <2>5. \A i \in DOMAIN new : SameWords(new[i], old[g[i]]) /\ Decent(old[g[i]])
    BY <2>2, <2>4 DEF Selected, Means
  <2>6. \A a, b : SameWords(a, b) /\ Decent(b) => Decent(a)
    BY DEF SameWords, Decent, Plausible, IsLine
  <2>7. \A i \in DOMAIN new : Decent(new[i])
    BY <2>5, <2>6
  <2> QED BY <2>7 DEF new
<1> QED BY <1>1, <1>3, <1>4 DEF e

LEMMA PromptedAgain ==
    ASSUME HomesAreRecognized, NEW k, Document(k), NEW w, Document(w), NEW hash, NEW other, NEW strip \in BOOLEAN,
           Alike(Prompted(k, hash, strip), w), strip => Clean(w) /\ Tidy(w),
           \A q \in PromptTexts(k) : \A i \in DOMAIN KeptText(k[q].text, strip) : Decent(KeptText(k[q].text, strip)[i]),
           hash = other \/ ~Announcing(w)
    PROVE  Alike(Prompted(w, other, strip), w)
<1> DEFINE r == Prompted(k, hash, strip)
           s == Prompted(w, other, strip)
<1>1. /\ Retexted(k, r)
      /\ \A q \in DOMAIN k : r[q] = IF q \in SystemTexts(k) /\ IsText(k, q)
                                    THEN Text(RewritePromptText(KeptText(k[q].text, strip), hash)) ELSE k[q]
  BY PromptedIs
<1>2. /\ Retexted(w, s)
      /\ \A q \in DOMAIN w : s[q] = IF q \in SystemTexts(w) /\ IsText(w, q)
                                    THEN Text(RewritePromptText(KeptText(w[q].text, strip), other)) ELSE w[q]
  BY PromptedIs
<1> HIDE DEF r, s
<1>3. PromptTexts(r) = PromptTexts(k) /\ Document(r) /\ DOMAIN s = DOMAIN w
  BY <1>1, <1>2, RetextedTexts DEF Retexted, Document
<1>4. Alike(r, w)
  BY DEF r
<1>5. PromptTexts(w) = PromptTexts(r) /\ \A q \in PromptTexts(r) : w[q] = r[q]
  BY <1>3, <1>4, AlikeTexts
<1>6. ASSUME NEW q \in DOMAIN w PROVE s[q] = w[q]
  <2>1. CASE q \in PromptTexts(w)
    <3> DEFINE text == KeptText(k[q].text, strip)
               t == RewritePromptText(text, hash)
    <3>1. q \in PromptTexts(k) /\ w[q] = r[q] /\ q \in SystemTexts(k) /\ IsText(k, q) /\ q \in DOMAIN k
      BY <1>3, <1>5, <2>1 DEF PromptTexts, IsText
    <3>2. w[q] = Text(t)
      BY <1>1, <3>1
    <3>3. s[q] = Text(RewritePromptText(w[q].text, other))
      <4>1. KeptText(w[q].text, strip) = w[q].text
        BY <2>1, BlockStays DEF KeptText, Clean, Tidy
      <4> QED BY <1>2, <1>6, <2>1, <4>1 DEF PromptTexts
    <3>4. w[q].text = t
      BY <3>2, TextIs
    <3>5. hash = other \/ \A i \in DOMAIN text : "cc" \notin DOMAIN text[i]
      <4>1. DOMAIN t = DOMAIN text /\ \A i \in DOMAIN text : t[i] = RewriteLine(text[i], hash)
        BY DEF RewritePromptText
      <4>2. \A i \in DOMAIN text : DOMAIN t[i] = DOMAIN text[i]
        BY <4>1, LineFields
      <4> HIDE DEF text, t
      <4> QED BY <2>1, <3>4, <4>1, <4>2 DEF Announcing
    <3>6. \A i \in DOMAIN text : Decent(text[i])
      BY <3>1
    <3> HIDE DEF text
    <3>7. RewritePromptText(t, other) = t
      BY <3>5, <3>6, PromptTwice
    <3> QED BY <3>2, <3>3, <3>4, <3>7
  <2>2. CASE q \notin PromptTexts(w)
    BY <1>2, <1>6, <2>2 DEF PromptTexts
  <2> QED BY <2>1, <2>2
<1>7. Alike(s, w)
  BY <1>3, <1>6 DEF Alike, Same
<1> QED BY <1>7 DEF s

LEMMA AlikeOrder ==
    ASSUME NEW d, NEW e
    PROVE  /\ Alike(d, e) => Alike(e, d)
           /\ \A c : Alike(c, d) /\ Alike(d, e) => Alike(c, e)
BY DEF Alike, Same

LEMMA SystemTwice ==
    ASSUME HomesAreRecognized, NEW u, Grown(u), Decently(u), NEW v, Grown(v),
           NEW hash, NEW other, NEW strip \in BOOLEAN, strip => Tidy(v),
           Alike(RewriteSystemBody(u, hash, strip), v), hash = other \/ ~Announcing(v)
    PROVE  Alike(RewriteSystemBody(v, other, strip), v)
<1> DEFINE r == RewriteSystemBody(u, hash, strip)
           k == Unbilled(u, strip)
           w == Unbilled(v, strip)
           s == RewriteSystemBody(v, other, strip)
<1>0. Document(u) /\ Document(v)
  BY DEF Grown
<1>1. r = IF IsObj(u, System) THEN u ELSE Prompted(k, hash, strip)
  BY PromptedIs
<1>2. s = IF IsObj(v, System) THEN v ELSE Prompted(w, other, strip)
  BY PromptedIs
<1>3. Grown(k) /\ Grown(w) /\ Grown(r)
  BY StripGrown, SystemBodyGrown DEF Unbilled
<1>4. Alike(r, v)
  OBVIOUS
<1> HIDE DEF r, s
<1>5. CASE IsObj(v, System)
  BY <1>2, <1>5 DEF Alike, Same, s
<1>6. CASE ~IsObj(v, System)
  <2>1. ~IsObj(r, System)
    BY <1>0, <1>3, <1>4, <1>6, AlikeTexts DEF Grown
  <2>2. r = Prompted(k, hash, strip) /\ s = Prompted(w, other, strip)
    BY <1>1, <1>2, <1>6, <2>1
  <2>3. /\ ListTexts(k) /\ (strip /\ IsArr(k, System) => Clean(k))
        /\ \A q \in PromptTexts(k) : \A i \in DOMAIN KeptText(k[q].text, strip) : Decent(KeptText(k[q].text, strip)[i])
    BY KeptDecent
  <2>4. Alike(w, v) /\ (strip => Clean(v))
    <3>1. CASE strip
      <4>1. Clean(r)
        <5> HIDE DEF k
        <5> QED BY <2>2, <2>3, <3>1, CleanPrompted
      <4>2. Clean(v)
        BY <1>0, <1>3, <1>4, <4>1, CleanAlike DEF Grown
      <4>3. Alike(v, v)
        BY DEF Alike, Same
      <4> QED BY <3>1, <4>2, <4>3, CleanStrip DEF Unbilled
    <3>2. CASE ~strip
      BY <3>2 DEF Alike, Same, Unbilled
    <3> QED BY <3>1, <3>2
  <2> HIDE DEF k, w
  <2>5. Alike(v, w) /\ Alike(Prompted(k, hash, strip), w)
    BY <1>4, <2>2, <2>4, AlikeOrder
  <2>6. hash = other \/ ~Announcing(w)
    <3>1. PromptTexts(w) = PromptTexts(v) /\ \A q \in PromptTexts(v) : w[q] = v[q]
      BY <1>0, <1>3, <2>5, AlikeTexts DEF Grown
    <3> QED BY <3>1 DEF Announcing
  <2>7. strip => Clean(w) /\ Tidy(w)
    BY <1>0, <1>3, <2>4, <2>5, CleanAlike DEF Grown
  <2>8. Alike(s, w)
    BY <1>3, <2>2, <2>3, <2>5, <2>6, <2>7, PromptedAgain DEF Grown
  <2> QED BY <2>4, <2>8, AlikeOrder DEF s
<1> QED BY <1>5, <1>6

(* Stripping alone, in conservative mode. *)
LEMMA StripTwice ==
    ASSUME NEW u, Grown(u), ListTexts(u), NEW v, Grown(v), Tidy(v), Alike(StripBillingHeader(u), v)
    PROVE  Alike(StripBillingHeader(v), v)
<1>1. Clean(StripBillingHeader(u)) /\ Grown(StripBillingHeader(u))
  BY StripClean, StripGrown
<1>2. Clean(v)
  <2> DEFINE e == StripBillingHeader(u)
  <2> HIDE DEF e
  <2>1. Clean(e) /\ Grown(e) /\ Alike(e, v)
    BY <1>1 DEF e
  <2> QED BY <2>1, CleanAlike DEF Grown
<1> QED BY <1>2, CleanStrip

-----------------------------------------------------------------------------
(* Two documents that are the same at every path are one. *)
IsFcn(f) == f = [x \in DOMAIN f |-> f[x]]

LEMMA DocumentsEqual ==
    ASSUME NEW d, Document(d), IsFcn(d), NEW e, Document(e), IsFcn(e), \A q \in Paths : Same(d, e, q)
    PROVE  d = e
<1>1. DOMAIN d = DOMAIN e
  BY DEF Document, Same
<1>2. \A q \in DOMAIN d : d[q] = e[q]
  BY DEF Document, Same
<1> QED BY <1>1, <1>2 DEF IsFcn

LEMMA PutAllIsFcn == \A d, new : IsFcn(PutAll(d, new))
BY DEF IsFcn, PutAll

LEMMA MadeFcn ==
    /\ \A d, p, fields : IsFcn(Insert(d, p, fields))
    /\ \A d, p, v : IsFcn(Put(d, p, v))
    /\ \A d, p, v : IsFcn(d) => IsFcn([d EXCEPT ![p] = v])
<1>1. \A d, p, fields : IsFcn(Insert(d, p, fields))
  BY PutAllIsFcn DEF Insert
<1>2. \A d, p, v : IsFcn(Put(d, p, v))
  BY PutAllIsFcn DEF Put
<1> QED BY <1>1, <1>2 DEF IsFcn

(* The object that metadata.user_id encodes, as it leaves. *)
UserKeys(user) == (IdKeys \ {"email"}) \cup {k \in {"email"} : <<k>> \in DOMAIN user}
Anonymous(user) == Insert(user, << >>, [k \in UserKeys(user) |-> Canonical])

LEMMA AnonymousTwice ==
    ASSUME NEW user, Document(user)
    PROVE  /\ Anonymous(Anonymous(user)) = Anonymous(user) /\ Document(Anonymous(user))
           /\ IsObj(user, << >>) => IsObj(Anonymous(user), << >>)
<1> DEFINE set == UserKeys(user)
           fields == [k \in set |-> Canonical]
           a == Anonymous(user)
           b == Insert(a, << >>, fields)
<1>0. /\ set \subseteq Keys /\ << >> \in Paths /\ "email" \in Keys /\ (IdKeys \ {"email"}) \subseteq set
      /\ set \subseteq IdKeys /\ ("email" \in set <=> <<"email">> \in DOMAIN user)
  BY KnownKeys, EmptySeq DEF IdKeys, Paths, UserKeys
<1>1. DOMAIN fields = set /\ \A k \in set : fields[k] = Canonical
  OBVIOUS
<1>2. a = Insert(user, << >>, fields)
  BY DEF Anonymous
<1> HIDE DEF set, fields
<1>3. Inserted(a, user, << >>, fields) /\ Document(a) /\ IsFcn(a)
  <2> HIDE DEF a
  <2> QED BY <1>0, <1>1, <1>2, InsertIs, InsertDocument, MadeFcn
<1> HIDE DEF a
<1>4. Inserted(b, a, << >>, fields) /\ Document(b) /\ IsFcn(b)
  BY <1>0, <1>1, <1>3, InsertIs, InsertDocument, MadeFcn
<1> HIDE DEF b
<1>5. \A k \in set : << >> \o <<k>> = <<k>> /\ <<k>> \in Paths
  BY <1>0, FirstKey
<1>6. \A q \in Paths : (\A k \in set : ~IsPrefix(<<k>>, q)) => Same(a, user, q) /\ Same(b, a, q)
  BY <1>1, <1>3, <1>4, <1>5 DEF Inserted
<1>7. \A k \in set : <<k>> \in DOMAIN a /\ <<k>> \in DOMAIN b /\ a[<<k>>] = Canonical /\ b[<<k>>] = Canonical
  BY <1>1, <1>3, <1>4, <1>5 DEF Inserted
<1>8. UserKeys(a) = set
  <2>1. "email" \notin set => <<"email">> \notin DOMAIN a
    <3>1. SUFFICES ASSUME "email" \notin set PROVE <<"email">> \notin DOMAIN a
      OBVIOUS
    <3>2. ASSUME NEW k \in set, IsPrefix(<<k>>, <<"email">>) PROVE FALSE
      <4>1. <<"email">> \in Paths /\ <<"email">>[1] = "email"
        BY <1>0, FirstKey
      <4>2. k = "email"
        BY <1>0, <3>2, <4>1, FirstKey
      <4> QED BY <3>1, <4>2
    <3> QED BY <1>0, <1>6, <3>1, <3>2, FirstKey DEF Same
  <2>2. "email" \in set => <<"email">> \in DOMAIN a
    BY <1>7
  <2> QED BY <1>0, <2>1, <2>2 DEF UserKeys
<1>9. ASSUME NEW q \in Paths PROVE Same(b, a, q)
  <2>1. CASE \E k \in set : q = <<k>>
    BY <1>7, <2>1 DEF Same
  <2>2. CASE \E k \in set : IsPrefix(<<k>>, q) /\ q # <<k>>
    BY <1>1, <1>3, <1>4, <1>5, <2>2 DEF Inserted, Same
  <2>3. CASE \A k \in set : ~IsPrefix(<<k>>, q)
    BY <1>6, <2>3
  <2> QED BY <2>1, <2>2, <2>3
<1>10. b = a
  BY <1>3, <1>4, <1>9, DocumentsEqual
<1>11. Anonymous(a) = b
  BY <1>8 DEF Anonymous, b, fields
<1>12. IsObj(user, << >>) => IsObj(a, << >>)
  <2>1. \A k \in set : ~IsPrefix(<<k>>, << >>)
    BY <1>0, FirstKey
  <2> QED BY <1>0, <1>6, <2>1 DEF Same, IsObj
<1> QED BY <1>3, <1>10, <1>11, <1>12 DEF a

UserId == <<"metadata", "user_id">>
Identified(node) == Enc("json", Anonymous(node.doc))

LEMMA IdentifiedIs ==
    ASSUME NEW d
    PROVE  LET e == RewriteMessagesMetadata(d)
               names == IsObj(d, <<"metadata">>) /\ EncodesObj(d, UserId, "json")
           IN  /\ DOMAIN e = DOMAIN d
               /\ \A q \in DOMAIN d : e[q] = IF names /\ q = UserId THEN Identified(d[q]) ELSE d[q]
               /\ IsFcn(d) => IsFcn(e)
<1> DEFINE e == RewriteMessagesMetadata(d)
           names == IsObj(d, <<"metadata">>) /\ EncodesObj(d, UserId, "json")
<1>1. e = IF names THEN [d EXCEPT ![UserId] = Identified(d[UserId])] ELSE d
  BY DEF RewriteMessagesMetadata, UserId, Identified, Anonymous, UserKeys
<1> HIDE DEF e, names
<1>2. DOMAIN e = DOMAIN d /\ \A q \in DOMAIN d : e[q] = IF names /\ q = UserId THEN Identified(d[q]) ELSE d[q]
  BY <1>1
<1>3. IsFcn(d) => IsFcn(e)
  BY <1>1, MadeFcn
<1> QED BY <1>2, <1>3 DEF e, names

LEMMA UserIdPath ==
    /\ <<"metadata">> \in Paths /\ UserId \in Paths /\ UserId # <<"metadata">>
    /\ ~IsPrefix(System, <<"metadata">>) /\ ~IsPrefix(System, UserId)
    /\ ~IsPrefix(<<"messages">>, UserId) /\ ~IsPrefix(System, << >>)
<1>1. "metadata" \in Keys /\ "user_id" \in Keys /\ "messages" \in Keys /\ << >> \in Paths
  BY KnownKeys, FirstKey
<1>2. <<"metadata">> \in Paths /\ <<"metadata">> # << >> /\ <<"metadata">>[1] = "metadata"
  BY <1>1, FirstKey
<1>3. UserId = <<"metadata">> \o <<"user_id">> /\ UserId[1] = "metadata" /\ UserId # << >>
  BY DEF UserId
<1>4. UserId \in Paths
  BY <1>1, <1>2, <1>3, ChildIs
<1>5. UserId # <<"metadata">>
  BY DEF UserId
<1>6. ~IsPrefix(System, <<"metadata">>) /\ ~IsPrefix(System, UserId) /\ ~IsPrefix(System, << >>)
  BY <1>1, <1>2, <1>3, <1>4, SystemPath
<1>7. ~IsPrefix(<<"messages">>, UserId)
  BY <1>1, <1>3, <1>4, FirstKey
<1> QED BY <1>2, <1>4, <1>5, <1>6, <1>7

LEMMA BelowMessages ==
    ASSUME NEW q \in Paths, IsPrefix(<<"messages">>, q)
    PROVE  ~IsPrefix(System, q) /\ q # UserId
<1>1. "messages" \in Keys
  BY KnownKeys
<1> QED BY <1>1, FirstKey, SystemPath, UserIdPath

LEMMA MetadataShape ==
    ASSUME NEW d
    PROVE  LET e == RewriteMessagesMetadata(d) IN
           /\ DOMAIN e = DOMAIN d
           /\ \A q : (IsObj(e, q) <=> IsObj(d, q)) /\ (IsArr(e, q) <=> IsArr(d, q))
<1> DEFINE e == RewriteMessagesMetadata(d)
           names == IsObj(d, <<"metadata">>) /\ EncodesObj(d, UserId, "json")
<1>1. DOMAIN e = DOMAIN d /\ \A q \in DOMAIN d : e[q] = IF names /\ q = UserId THEN Identified(d[q]) ELSE d[q]
  BY IdentifiedIs
<1>2. names => d[UserId] # Obj /\ d[UserId] # Arr
  BY DEF EncodesObj, Encodes, Obj, Arr
<1>3. \A node : Identified(node) # Obj /\ Identified(node) # Arr
  BY EncIs DEF Identified
<1> HIDE DEF names, e
<1> QED BY <1>1, <1>2, <1>3 DEF IsObj, IsArr, e

(* The identity in metadata.user_id is canonical once and for all. *)
LEMMA UserIdTwice ==
    ASSUME NEW d, NEW e, EncodesObj(d, UserId, "json") => Document(d[UserId].doc),
           Same(e, d, UserId) \/ Same(e, RewriteMessagesMetadata(d), UserId),
           IsObj(e, <<"metadata">>) <=> IsObj(d, <<"metadata">>)
    PROVE  Same(RewriteMessagesMetadata(e), RewriteMessagesMetadata(d), UserId)
<1> DEFINE m(x) == RewriteMessagesMetadata(x)
           names(x) == IsObj(x, <<"metadata">>) /\ EncodesObj(x, UserId, "json")
<1>1. \A x : /\ UserId \in DOMAIN m(x) <=> UserId \in DOMAIN x
             /\ UserId \in DOMAIN x => m(x)[UserId] = IF names(x) THEN Identified(x[UserId]) ELSE x[UserId]
  BY IdentifiedIs
<1> HIDE DEF m
<1>2. Same(e, d, UserId) \/ Same(e, m(d), UserId)
  BY DEF m
<1>3. UserId \in DOMAIN e <=> UserId \in DOMAIN d
  BY <1>1, <1>2 DEF Same
<1>4. CASE UserId \notin DOMAIN d
  BY <1>1, <1>3, <1>4 DEF Same, m
<1>5. CASE UserId \in DOMAIN d /\ e[UserId] = d[UserId]
  <2>1. names(e) <=> names(d)
    BY <1>3, <1>5 DEF EncodesObj, Encodes
  <2> QED BY <1>1, <1>3, <1>5, <2>1 DEF Same, m
<1>6. CASE UserId \in DOMAIN d /\ e[UserId] # d[UserId]
  <2>1. e[UserId] = m(d)[UserId]
    BY <1>2, <1>3, <1>6 DEF Same
  <2>2. names(d) /\ e[UserId] = Identified(d[UserId])
    BY <1>1, <1>6, <2>1
  <2> DEFINE user == d[UserId].doc
  <2>3. Document(user) /\ IsObj(user, << >>)
    BY <2>2 DEF EncodesObj
  <2>4. /\ Anonymous(Anonymous(user)) = Anonymous(user)
        /\ IsObj(Anonymous(user), << >>)
    <3> HIDE DEF user
    <3> QED BY <2>3, AnonymousTwice
  <2>5. e[UserId] = Enc("json", Anonymous(user))
    BY <2>2 DEF Identified
  <2> HIDE DEF user
  <2>6. e[UserId].doc = Anonymous(user) /\ e[UserId].coding = "json" /\ "coding" \in DOMAIN e[UserId]
    BY <2>5 DEF Enc
  <2>7. names(e)
    BY <1>3, <1>6, <2>2, <2>4, <2>6 DEF EncodesObj, Encodes
  <2>8. Identified(e[UserId]) = e[UserId]
    BY <2>4, <2>5, <2>6 DEF Identified
  <2> HIDE DEF names
  <2>9. m(e)[UserId] = e[UserId] /\ m(d)[UserId] = e[UserId]
    BY <1>1, <1>3, <1>6, <2>1, <2>7, <2>8
  <2> QED BY <1>1, <1>3, <1>6, <2>9 DEF Same, m
<1> QED BY <1>4, <1>5, <1>6

-----------------------------------------------------------------------------
(* A message outside its prompt, rewritten twice. *)

LEMMA StripGrownOutside ==
    ASSUME NEW d, Grown(d), NEW q \in Paths, ~IsPrefix(System, q)
    PROVE  Same(StripBillingHeader(d), d, q)
<1> DEFINE s == Stripped(d)
           e == StripBillingHeader(d)
<1>1. Retexted(d, s) /\ e = IF IsArr(d, System) THEN RetainItems(s) ELSE s
  BY StrippedIs
<1>2. Grown(s) /\ (IsArr(s, System) <=> IsArr(d, System)) /\ DOMAIN s = DOMAIN d
  BY <1>1, RetextedGrown, RetextedShape DEF Retexted
<1>3. q \notin SystemTexts(d)
  BY SystemTextsBelow DEF Grown
<1>4. q \in DOMAIN d => s[q] = d[q]
  BY <1>3 DEF Stripped, MapTexts
<1> HIDE DEF s, e
<1>5. Same(s, d, q)
  BY <1>2, <1>4 DEF Same
<1>6. CASE IsArr(d, System)
  <2> DEFINE items == Items(s, System)
             kept == Without(items, BlankItems(items))
  <2>1. e = Put(s, System, ArrayOf(kept))
    BY <1>1, <1>6 DEF RetainItems
  <2>2. /\ items \in Seq(Subs(s)) /\ (\A x \in Subs(s) : Grown(x)) /\ Len(items) \in Nat
        /\ Len(items) <= Len(Index)
    <3>1. items \in Seq(Subs(s)) /\ (\A x \in Subs(s) : Grown(x)) /\ Len(items) \in 0 .. Len(Index)
      BY <1>2, <1>6, ItemsGrown
    <3> QED BY <3>1, IndexIs
  <2> HIDE DEF items
  <2>3. kept \in Seq(Subs(s)) /\ Len(kept) <= Len(Index)
    <3>1. kept \in Seq(Subs(s)) /\ Len(kept) <= Len(items) /\ Len(kept) \in Nat
      BY <2>2, FilterSeq, FilterLength, LenProperties
    <3> QED BY <2>2, <3>1, IndexIs
  <2> HIDE DEF kept
  <2>4. Document(ArrayOf(kept))
    BY <2>2, <2>3, ArrayAt DEF Grown, IsArrayOf
  <2>5. Same(e, s, q)
    BY <2>1, <2>4, SystemPath, PutOutside
  <2> QED BY <1>5, <2>5 DEF Same, e
<1>7. CASE ~IsArr(d, System)
  BY <1>1, <1>5, <1>7 DEF e
<1> QED BY <1>6, <1>7

LEMMA SystemGrownOutside ==
    ASSUME NEW d, Grown(d), NEW hash, NEW strip \in BOOLEAN, NEW q \in Paths, ~IsPrefix(System, q)
    PROVE  Same(RewriteSystemBody(d, hash, strip), d, q)
<1> DEFINE k == Unbilled(d, strip)
           e == Prompted(k, hash, strip)
<1>1. Grown(k) /\ Same(k, d, q)
  BY StripGrown, StripGrownOutside DEF Same, Unbilled
<1>2. RewriteSystemBody(d, hash, strip) = IF IsObj(d, System) THEN d ELSE e
  BY PromptedIs
<1> HIDE DEF k
<1>3. /\ DOMAIN e = DOMAIN k
      /\ \A x \in DOMAIN k : e[x] = IF x \in SystemTexts(k) /\ IsText(k, x)
                                    THEN Text(RewritePromptText(KeptText(k[x].text, strip), hash)) ELSE k[x]
  BY PromptedIs DEF Retexted
<1> HIDE DEF e
<1>4. q \notin SystemTexts(k)
  BY <1>1, SystemTextsBelow DEF Grown
<1>5. Same(e, k, q)
  BY <1>3, <1>4 DEF Same
<1> QED BY <1>1, <1>2, <1>5 DEF Same

(* rewrite_messages_body before the prompt. *)
Turned(d, policy) == IF policy.mode = "aggressive" THEN Reminded(d) ELSE RewriteMessagesMetadata(d)

LEMMA TurnedIs ==
    ASSUME NEW d, Grown(d), NEW policy, policy.strip \in BOOLEAN, NEW fallback
    PROVE  /\ Grown(Turned(d, policy))
           /\ RewriteMessagesBody(d, policy, fallback) =
                CASE policy.mode = "aggressive" ->
                        RewriteSystemBody(Turned(d, policy), BillingHash(d, fallback), policy.strip)
                  [] policy.mode # "aggressive" /\ policy.strip -> StripBillingHeader(Turned(d, policy))
                  [] OTHER -> Turned(d, policy)
           /\ \A q \in Paths : ~IsPrefix(System, q) => Same(RewriteMessagesBody(d, policy, fallback), Turned(d, policy), q)
           /\ Alike(d, Turned(d, policy))
<1> DEFINE t == Turned(d, policy)
           e == RewriteMessagesBody(d, policy, fallback)
           m == RewriteMessagesMetadata(d)
<1>1. Grown(m) /\ Grown(Reminded(d))
  BY MetadataGrown, RemindedGrown
<1>2. Alike(d, m) /\ Alike(d, Reminded(d))
  <2>1. DOMAIN m = DOMAIN d /\ \A q \in DOMAIN d : q # UserId => m[q] = d[q]
    BY MetadataIs DEF UserId
  <2>2. \A q \in ContentTexts(m) : q \in Paths /\ q[1] = "messages"
    BY <1>1, ContentTextsBelow DEF Grown
  <2>3. DOMAIN Reminded(d) = DOMAIN m /\ \A q \in DOMAIN m : q \notin ContentTexts(m) => Reminded(d)[q] = m[q]
    BY DEF Reminded, MapTexts
  <2> HIDE DEF m
  <2>4. ASSUME NEW q \in Paths, IsPrefix(System, q) PROVE Same(d, m, q) /\ Same(d, Reminded(d), q)
    <3>1. q # UserId /\ q[1] = "system"
      BY <2>4, UserIdPath, SystemPath
    <3>2. q \notin ContentTexts(m)
      BY <2>2, <3>1
    <3> QED BY <2>1, <2>3, <3>1, <3>2 DEF Same
  <2> QED BY <2>4 DEF Alike
<1>3. Grown(t) /\ Alike(d, t)
  BY <1>1, <1>2 DEF Turned
<1>4. policy.mode = "aggressive" => e = RewriteSystemBody(t, BillingHash(d, fallback), policy.strip)
  BY AggressiveBody DEF Turned
<1>5. policy.mode # "aggressive" => e = IF policy.strip THEN StripBillingHeader(t) ELSE t
  BY DEF RewriteMessagesBody, Turned
<1> HIDE DEF e, t
<1>6. ASSUME NEW q \in Paths, ~IsPrefix(System, q) PROVE Same(e, t, q)
  <2>1. CASE policy.mode = "aggressive"
    BY <1>3, <1>4, <1>6, <2>1, SystemGrownOutside
  <2>2. CASE policy.mode # "aggressive"
    BY <1>3, <1>5, <1>6, <2>2, StripGrownOutside DEF Same
  <2> QED BY <2>1, <2>2
<1> QED BY <1>3, <1>4, <1>5, <1>6 DEF e, t

(* What is a message's text depends on the containers below "messages". *)
LEMMA ContentTextsShape ==
    ASSUME NEW d, Document(d), NEW e, Document(e),
           \A q \in Paths : IsPrefix(<<"messages">>, q) =>
                /\ q \in DOMAIN e <=> q \in DOMAIN d
                /\ IsObj(e, q) <=> IsObj(d, q)
                /\ IsArr(e, q) <=> IsArr(d, q)
    PROVE  ContentTexts(e) = ContentTexts(d)
<1> DEFINE top == <<"messages">>
<1>0. top \in Paths /\ IsPrefix(top, top)
  BY MessagesPath
<1> HIDE DEF top
<1>1. \A q \in Paths : IsPrefix(top, q) =>
        /\ q \in DOMAIN e <=> q \in DOMAIN d
        /\ IsObj(e, q) <=> IsObj(d, q)
        /\ IsArr(e, q) <=> IsArr(d, q)
  BY DEF top
<1>2. ASSUME NEW p \in Paths, IsPrefix(top, p) PROVE Elements(e, p) = Elements(d, p)
  <2>1. Below(e, p) = Below(d, p)
    BY <1>0, <1>1, <1>2, PrefixOfPrefix DEF Below, Document
  <2>2. Children(e, p) = Children(d, p)
    BY <2>1 DEF Children
  <2> QED BY <1>1, <1>2, <2>2 DEF Elements
<1>3. ASSUME NEW p \in Paths, IsPrefix(top, p) PROVE TextContainer(e, p) = TextContainer(d, p)
  <2>1. Elements(e, p) = Elements(d, p)
    BY <1>2, <1>3
  <2>2. ASSUME NEW c \in Elements(d, p) PROVE c \o <<"text">> \in Paths /\ IsPrefix(top, c \o <<"text">>)
    <3>1. c \o <<"text">> \in Paths /\ IsPrefix(p, c \o <<"text">>)
      BY ElementsBelow
    <3> QED BY <1>0, <1>3, <3>1, PrefixOfPrefix
  <2>3. {c \o <<"text">> : c \in Elements(e, p)} \cap DOMAIN e = {c \o <<"text">> : c \in Elements(d, p)} \cap DOMAIN d
    BY <1>1, <2>1, <2>2
  <2>4. {p \o <<"text">>} \cap DOMAIN e = {p \o <<"text">>} \cap DOMAIN d
    <3>1. p \o <<"text">> \in Paths /\ IsPrefix(p, p \o <<"text">>)
      BY TextPath, ConcatIs
    <3>2. IsPrefix(top, p \o <<"text">>)
      BY <1>0, <1>3, <3>1, PrefixOfPrefix
    <3> QED BY <1>1, <3>1, <3>2
  <2>5. (p \in DOMAIN e <=> p \in DOMAIN d) /\ (IsArr(e, p) <=> IsArr(d, p)) /\ (IsObj(e, p) <=> IsObj(d, p))
    BY <1>1, <1>3
  <2>6. ~(IsArr(d, p) /\ IsObj(d, p))
    BY EncIs DEF IsArr, IsObj
  <2>7. CASE p \notin DOMAIN d
    BY <2>5, <2>7 DEF TextContainer, IsArr, IsObj
  <2>8. CASE p \in DOMAIN d /\ IsArr(d, p)
    BY <2>3, <2>5, <2>6, <2>8 DEF TextContainer
  <2>9. CASE p \in DOMAIN d /\ IsObj(d, p)
    BY <2>4, <2>5, <2>6, <2>9 DEF TextContainer
  <2>10. CASE p \in DOMAIN d /\ ~IsArr(d, p) /\ ~IsObj(d, p)
    BY <2>5, <2>10 DEF TextContainer
  <2> QED BY <2>7, <2>8, <2>9, <2>10
<1>4. Elements(e, top) = Elements(d, top)
  BY <1>0, <1>2
<1>5. ASSUME NEW m \in Elements(d, top) PROVE m \o <<"content">> \in Paths /\ IsPrefix(top, m \o <<"content">>)
  <2>1. m \in Paths /\ IsPrefix(top, m)
    BY <1>0, ElementsBelow
  <2>2. "content" \in Keys
    BY DEF Keys, Words
  <2>3. <<"content">> \in Paths
    BY <2>2, Few
  <2>4. m \o <<"content">> \in Paths /\ IsPrefix(m, m \o <<"content">>)
    BY <2>1, <2>3, ConcatIs
  <2> QED BY <1>0, <2>1, <2>4, PrefixOfPrefix
<1>6. \A m \in Elements(d, top) : TextContainer(e, m \o <<"content">>) = TextContainer(d, m \o <<"content">>)
  BY <1>3, <1>5
<1> QED BY <1>4, <1>6 DEF ContentTexts, top

-----------------------------------------------------------------------------
(* The messages a second gateway turns are as the first one turned them.   *)

LEMMA TurnedShape ==
    ASSUME NEW d, Grown(d), NEW policy
    PROVE  LET t == Turned(d, policy)
               m == RewriteMessagesMetadata(d)
           IN  /\ DOMAIN t = DOMAIN d /\ DOMAIN m = DOMAIN d
               /\ \A q : (IsObj(t, q) <=> IsObj(d, q)) /\ (IsArr(t, q) <=> IsArr(d, q))
               /\ \A q \in DOMAIN d : q # UserId => m[q] = d[q]
               /\ \A q \in DOMAIN d : t[q] =
                    IF policy.mode = "aggressive" /\ q \in ContentTexts(d) /\ IsText(d, q)
                    THEN Text(RewriteSystemReminders(d[q].text)) ELSE m[q]
<1> DEFINE t == Turned(d, policy)
           m == RewriteMessagesMetadata(d)
           z == Reminded(d)
<1>1. DOMAIN m = DOMAIN d /\ \A q : (IsObj(m, q) <=> IsObj(d, q)) /\ (IsArr(m, q) <=> IsArr(d, q))
  BY MetadataShape
<1>2. \A q \in DOMAIN d : q # UserId => m[q] = d[q]
  BY MetadataIs DEF UserId
<1>3. Retexted(m, z)
  BY RemindedGrown
<1>4. /\ DOMAIN z = DOMAIN m
      /\ \A q \in DOMAIN m : z[q] = IF q \in ContentTexts(m) /\ IsText(m, q)
                                    THEN Text(RewriteSystemReminders(m[q].text)) ELSE m[q]
  BY DEF Reminded, MapTexts
<1>5. t = IF policy.mode = "aggressive" THEN z ELSE m
  BY DEF Turned
<1> HIDE DEF t, m, z
<1>6. ContentTexts(m) = ContentTexts(d)
  BY <1>1, ShapeTexts
<1>7. ASSUME NEW q \in ContentTexts(d) PROVE q \in DOMAIN d /\ m[q] = d[q] /\ (IsText(m, q) <=> IsText(d, q))
  <2>1. q \in DOMAIN d /\ q \in Paths /\ IsPrefix(<<"messages">>, q)
    BY <1>7, ContentTextsBelow DEF Grown
  <2>2. m[q] = d[q]
    BY <1>2, <2>1, UserIdPath
  <2> QED BY <1>1, <2>1, <2>2 DEF IsText
<1>8. \A q \in DOMAIN d : z[q] = IF q \in ContentTexts(d) /\ IsText(d, q)
                                 THEN Text(RewriteSystemReminders(d[q].text)) ELSE m[q]
  BY <1>1, <1>4, <1>6, <1>7
<1>9. \A q : (IsObj(z, q) <=> IsObj(d, q)) /\ (IsArr(z, q) <=> IsArr(d, q))
  BY <1>1, <1>3, RetextedShape
<1> QED BY <1>1, <1>2, <1>4, <1>5, <1>8, <1>9 DEF t, m

(* e is d before or after it is turned, path by path.                      *)
Turning(e, d, policy) ==
    \A q \in Paths : ~IsPrefix(System, q) => Same(e, d, q) \/ Same(e, Turned(d, policy), q)
SameShape(e, d, q) ==
    /\ q \in DOMAIN e <=> q \in DOMAIN d
    /\ IsObj(e, q) <=> IsObj(d, q)
    /\ IsArr(e, q) <=> IsArr(d, q)
DecentMessages(d) ==
    /\ EncodesObj(d, UserId, "json") => Document(d[UserId].doc)
    /\ \A q \in ContentTexts(d) : IsText(d, q) => \A i \in DOMAIN d[q].text : Decent(d[q].text[i])

LEMMA TurningShape ==
    ASSUME NEW d, Grown(d), NEW e, Grown(e), NEW policy, Turning(e, d, policy)
    PROVE  /\ \A q \in Paths : ~IsPrefix(System, q) => SameShape(e, d, q)
           /\ ContentTexts(e) = ContentTexts(d)
<1> DEFINE t == Turned(d, policy)
<1>1. DOMAIN t = DOMAIN d /\ \A q : (IsObj(t, q) <=> IsObj(d, q)) /\ (IsArr(t, q) <=> IsArr(d, q))
  BY TurnedShape
<1>2. \A q \in Paths : ~IsPrefix(System, q) => Same(e, d, q) \/ Same(e, t, q)
  BY DEF Turning
<1> HIDE DEF t
<1>3. \A q \in Paths : ~IsPrefix(System, q) => SameShape(e, d, q)
  BY <1>1, <1>2 DEF Same, SameShape, IsObj, IsArr
<1>4. \A q \in Paths : IsPrefix(<<"messages">>, q) => ~IsPrefix(System, q)
  BY BelowMessages
<1>5. ContentTexts(e) = ContentTexts(d)
  BY <1>3, <1>4, ContentTextsShape DEF SameShape, Grown
<1> QED BY <1>3, <1>5

LEMMA TurnedTwice ==
    ASSUME HomesAreRecognized, NEW d, Grown(d), DecentMessages(d), NEW e, Grown(e), NEW policy,
           Turning(e, d, policy), NEW q \in Paths, ~IsPrefix(System, q)
    PROVE  Same(Turned(e, policy), Turned(d, policy), q)
<1> DEFINE t(x) == Turned(x, policy)
           m(x) == RewriteMessagesMetadata(x)
           new(x) == policy.mode = "aggressive" /\ q \in ContentTexts(x) /\ IsText(x, q)
<1>1. \A x : Grown(x) =>
        /\ DOMAIN t(x) = DOMAIN x /\ DOMAIN m(x) = DOMAIN x
        /\ q \in DOMAIN x /\ q # UserId => m(x)[q] = x[q]
        /\ q \in DOMAIN x => t(x)[q] = IF new(x) THEN Text(RewriteSystemReminders(x[q].text)) ELSE m(x)[q]
  BY TurnedShape
<1>2. (q \in DOMAIN e <=> q \in DOMAIN d) /\ ContentTexts(e) = ContentTexts(d)
  BY TurningShape DEF SameShape
<1>3. Same(e, d, q) \/ Same(e, t(d), q)
  BY DEF Turning
<1>4. q \in ContentTexts(d) => q # UserId
  BY ContentTextsBelow, UserIdPath DEF Grown
<1>5. CASE q \notin DOMAIN d
  BY <1>1, <1>2, <1>5 DEF Same
<1>6. CASE q \in DOMAIN d /\ q = UserId
  <2>1. ~new(d) /\ ~new(e)
    BY <1>2, <1>4, <1>6
  <2> HIDE DEF t, new
  <2>2. t(d)[q] = m(d)[q] /\ t(e)[q] = m(e)[q] /\ q \in DOMAIN e
    BY <1>1, <1>2, <1>6, <2>1
  <2>3. Same(e, d, UserId) \/ Same(e, m(d), UserId)
    BY <1>1, <1>3, <1>6, <2>2 DEF Same
  <2>4. IsObj(e, <<"metadata">>) <=> IsObj(d, <<"metadata">>)
    BY UserIdPath, TurningShape DEF SameShape
  <2>5. Same(m(e), m(d), UserId)
    BY <2>3, <2>4, UserIdTwice DEF DecentMessages
  <2> QED BY <1>1, <1>6, <2>2, <2>5 DEF Same, t
<1>7. CASE q \in DOMAIN d /\ q # UserId
  <2> HIDE DEF t, m
  <2>1. q \in DOMAIN e /\ m(d)[q] = d[q] /\ m(e)[q] = e[q]
    BY <1>1, <1>2, <1>7
  <2>2. CASE policy.mode = "aggressive" /\ q \in ContentTexts(d) /\ IsText(d, q)
    <3> DEFINE text == d[q].text
               r == RewriteSystemReminders(text)
    <3>1. t(d)[q] = Text(r) /\ new(d)
      BY <1>1, <1>7, <2>2
    <3>2. \A i \in DOMAIN text : Decent(text[i])
      BY <2>2 DEF DecentMessages
    <3> HIDE DEF text, new
    <3>3. RewriteSystemReminders(r) = r
      BY <3>2, RemindersTwice
    <3>4. CASE e[q] = d[q]
      <4>1. new(e) /\ e[q].text = text
        BY <1>2, <2>1, <2>2, <3>4 DEF new, IsText, text
      <4>2. t(e)[q] = Text(r)
        BY <1>1, <2>1, <4>1
      <4> QED BY <1>1, <1>7, <2>1, <3>1, <4>2 DEF Same, t
    <3>5. CASE e[q] # d[q]
      <4>1. e[q] = Text(r)
        BY <1>3, <2>1, <3>1, <3>5 DEF Same
      <4>2. e[q].text = r /\ "text" \in DOMAIN e[q]
        BY <4>1, TextIs
      <4>3. new(e)
        BY <1>2, <2>1, <2>2, <4>2 DEF new, IsText
      <4>4. t(e)[q] = Text(r)
        BY <1>1, <2>1, <3>3, <4>2, <4>3
      <4> QED BY <1>1, <1>7, <2>1, <3>1, <4>4 DEF Same, t
    <3> QED BY <3>4, <3>5
  <2>3. CASE ~(policy.mode = "aggressive" /\ q \in ContentTexts(d) /\ IsText(d, q))
    <3>1. t(d)[q] = d[q]
      BY <1>1, <1>7, <2>1, <2>3
    <3>2. e[q] = d[q]
      BY <1>3, <2>1, <3>1 DEF Same
    <3>3. t(e)[q] = e[q]
      BY <1>1, <1>2, <1>7, <2>1, <2>3, <3>2 DEF IsText
    <3> QED BY <1>1, <1>7, <2>1, <3>1, <3>2, <3>3 DEF Same, t
  <2> QED BY <2>2, <2>3
<1> QED BY <1>5, <1>6, <1>7

-----------------------------------------------------------------------------
(* A body stays a function of its paths.                                   *)
LEMMA MessagesBody ==
    ASSUME NEW d, Grown(d), NEW policy, policy.strip \in BOOLEAN, NEW fallback
    PROVE  LET e == RewriteMessagesBody(d, policy, fallback)
           IN  /\ Grown(e) /\ (IsFcn(d) => IsFcn(e))
               /\ System \in DOMAIN e <=> System \in DOMAIN d
<1> DEFINE t == Turned(d, policy)
           e == RewriteMessagesBody(d, policy, fallback)
           hash == BillingHash(d, fallback)
           strip == policy.strip
           k == Unbilled(t, strip)
           w == IF IsObj(t, System) THEN t ELSE Prompted(k, hash, strip)
<1>1. /\ Grown(t) /\ Alike(d, t)
      /\ e = CASE policy.mode = "aggressive" -> RewriteSystemBody(t, hash, strip)
               [] policy.mode # "aggressive" /\ strip -> StripBillingHeader(t)
               [] OTHER -> t
  BY TurnedIs
<1>2. IsFcn(d) => IsFcn(t)
  BY IdentifiedIs DEF Turned, Reminded, MapTexts, IsFcn
<1> HIDE DEF t, hash
<1>3. RewriteSystemBody(t, hash, strip) = w
  BY PromptedIs
<1>4. IsFcn(StripBillingHeader(t)) /\ IsFcn(Prompted(k, hash, strip))
  <2>1. IsFcn(Stripped(t)) /\ IsFcn(Prompted(k, hash, strip))
    BY DEF Stripped, Prompted, MapTexts, IsFcn
  <2>2. IsFcn(RetainItems(Stripped(t)))
    BY MadeFcn DEF RetainItems
  <2> QED BY <2>1, <2>2, StrippedIs
<1>5. Grown(StripBillingHeader(t)) /\ (System \in DOMAIN StripBillingHeader(t) <=> System \in DOMAIN t)
  BY <1>1, StripGrown, StripMoves
<1>6. Grown(k) /\ (System \in DOMAIN k <=> System \in DOMAIN t)
  BY <1>1, <1>5 DEF Unbilled
<1> HIDE DEF k
<1>7. Retexted(k, Prompted(k, hash, strip))
  BY PromptedIs
<1>8. Grown(Prompted(k, hash, strip)) /\ DOMAIN Prompted(k, hash, strip) = DOMAIN k
  BY <1>6, <1>7, RetextedGrown DEF Retexted
<1>9. System \in DOMAIN t <=> System \in DOMAIN d
  BY <1>1, SystemPath DEF Alike, Same
<1> HIDE DEF e
<1>10. CASE policy.mode = "aggressive"
  BY <1>1, <1>2, <1>3, <1>4, <1>6, <1>8, <1>9, <1>10 DEF e
<1>11. CASE policy.mode # "aggressive" /\ strip
  BY <1>1, <1>2, <1>4, <1>5, <1>9, <1>11 DEF e
<1>12. CASE policy.mode # "aggressive" /\ ~strip
  BY <1>1, <1>2, <1>9, <1>12 DEF e
<1> QED BY <1>10, <1>11, <1>12, PolicyIs

LEMMA PreserveFieldsFcn ==
    ASSUME NEW original, NEW d, IsFcn(d), NEW paths \in Seq(Paths)
    PROVE  IsFcn(PreserveFields(original, d, paths))
<1>1. PICK g : FieldByField(original, d, paths, g)
  BY PreservedInTurn
<1> DEFINE S == {k \in Nat : IsFcn(g[k])}
<1>2. 0 \in S
  BY <1>1 DEF FieldByField, Same
<1>3. ASSUME NEW k \in 0 .. Len(paths) - 1, k \in S PROVE k + 1 \in S
  BY <1>1, <1>3, MadeFcn DEF FieldByField, PreserveField
<1> HIDE DEF S
<1>4. Len(paths) \in S
  BY <1>1, <1>2, <1>3, InTurn DEF FieldByField
<1> QED BY <1>1, <1>4 DEF FieldByField, S

LEMMA AboveSystem ==
    ASSUME NEW p \in Paths, p # << >>
    PROVE  /\ IsPrefix(p, System) => p = System
           /\ p = System \/ ~IsPrefix(System, p) => ~IsPrefix(System, Front(p))
<1>1. /\ System \in Paths /\ << >> \in Paths /\ << >> \o <<"system">> = System /\ Front(System) = << >>
      /\ "system" \in Keys /\ ~IsPrefix(System, << >>)
  <2>1. "system" \in Keys
    BY DEF Keys, Words
  <2> QED BY <2>1, SystemPath, FirstKey DEF System
<1>2. ASSUME IsPrefix(p, System) PROVE p = System
  <2>1. p = << >> \o <<"system">> \/ IsPrefix(p, << >>)
    BY <1>1, <1>2, PrefixOfChild
  <2> QED BY <1>1, <2>1, PrefixOrder
<1>3. ASSUME IsPrefix(System, Front(p)) PROVE IsPrefix(System, p)
  BY <1>1, <1>3, FrontIs, PrefixOfPrefix
<1> QED BY <1>1, <1>2, <1>3

(* What the first gateway put back, the second one puts back again.        *)
LEMMA PreservedAgain ==
    ASSUME RewriteInv, ~SystemIndexed, Grown(out), NEW s, Grown(s),
           System \in DOMAIN s <=> System \in DOMAIN out,
           \A q \in Paths : ~IsPrefix(System, q) => SameShape(s, out, q),
           \A q \in Paths : ~PreservedByName(q) => Same(s, out, q),
           NEW q \in Paths
    PROVE  Same(PreserveFields(out, s, Policy.preserve), out, q)
<1> DEFINE paths == Policy.preserve
           n == PreserveFields(out, s, paths)
<1>1. /\ paths \in Seq(Paths) /\ DOMAIN paths = 1 .. Len(paths) /\ Document(out)
      /\ \A i \in DOMAIN paths : paths[i] # << >> /\ paths[i] \in Paths
  BY PreservePaths DEF Grown
<1>2. CASE ~PreservedByName(q)
  <2>1. Same(n, s, q)
    BY <1>1, <1>2, PreserveFieldsOutside DEF PreservedByName
  <2> QED BY <1>2, <2>1 DEF Same
<1>3. CASE PreservedByName(q)
  <2>1. PICK i \in DOMAIN paths : IsPrefix(paths[i], q)
    BY <1>3 DEF PreservedByName
  <2> DEFINE p == paths[i]
  <2>2. p \in Paths /\ p # << >> /\ i \in 1 .. Len(paths) /\ IsPrefix(p, q)
    BY <1>1, <2>1
  <2>3. p = System \/ (~IsPrefix(System, p) /\ ~IsPrefix(System, q))
    <3>1. ~IsPrefix(System, p) \/ p = System
      BY <2>1 DEF SystemIndexed, IsStrictPrefix
    <3>2. IsPrefix(System, q) => IsPrefix(System, p)
      BY <2>2, SystemPath, PrefixesOfOne, AboveSystem
    <3> QED BY <3>1, <3>2
  <2> HIDE DEF p, n
  <2>4. p \in DOMAIN s <=> p \in DOMAIN out
    BY <2>2, <2>3 DEF SameShape
  <2>5. CASE p \in DOMAIN out
    <3>1. Front(p) \in Paths /\ ~IsPrefix(System, Front(p))
      BY <2>2, <2>3, AboveSystem, FrontIs
    <3>2. IsPrefix(Front(p), p) /\ Front(p) # p
      <4>1. Len(p) \in Nat /\ Len(Front(p)) = Len(p) - 1
        BY <2>2, FrontIs, LenProperties DEF Paths
      <4>2. Len(Front(p)) # Len(p)
        BY <4>1
      <4> QED BY <2>2, <4>2, FrontIs
    <3>3. Front(p) \in DOMAIN out /\ (IsObj(out, Front(p)) \/ IsArr(out, Front(p)))
      BY <2>5, <3>1, <3>2, GrownAbove
    <3>4. Same(s, out, Front(p))
      BY <3>1, <3>3 DEF SameShape, Same, IsObj, IsArr
    <3> QED BY <1>1, <2>2, <2>4, <2>5, <3>4, PreservedIsOriginal DEF p, n
  <2>6. CASE p \notin DOMAIN out
    <3>1. q \notin DOMAIN out /\ q \notin DOMAIN s
      BY <2>2, <2>4, <2>6, GrownAbove
    <3>2. Same(n, s, q) \/ Same(n, out, q)
      BY <1>1, PreserveFieldsSame DEF n
    <3> QED BY <3>1, <3>2 DEF Same, n
  <2> QED BY <2>5, <2>6
<1> QED BY <1>2, <1>3

-----------------------------------------------------------------------------
(* Lines as a parser gives them, in homes that are recognised.             *)
LEMMA RequestDecent ==
    ASSUME RewriteInv, HomesAreRecognized
    PROVE  Decently(request.body) /\ DecentMessages(request.body) /\ IsFcn(request.body)
<1> DEFINE body == request.body
<1>1. Lined(body) /\ Document(body)
  BY RequestLined, PolicyIs
<1>2. ASSUME NEW q \in DOMAIN body, IsText(body, q), NEW i \in DOMAIN body[q].text PROVE Decent(body[q].text[i])
  <2>1. body[q].text[i] \in Range(body[q].text)
    BY DEF Range
  <2> QED BY <1>2, <2>1, RequestPlausible DEF HomesAreRecognized, Decent
<1>3. Decently(body)
  BY <1>1, <1>2 DEF Decently, PromptTexts, IsText, Lined
<1>4. \A q \in ContentTexts(body) : IsText(body, q) => \A i \in DOMAIN body[q].text : Decent(body[q].text[i])
  BY <1>2 DEF IsText
<1>5. ASSUME EncodesObj(body, UserId, "json") PROVE Document(body[UserId].doc)
  <2>1. UserId \in DOMAIN body /\ "coding" \in DOMAIN body[UserId]
    BY <1>5 DEF EncodesObj, Encodes
  <2>2. DOMAIN body[UserId].doc \subseteq Seq(STRING)
    BY <2>1, ClientRequestsAssumption DEF RewriteInv
  <2> QED BY <2>2, PathsAre DEF Document
<1>6. IsFcn(body)
  BY ClientRequestsAssumption DEF RewriteInv, IsFcn
<1> QED BY <1>3, <1>4, <1>5, <1>6 DEF DecentMessages

LEMMA TurningOut ==
    ASSUME RewriteInv, NEW r, NEW drawn, RewrittenBody(r, drawn), Is("messages")
    PROVE  /\ r = RewriteMessagesBody(request.body, Policy, drawn.hash) /\ Policy.strip \in BOOLEAN
           /\ Grown(request.body) /\ Grown(out) /\ Turning(out, request.body, Policy)
           /\ \A q \in Paths : ~IsPrefix(System, q) => Same(r, Turned(request.body, Policy), q)
<1>1. /\ r = RewriteMessagesBody(request.body, Policy, drawn.hash) /\ Policy.strip \in BOOLEAN
      /\ Grown(request.body) /\ Grown(out)
      /\ \A q \in Paths : Same(out, r, q) \/ Same(out, request.body, q)
  BY PolicyIs, RouteIs DEF RewrittenBody
<1>2. \A q \in Paths : ~IsPrefix(System, q) => Same(r, Turned(request.body, Policy), q)
  BY <1>1, TurnedIs
<1> QED BY <1>1, <1>2 DEF Turning, Same

LEMMA RemindersSize ==
    ASSUME NEW text, DOMAIN text = {} => text = << >>
    PROVE  LET new == RewriteSystemReminders(text)
           IN  (DOMAIN new = {} => new = << >>) /\ (new = NoText <=> text = NoText)
<1> DEFINE new == RewriteSystemReminders(text)
<1>1. DOMAIN new = DOMAIN text /\ new = [i \in DOMAIN text |-> IF text[i].reminder THEN RewriteLine(text[i], NoHash) ELSE text[i]]
  BY DEF RewriteSystemReminders
<1>2. DOMAIN << >> = {}
  OBVIOUS
<1>3. DOMAIN new = {} => new = << >>
  BY <1>1
<1> HIDE DEF new
<1> QED BY <1>1, <1>2, <1>3 DEF NoText, new

LEMMA TurnedTexts ==
    ASSUME NEW d, Grown(d), NEW policy, policy.mode = "aggressive"
    PROVE  LET t == Turned(d, policy)
           IN  /\ DOMAIN t = DOMAIN d /\ \A q : IsArr(t, q) <=> IsArr(d, q)
               /\ \A q \in DOMAIN d : q # UserId =>
                    t[q] = IF q \in ContentTexts(d) /\ IsText(d, q) THEN Text(RewriteSystemReminders(d[q].text)) ELSE d[q]
<1> DEFINE t == Turned(d, policy)
           m == RewriteMessagesMetadata(d)
<1>1. /\ DOMAIN t = DOMAIN d /\ \A q : IsArr(t, q) <=> IsArr(d, q)
      /\ \A q \in DOMAIN d : q # UserId => m[q] = d[q]
      /\ \A q \in DOMAIN d : t[q] =
            IF q \in ContentTexts(d) /\ IsText(d, q) THEN Text(RewriteSystemReminders(d[q].text)) ELSE m[q]
  BY TurnedShape
<1> HIDE DEF t, m
<1> QED BY <1>1 DEF t

(* Turning a message again makes it neither empty nor the first.           *)
LEMMA VoicedAgain ==
    ASSUME RewriteInv, NEW r, NEW drawn, RewrittenBody(r, drawn), Is("messages"), Policy.mode = "aggressive"
    PROVE  ExtractFirstUserMessageText(Reminded(out)) = NoText <=> ExtractFirstUserMessageText(out) = NoText
<1> DEFINE body == request.body
           t == Turned(out, Policy)
           u == Turned(body, Policy)
<1>1. Grown(body) /\ Grown(out) /\ Document(out) /\ Turning(out, body, Policy) /\ Lined(body)
  BY TurningOut, RequestLined DEF Grown
<1>2. t = Reminded(out)
  BY DEF Turned
<1>3. ContentTexts(out) = ContentTexts(body)
  BY <1>1, TurningShape
<1>4. /\ DOMAIN t = DOMAIN out
      /\ \A q : IsArr(t, q) <=> IsArr(out, q)
      /\ \A q \in DOMAIN out : q # UserId =>
            t[q] = IF q \in ContentTexts(out) /\ IsText(out, q) THEN Text(RewriteSystemReminders(out[q].text)) ELSE out[q]
  BY <1>1, TurnedTexts DEF t
<1>5. \A q \in DOMAIN body : q # UserId =>
            u[q] = IF q \in ContentTexts(body) /\ IsText(body, q) THEN Text(RewriteSystemReminders(body[q].text)) ELSE body[q]
  BY <1>1, TurnedTexts
<1>6. \A q \in Paths : ~IsPrefix(System, q) => Same(out, body, q) \/ Same(out, u, q)
  BY <1>1 DEF Turning
<1>7. \A q \in Paths : IsPrefix(<<"messages">>, q) => ~IsPrefix(System, q) /\ q # UserId
  BY BelowMessages
<1> HIDE DEF t, u, body
<1>8. ASSUME NEW q \in ContentTexts(out), IsText(out, q)
      PROVE  RewriteSystemReminders(out[q].text) = NoText <=> out[q].text = NoText
  <2>1. q \in Paths /\ ~IsPrefix(System, q) /\ q # UserId /\ q \in DOMAIN body /\ q \in DOMAIN out
    BY <1>1, <1>3, <1>7, <1>8, ContentTextsBelow DEF Grown
  <2>2. out[q] = body[q] \/ (IsText(body, q) /\ out[q] = Text(RewriteSystemReminders(body[q].text)))
    BY <1>5, <1>6, <2>1 DEF Same
  <2>3. IsText(body, q)
    BY <1>8, <2>1, <2>2 DEF IsText
  <2>4. DOMAIN body[q].text = {} => body[q].text = << >>
    <3>1. body[q].text \in Seq(Range(body[q].text))
      BY <1>1, <2>3 DEF IsText, Lined, IsList
    <3> HIDE DEF body
    <3>2. Len(body[q].text) \in Nat /\ DOMAIN body[q].text = 1 .. Len(body[q].text)
      BY <3>1, LenProperties
    <3>3. Len(body[q].text) # 0 => 1 \in DOMAIN body[q].text
      BY <3>2
    <3> QED BY <3>1, <3>3, EmptySeq
  <2>5. DOMAIN out[q].text = {} => out[q].text = << >>
    <3>1. CASE out[q] = body[q]
      BY <2>4, <3>1
    <3>2. CASE out[q] = Text(RewriteSystemReminders(body[q].text))
      <4>1. out[q].text = RewriteSystemReminders(body[q].text)
        BY <3>2, TextIs
      <4>2. LET new == RewriteSystemReminders(body[q].text)
            IN  DOMAIN new = {} => new = << >>
        BY <2>4, RemindersSize
      <4> QED BY <4>1, <4>2
    <3> QED BY <2>2, <3>1, <3>2
  <2> QED BY <2>5, RemindersSize
<1>9. Voiced(out, t)
  <2>1. ASSUME NEW q \in Paths, IsPrefix(<<"messages">>, q), q \in DOMAIN out
        PROVE  (IsText(out, q) <=> IsText(t, q)) /\ \A s : out[q] = Str(s) <=> t[q] = Str(s)
    <3>1. \A s : "text" \notin DOMAIN Str(s)
      BY DEF Str
    <3> QED BY <1>4, <1>7, <2>1, <3>1, TextIs DEF IsText
  <2> QED BY <1>4, <2>1 DEF Voiced, IsText
<1>10. \A q \in Paths : IsPrefix(<<"messages">>, q) /\ IsText(out, q) => (t[q].text = NoText <=> out[q].text = NoText)
  BY <1>4, <1>7, <1>8, TextIs DEF IsText
<1> QED BY <1>2, <1>9, <1>10, ExtractVoiced

-----------------------------------------------------------------------------
(* Both gateways take the hash from the same message, or announce none.    *)
LEMMA HashAgain ==
    ASSUME RewriteInv, HomesAreRecognized, NEW r, NEW drawn, RewrittenBody(r, drawn), Is("messages"),
           Policy.mode = "aggressive", ~HashFellBack, \A q \in Paths : IsPrefix(System, q) => ~PreservedByName(q),
           NEW fallback
    PROVE  BillingHash(request.body, drawn.hash) = BillingHash(out, fallback) \/ ~Announcing(Turned(out, Policy))
<1> DEFINE body == request.body
           First(d) == ExtractFirstUserMessageText(Reminded(d))
<1>1. Grown(body) /\ Grown(out) /\ Turning(out, body, Policy) /\ Policy.strip \in BOOLEAN /\ Document(out)
  BY TurningOut DEF Grown
<1>2. Turned(out, Policy) = Reminded(out) /\ Turned(body, Policy) = Reminded(body)
  BY DEF Turned
<1>3. \A q \in Paths : ~IsPrefix(System, q) => Same(Reminded(out), Reminded(body), q)
  BY <1>1, <1>2, TurnedTwice, RequestDecent
<1>4. SameMessages(Reminded(out), Reminded(body))
  BY <1>3, BelowMessages DEF SameMessages
<1>5. First(out) = First(body)
  BY <1>4, ExtractSame
<1>6. CASE First(out) # NoText
  BY <1>5, <1>6 DEF BillingHash
<1>7. CASE First(out) = NoText
  <2>1. ExtractFirstUserMessageText(out) = NoText
    BY <1>7, VoicedAgain
  <2>2. \A l \in SystemLines(out) : "cc" \notin DOMAIN l
    BY <2>1 DEF HashFellBack
  <2>3. \A q \in PromptTexts(out) : ~PreservedByName(q)
    BY <1>1, SystemTextsBelow DEF PromptTexts
  <2>4. ~Announcing(out)
    BY <2>2, <2>3, SystemLinesAre DEF Announcing
  <2>5. Grown(Turned(out, Policy)) /\ Alike(out, Turned(out, Policy))
    BY <1>1, TurnedIs
  <2> QED BY <1>1, <2>4, <2>5, AlikeTexts DEF Announcing, Grown
<1> QED BY <1>6, <1>7

(* The prompt is rewritten into itself.                                    *)
LEMMA PromptAgain ==
    ASSUME RewriteInv, HomesAreRecognized, NEW r, NEW drawn, RewrittenBody(r, drawn), Is("messages"),
           ~SystemIndexed, ~HashFellBack, PromptIsTidy, ~PreservedByName(System), NEW fallback
    PROVE  Alike(RewriteMessagesBody(out, Policy, fallback), out)
<1> DEFINE body == request.body
           u == Turned(body, Policy)
           v == Turned(out, Policy)
           s == RewriteMessagesBody(out, Policy, fallback)
           hash == BillingHash(body, drawn.hash)
           other == BillingHash(out, fallback)
           strip == Policy.strip
<1>1. /\ Grown(body) /\ Grown(out) /\ strip \in BOOLEAN /\ r = RewriteMessagesBody(body, Policy, drawn.hash)
      /\ Alike(r, out) /\ \A q \in Paths : IsPrefix(System, q) => ~PreservedByName(q)
  BY TurningOut, OutPrompts
<1>2. /\ Grown(u) /\ Alike(body, u)
      /\ r = CASE Policy.mode = "aggressive" -> RewriteSystemBody(u, hash, strip)
               [] Policy.mode # "aggressive" /\ strip -> StripBillingHeader(u)
               [] OTHER -> u
  BY <1>1, TurnedIs
<1>3. /\ Grown(v) /\ Alike(out, v)
      /\ s = CASE Policy.mode = "aggressive" -> RewriteSystemBody(v, other, strip)
               [] Policy.mode # "aggressive" /\ strip -> StripBillingHeader(v)
               [] OTHER -> v
  BY <1>1, TurnedIs
<1>4. Policy.mode = "aggressive" => hash = other \/ ~Announcing(v)
  BY <1>1, HashAgain
<1>5. Decently(u)
  <2>1. Decently(body)
    BY RequestDecent
  <2> HIDE DEF u, body
  <2>2. PromptTexts(u) = PromptTexts(body) /\ \A q \in PromptTexts(body) : u[q] = body[q]
    BY <1>1, <1>2, AlikeTexts DEF Grown
  <2> QED BY <2>1, <2>2 DEF Decently
<1>8. strip => Tidy(v)
  <2> HIDE DEF v
  <2>1. PromptTexts(v) = PromptTexts(out) /\ \A q \in PromptTexts(out) : v[q] = out[q]
    BY <1>1, <1>3, AlikeTexts DEF Grown
  <2> QED BY <2>1 DEF PromptIsTidy, Tidy, PromptTexts
<1> HIDE DEF u, v, s, hash, other
<1>6. Alike(r, v)
  BY <1>1, <1>3, AlikeOrder
<1>7. Alike(s, v)
  <2>1. CASE Policy.mode = "aggressive"
    BY <1>1, <1>2, <1>3, <1>4, <1>5, <1>6, <1>8, <2>1, SystemTwice
  <2>2. CASE Policy.mode # "aggressive" /\ strip
    BY <1>2, <1>3, <1>5, <1>6, <1>8, <2>2, StripTwice DEF Decently, ListTexts
  <2>3. CASE Policy.mode # "aggressive" /\ ~strip
    BY <1>3, <2>3 DEF Alike, Same
  <2> QED BY <2>1, <2>2, <2>3
<1> QED BY <1>3, <1>7, AlikeOrder DEF s

LEMMA RewrittenAgain ==
    ASSUME RewriteInv, Forwarded, Policy.mode # "passthrough", HomesAreRecognized, Is("messages"),
           ~SystemIndexed, ~HashFellBack, PromptIsTidy, NEW again
    PROVE  RewriteRequestBody(out, request.path, option, again) = out
<1>1. PICK drawn, r : RewrittenBody(r, drawn)
  BY ForwardedIs
<1> DEFINE body == request.body
           paths == Policy.preserve
           u == Turned(body, Policy)
           v == Turned(out, Policy)
           s == RewriteMessagesBody(out, Policy, again.hash)
           n == PreserveFields(out, s, paths)
<1>2. /\ r = RewriteMessagesBody(body, Policy, drawn.hash) /\ Policy.strip \in BOOLEAN
      /\ Grown(body) /\ Grown(out) /\ Turning(out, body, Policy)
      /\ \A q \in Paths : ~IsPrefix(System, q) => Same(r, u, q)
  BY <1>1, TurningOut
<1>3. /\ \A q \in Paths : ~PreservedByName(q) => Same(out, r, q)
      /\ \A p, q \in Paths : IsPrefix(p, q) /\ ~PreservedByName(q) => ~PreservedByName(p)
      /\ out = PreserveFields(body, r, paths) /\ paths \in Seq(Paths)
  BY <1>1, PolicyIs DEF RewrittenBody
<1>4. \A q \in Paths : ~IsPrefix(System, q) => Same(s, v, q)
  BY <1>2, TurnedIs
<1>5. \A q \in Paths : ~IsPrefix(System, q) => Same(v, u, q)
  BY <1>2, TurnedTwice, RequestDecent
<1>6. DOMAIN v = DOMAIN out /\ \A q : (IsObj(v, q) <=> IsObj(out, q)) /\ (IsArr(v, q) <=> IsArr(out, q))
  BY <1>2, TurnedShape
<1>7. /\ Grown(s) /\ (IsFcn(out) => IsFcn(s)) /\ (System \in DOMAIN s <=> System \in DOMAIN out)
      /\ IsFcn(body) => IsFcn(r)
  BY <1>2, MessagesBody
<1>8. RewriteRequestBody(out, request.path, option, again) = n
  <2>1. out # << >>
    BY <1>2 DEF Grown
  <2> QED BY <2>1, RouteIs DEF RewriteRequestBody, Policy
<1>9. ~PreservedByName(System) => Alike(s, out)
  BY <1>1, PromptAgain
<1> HIDE DEF u, v, s, n, paths
<1>10. ASSUME NEW q \in Paths, ~IsPrefix(System, q) PROVE SameShape(s, out, q)
  BY <1>4, <1>6, <1>10 DEF Same, SameShape, IsObj, IsArr
<1>11. ASSUME NEW q \in Paths, ~PreservedByName(q) PROVE Same(s, out, q)
  <2>1. CASE IsPrefix(System, q)
    <3>1. ~PreservedByName(System)
      BY <1>3, <1>11, <2>1, SystemPath
    <3> QED BY <1>9, <2>1, <3>1 DEF Alike
  <2>2. CASE ~IsPrefix(System, q)
    BY <1>2, <1>3, <1>4, <1>5, <1>11, <2>2 DEF Same
  <2> QED BY <2>1, <2>2
<1>12. \A q \in Paths : Same(n, out, q)
  BY <1>2, <1>7, <1>10, <1>11, PreservedAgain DEF n, paths
<1>13. IsFcn(out) /\ IsFcn(n)
  BY <1>3, <1>7, RequestDecent, PreserveFieldsFcn DEF n
<1>14. Document(out) /\ Document(n)
  BY <1>2, <1>3, <1>7, PreserveFieldsDocument DEF Grown, n
<1> QED BY <1>8, <1>12, <1>13, <1>14, DocumentsEqual

LEMMA RelayStep ==
    ASSUME RewriteInv, [RewriteNext]_rewriteVars, stage = "forwarded", Is("messages"), HomesAreRecognized,
           ~SystemIndexed, ~HashFellBack, PromptIsTidy
    PROVE  out' = out
<1>1. CASE UNCHANGED rewriteVars
  BY <1>1 DEF rewriteVars
<1>2. CASE RewriteNext
  <2>1. PICK again \in Draws(out) : out' = RewriteRequestBody(out, request.path, option, again)
    BY <1>2 DEF RewriteNext, Forward, Relay, RewriteOnce
  <2>2. CASE out = << >> \/ Policy.mode = "passthrough"
    BY <2>1, <2>2 DEF RewriteRequestBody, Policy
  <2>3. CASE out # << >> /\ Policy.mode # "passthrough"
    <3>1. request.body # << >>
      BY <2>3 DEF RewriteInv, Once, RewriteRequestBody
    <3> QED BY <2>1, <2>3, <3>1, RewrittenAgain DEF Forwarded
  <2> QED BY <2>2, <2>3
<1> QED BY <1>1, <1>2

(* A second gateway of the same configuration leaves a message exactly as  *)
(* the first one sent it: identities, reminders, prompt, the items that    *)
(* were stripped and the fields put back by preserve_fields; where billing *)
(* is stripped, if the texts it sent have no line end that another         *)
(* stripping would drop (server.rs strip_billing_header_block).            *)
THEOREM RelayChangesNothingHolds == RewriteSpec => RelayChangesNothing
<1>1. ASSUME RewriteInv, [RewriteNext]_rewriteVars
      PROVE  [stage = "forwarded" /\ Is("messages") /\ HomesAreRecognized /\ ~SystemIndexed /\ ~HashFellBack
              /\ PromptIsTidy
                => out' = out]_rewriteVars
  BY <1>1, RelayStep
<1> QED BY <1>1, RewriteInvHolds, PTL DEF RewriteSpec, RelayChangesNothing
=============================================================================
