------------------------------ MODULE NamesProofs ------------------------------
(***************************************************************************)
(* Proofs about Names: for names of every length, and every limit that     *)
(* leaves room for the digest, the name of a Knative service is a DNS      *)
(* label that ends in the digest, and so is the id of a project of a short *)
(* name.  The invariant follows the builder through the loop: it never     *)
(* begins with a hyphen, and it is no longer than what was read.           *)
(***************************************************************************)
EXTENDS Names, SequenceTheorems, TLAPS

Label == Letters \cup {Hyphen}

\* What holds of the builder before a suffix is added.
Building ==
    /\ step \in {"typing", "sanitizing"} => Len(built) <= read
    /\ step = "typing" => built = <<>>
    /\ step \in {"sanitized", "cut"} => Len(built) <= Len(name)
    /\ step # "done" /\ built # <<>> => built[1] # Hyphen
    /\ step = "sanitized" => ~EndsInHyphen
    /\ step = "cut" => use = "service" /\ Len(built) <= MaxPrefix

Inv == TypeOK /\ Building /\ ServiceNameIsSafe /\ ShortProjectIdIsSafe
-----------------------------------------------------------------------------
(* What is at the end of a concatenation is its second part.               *)
LEMMA TailOfConcat ==
    ASSUME NEW S, NEW s \in Seq(S), NEW t \in Seq(S), t # <<>>
    PROVE  SubSeq(s \o t, Len(s \o t) - Len(t) + 1, Len(s \o t)) = t
<1> DEFINE r == s \o t
<1>1. /\ r \in Seq(S) /\ Len(r) = Len(s) + Len(t)
      /\ Len(s) \in Nat /\ Len(t) \in Nat
  BY ConcatProperties, LenProperties
<1>2. Len(t) > 0
  BY <1>1, EmptySeq
<1>3. /\ Len(r) - Len(t) + 1 = Len(s) + 1
      /\ Len(s) + 1 \in Len(s) + 1 .. Len(s) + Len(t)
      /\ Len(r) \in Len(s) + 1 .. Len(s) + Len(t)
  BY <1>1, <1>2
<1>4. SubSeq(r, Len(s) + 1, Len(r)) = SubSeq(t, Len(s) + 1 - Len(s), Len(r) - Len(s))
  BY <1>3, SubSeqOfConcat2
<1>5. Len(s) + 1 - Len(s) = 1 /\ Len(r) - Len(s) = Len(t)
  BY <1>1
<1> QED  BY <1>3, <1>4, <1>5, SubSeqFull

(* The suffix with its hyphen.                                             *)
LEMMA Ending ==
    /\ <<Hyphen>> \o Suffix \in Seq(Label)
    /\ <<Hyphen>> \o Suffix # <<>>
    /\ Len(<<Hyphen>> \o Suffix) = Len(Suffix) + 1
    /\ Len(Suffix) \in Nat \ {0}
    /\ (<<Hyphen>> \o Suffix)[Len(Suffix) + 1] # Hyphen
<1>1. /\ Suffix \in Seq(Letters) /\ Suffix # <<>> /\ Hyphen \notin Letters
      /\ Suffix \in Seq(Label) /\ <<Hyphen>> \in Seq(Label)
  BY NamesAssumption, SeqMonotonic DEF Label
<1>2. Len(Suffix) \in Nat \ {0}
  BY <1>1, EmptySeq
<1>3. Len(<<Hyphen>>) = 1
  OBVIOUS
<1>4. /\ <<Hyphen>> \o Suffix \in Seq(Label)
      /\ Len(<<Hyphen>> \o Suffix) = 1 + Len(Suffix)
      /\ \A i \in 1 .. 1 + Len(Suffix) :
            (<<Hyphen>> \o Suffix)[i] = IF i <= 1 THEN <<Hyphen>>[i] ELSE Suffix[i - 1]
  BY <1>1, <1>3, ConcatProperties
<1>5. (<<Hyphen>> \o Suffix)[Len(Suffix) + 1] = Suffix[Len(Suffix)]
  BY <1>2, <1>4
<1>6. Suffix[Len(Suffix)] \in Letters
  BY <1>1, <1>2, ElementOfSeq
<1>7. <<Hyphen>> \o Suffix # <<>>
  BY <1>2, <1>4, EmptySeq
<1> QED  BY <1>1, <1>2, <1>4, <1>5, <1>6, <1>7

(* A prefix that begins with no hyphen, with the suffix, is a DNS label,   *)
(* if it fits.                                                             *)
LEMMA SuffixedIsLabel ==
    ASSUME NEW p \in Seq(Label), p # <<>>, p[1] # Hyphen,
           Len(p) + 1 + Len(Suffix) <= Limit
    PROVE  IsDNSLabel(p \o <<Hyphen>> \o Suffix)
<1> DEFINE t == <<Hyphen>> \o Suffix
           r == p \o t
<1>1. p \o <<Hyphen>> \o Suffix = r
  <2>1. <<Hyphen>> \in Seq(Label) /\ Suffix \in Seq(Label)
    BY NamesAssumption, SeqMonotonic DEF Label
  <2> QED  BY <2>1, ConcatAssociative
<1>2. t \in Seq(Label) /\ Len(t) = Len(Suffix) + 1 /\ Len(Suffix) \in Nat \ {0}
      /\ t[Len(Suffix) + 1] # Hyphen
  BY Ending
<1>3. Len(p) \in Nat \ {0}
  BY EmptySeq
<1>4. /\ r \in Seq(Label) /\ Len(r) = Len(p) + Len(t)
      /\ \A i \in 1 .. Len(p) + Len(t) : r[i] = IF i <= Len(p) THEN p[i] ELSE t[i - Len(p)]
  BY <1>2, ConcatProperties
<1> HIDE DEF r, t
<1>5. r[1] = p[1] /\ r[Len(r)] = t[Len(Suffix) + 1]
  <2>1. 1 \in 1 .. Len(p) + Len(t) /\ 1 <= Len(p)
        /\ Len(r) \in 1 .. Len(p) + Len(t) /\ ~(Len(r) <= Len(p))
        /\ Len(r) - Len(p) = Len(Suffix) + 1
    BY <1>2, <1>3, <1>4
  <2> QED  BY <2>1, <1>4
<1>6. \A i \in 1 .. Len(r) : r[i] \in Label
  BY <1>4, ElementOfSeq
<1>7. r # <<>> /\ Len(r) <= Limit
  BY <1>2, <1>3, <1>4, NamesAssumption, EmptySeq
<1>8. IsDNSLabel(r)
  BY <1>2, <1>5, <1>6, <1>7 DEF IsDNSLabel, Label
<1> QED  BY <1>1, <1>8

(* The last elements of a name that has its suffix are the suffix.         *)
LEMMA SuffixedEnds ==
    ASSUME NEW p \in Seq(Label)
    PROVE  LET r == p \o <<Hyphen>> \o Suffix IN
           /\ r \in Seq(Label)
           /\ SubSeq(r, Len(r) - Len(Suffix), Len(r)) = <<Hyphen>> \o Suffix
<1> DEFINE t == <<Hyphen>> \o Suffix
           q == p \o t
<1>1. p \o <<Hyphen>> \o Suffix = q
  <2>1. <<Hyphen>> \in Seq(Label) /\ Suffix \in Seq(Label)
    BY NamesAssumption, SeqMonotonic DEF Label
  <2> QED  BY <2>1, ConcatAssociative
<1>2. t \in Seq(Label) /\ t # <<>> /\ Len(t) = Len(Suffix) + 1 /\ Len(Suffix) \in Nat
  BY Ending
<1>3. q \in Seq(Label) /\ Len(q) \in Nat
  BY <1>2, ConcatProperties, LenProperties
<1>4. SubSeq(q, Len(q) - Len(t) + 1, Len(q)) = t
  BY <1>2, TailOfConcat
<1>5. Len(q) - Len(t) + 1 = Len(q) - Len(Suffix)
  BY <1>2, <1>3
<1> QED  BY <1>1, <1>3, <1>4, <1>5
-----------------------------------------------------------------------------
LEMMA Initially == Init => Inv
<1> SUFFICES ASSUME Init PROVE Inv
  OBVIOUS
<1>1. name = <<>> /\ built = <<>> /\ read = 0 /\ step = "typing"
      /\ use \in {"service", "project"} /\ lastHyphen = FALSE
  BY DEF Init
<1>2. name \in Seq(Runes) /\ built \in Seq(Label) /\ Len(name) = 0 /\ Len(built) = 0
  BY <1>1, EmptySeq
<1>3. Len(name) <= MaxTyped /\ read \in 0 .. Len(name)
  BY <1>1, <1>2, NamesAssumption
<1>4. TypeOK
  BY <1>1, <1>2, <1>3 DEF TypeOK, Label
<1> QED  BY <1>1, <1>2, <1>4 DEF Inv, Building, ServiceNameIsSafe, ShortProjectIdIsSafe

(* A step before the name is done keeps the results' properties.           *)
LEMMA NotDone ==
    ASSUME step' # "done"
    PROVE  ServiceNameIsSafe' /\ ShortProjectIdIsSafe'
BY DEF ServiceNameIsSafe, ShortProjectIdIsSafe

LEMMA Typing ==
    ASSUME Inv, NEW c \in Runes, Type(c) PROVE Inv'
<1>1. Append(name, c) \in Seq(Runes) /\ Len(Append(name, c)) = Len(name) + 1
      /\ Len(name) \in Nat
  BY AppendProperties, LenProperties DEF Inv, TypeOK
<1>2. TypeOK'
  BY <1>1, NamesAssumption DEF Inv, TypeOK, Type
<1>3. Building'
  BY <1>1 DEF Inv, TypeOK, Building, Type, EndsInHyphen
<1>4. step' # "done"
  BY DEF Type
<1> QED  BY <1>2, <1>3, <1>4, NotDone DEF Inv

LEMMA Submitting ==
    ASSUME Inv, Submit PROVE Inv'
<1>1. TypeOK'
  BY DEF Inv, TypeOK, Submit
<1>2. Building'
  BY DEF Inv, Building, Submit, EndsInHyphen
<1>3. step' # "done"
  BY DEF Submit
<1> QED  BY <1>1, <1>2, <1>3, NotDone DEF Inv

LEMMA Copying ==
    ASSUME Inv, Copy PROVE Inv'
<1> DEFINE e == name[read + 1]
<1>1. /\ name \in Seq(Runes) /\ built \in Seq(Label) /\ read \in 0 .. Len(name)
      /\ read < Len(name) /\ read' = read + 1 /\ name' = name /\ use' = use
      /\ step = "sanitizing" /\ step' = step /\ e \in Letters
      /\ built' = Append(built, e) /\ lastHyphen' = FALSE
  BY DEF Inv, TypeOK, Copy, NextRune, Label
<1> HIDE DEF e
<1>2. e \in Label /\ e # Hyphen
  BY <1>1, NamesAssumption DEF Label
<1>3. /\ built' \in Seq(Label) /\ built' # <<>> /\ Len(built') = Len(built) + 1
      /\ \A i \in 1 .. Len(built) : built'[i] = built[i]
      /\ built'[Len(built) + 1] = e
  BY <1>1, <1>2, AppendProperties
<1>4. Len(built) \in Nat /\ Len(name) \in Nat /\ (built # <<>> => Len(built) # 0)
  BY <1>1, LenProperties, EmptySeq
<1>5. built'[1] # Hyphen
  <2>1. CASE built = <<>>
    BY <2>1, <1>2, <1>3
  <2>2. CASE built # <<>>
    BY <2>2, <1>1, <1>3, <1>4 DEF Inv, Building
  <2> QED  BY <2>1, <2>2
<1>6. TypeOK'
  <2>1. read' \in 0 .. Len(name')
    BY <1>1, <1>4
  <2> QED  BY <2>1, <1>1, <1>3 DEF Inv, TypeOK, Label
<1>7. Len(built') <= read'
  BY <1>1, <1>3, <1>4 DEF Inv, Building
<1>8. Building'
  BY <1>1, <1>5, <1>7 DEF Building
<1> QED  BY <1>1, <1>6, <1>8, NotDone DEF Inv

LEMMA Separating ==
    ASSUME Inv, Separate PROVE Inv'
<1>1. /\ name \in Seq(Runes) /\ built \in Seq(Label) /\ read \in 0 .. Len(name)
      /\ read < Len(name) /\ read' = read + 1 /\ name' = name /\ use' = use
      /\ step = "sanitizing" /\ step' = step /\ built # <<>>
      /\ built' = Append(built, Hyphen) /\ lastHyphen' = TRUE
  BY DEF Inv, TypeOK, Separate, NextRune, Label
<1>2. Hyphen \in Label
  BY DEF Label
<1>3. /\ built' \in Seq(Label) /\ Len(built') = Len(built) + 1
      /\ \A i \in 1 .. Len(built) : built'[i] = built[i]
  BY <1>1, <1>2, AppendProperties
<1>4. Len(built) \in Nat \ {0} /\ Len(name) \in Nat
  BY <1>1, LenProperties, EmptySeq
<1>5. built'[1] # Hyphen
  BY <1>1, <1>3, <1>4 DEF Inv, Building
<1>6. TypeOK'
  <2>1. read' \in 0 .. Len(name')
    BY <1>1, <1>4
  <2> QED  BY <2>1, <1>1, <1>3 DEF Inv, TypeOK, Label
<1>7. Len(built') <= read'
  BY <1>1, <1>3, <1>4 DEF Inv, Building
<1>8. Building'
  BY <1>1, <1>5, <1>7 DEF Building
<1> QED  BY <1>1, <1>6, <1>8, NotDone DEF Inv

LEMMA Skipping ==
    ASSUME Inv, Skip PROVE Inv'
<1>1. /\ name \in Seq(Runes) /\ built \in Seq(Label) /\ read \in 0 .. Len(name)
      /\ read < Len(name) /\ read' = read + 1 /\ name' = name /\ use' = use
      /\ step = "sanitizing" /\ step' = step
      /\ built' = built /\ lastHyphen' = lastHyphen
  BY DEF Inv, TypeOK, Skip, NextRune, Label
<1>2. Len(built) \in Nat /\ Len(name) \in Nat
  BY <1>1, LenProperties
<1>3. read' \in 0 .. Len(name') /\ Len(built') <= read'
  BY <1>1, <1>2 DEF Inv, Building
<1>4. TypeOK'
  BY <1>1, <1>3 DEF Inv, TypeOK
<1>5. Building'
  BY <1>1, <1>3 DEF Inv, Building
<1> QED  BY <1>1, <1>4, <1>5, NotDone DEF Inv

(* A prefix of a sequence.                                                 *)
LEMMA PrefixOf ==
    ASSUME NEW s \in Seq(Label), NEW n \in 0 .. Len(s)
    PROVE  /\ SubSeq(s, 1, n) \in Seq(Label)
           /\ Len(SubSeq(s, 1, n)) = n
           /\ n # 0 => SubSeq(s, 1, n)[1] = s[1]
<1>1. Len(s) \in Nat
  BY LenProperties
<1>2. \A i \in 1 .. n : s[i] \in Label
  <2> SUFFICES ASSUME NEW i \in 1 .. n PROVE s[i] \in Label
    OBVIOUS
  <2>1. i \in 1 .. Len(s)
    BY <1>1
  <2> QED  BY <2>1, ElementOfSeq
<1>3. /\ SubSeq(s, 1, n) \in Seq(Label)
      /\ Len(SubSeq(s, 1, n)) = IF 1 <= n THEN n - 1 + 1 ELSE 0
      /\ \A i \in 1 .. n - 1 + 1 : SubSeq(s, 1, n)[i] = s[1 + i - 1]
  BY <1>1, <1>2, SubSeqProperties
<1> QED  BY <1>1, <1>3

LEMMA Dropping ==
    ASSUME Inv, DropHyphen PROVE Inv'
<1>1. /\ built \in Seq(Label) /\ built # <<>> /\ step \in {"sanitizing", "cut"}
      /\ built' = SubSeq(built, 1, Len(built) - 1)
      /\ name' = name /\ use' = use /\ read' = read /\ lastHyphen' = lastHyphen
      /\ step' = step
  BY DEF Inv, TypeOK, DropHyphen, EndsInHyphen, Label
<1>2. Len(built) \in Nat \ {0}
  BY <1>1, EmptySeq
<1>3. Len(built) - 1 \in 0 .. Len(built)
  BY <1>2
<1>4. /\ built' \in Seq(Label) /\ Len(built') = Len(built) - 1
      /\ Len(built) - 1 # 0 => built'[1] = built[1]
  BY <1>1, <1>3, PrefixOf
<1>5. TypeOK'
  BY <1>1, <1>4 DEF Inv, TypeOK, Label
<1>6. built' # <<>> => built'[1] # Hyphen
  <2>1. built' # <<>> => Len(built') # 0
    BY <1>4, EmptySeq
  <2> QED  BY <2>1, <1>1, <1>4 DEF Inv, Building
<1>7. /\ step = "sanitizing" => Len(built') <= read
      /\ step = "cut" => Len(built') <= Len(name) /\ use = "service" /\ Len(built') <= MaxPrefix
  <2>1. /\ Len(name) \in Nat /\ read \in Nat /\ MaxPrefix \in Int
    BY LenProperties, NamesAssumption, Ending DEF Inv, TypeOK, MaxPrefix
  <2>2. /\ step = "sanitizing" => Len(built) <= read
        /\ step = "cut" => Len(built) <= Len(name) /\ use = "service" /\ Len(built) <= MaxPrefix
    BY DEF Inv, Building
  <2> QED  BY <2>1, <2>2, <1>2, <1>4
<1>8. Building'
  BY <1>1, <1>6, <1>7 DEF Building, MaxPrefix
<1> QED  BY <1>1, <1>5, <1>8, NotDone DEF Inv

LEMMA Sanitizing ==
    ASSUME Inv, Sanitized PROVE Inv'
<1>1. TypeOK'
  BY DEF Inv, TypeOK, Sanitized
<1>2. Building'
  BY DEF Inv, TypeOK, Building, Sanitized, EndsInHyphen
<1>3. step' # "done"
  BY DEF Sanitized
<1> QED  BY <1>1, <1>2, <1>3, NotDone DEF Inv

LEMMA Cutting ==
    ASSUME Inv, Cut PROVE Inv'
<1>1. /\ built \in Seq(Label) /\ step = "sanitized" /\ use = "service"
      /\ Len(built) > MaxPrefix
      /\ built' = SubSeq(built, 1, MaxPrefix) /\ step' = "cut"
      /\ name' = name /\ use' = use /\ read' = read /\ lastHyphen' = lastHyphen
  BY DEF Inv, TypeOK, Cut, Label
<1>2. /\ Len(built) \in Nat /\ Len(name) \in Nat /\ Len(built) <= Len(name)
  BY <1>1, LenProperties DEF Inv, TypeOK, Building
<1>3. MaxPrefix \in Nat
  BY NamesAssumption, Ending, LenProperties DEF MaxPrefix
<1>4. MaxPrefix \in 0 .. Len(built)
  BY <1>1, <1>2, <1>3
<1>5. /\ built' \in Seq(Label) /\ Len(built') = MaxPrefix
      /\ MaxPrefix # 0 => built'[1] = built[1]
  BY <1>1, <1>4, PrefixOf
<1>6. TypeOK'
  BY <1>1, <1>5 DEF Inv, TypeOK, Label
<1>7. built' # <<>> => built'[1] # Hyphen
  <2>1. built' # <<>> => Len(built') # 0
    BY <1>5, EmptySeq
  <2>2. MaxPrefix # 0 => built # <<>>
    BY <1>1, <1>2, <1>3, EmptySeq
  <2> QED  BY <2>1, <2>2, <1>1, <1>5 DEF Inv, Building
<1>8. Building'
  BY <1>1, <1>2, <1>3, <1>5, <1>7 DEF Building, MaxPrefix
<1> QED  BY <1>1, <1>6, <1>8, NotDone DEF Inv

(* A name of a service, as it is made.                                     *)
LEMMA Suffixing ==
    ASSUME Inv, step \in {"sanitized", "cut"}, use = "service",
           Len(built) <= MaxPrefix, Suffixed(built)
    PROVE  Inv'
<1> DEFINE p == IF built = <<>> THEN Fallback ELSE built
<1>1. /\ built' = p \o <<Hyphen>> \o Suffix /\ step' = "done"
      /\ name' = name /\ use' = use /\ read' = read /\ lastHyphen' = lastHyphen
  BY DEF Suffixed, Done
<1>2. built \in Seq(Label) /\ (built # <<>> => built[1] # Hyphen)
  BY DEF Inv, TypeOK, Building, Label
<1>3. Fallback \in Seq(Label) /\ Fallback # <<>> /\ Fallback[1] # Hyphen
  <2>1. Fallback \in Seq(Letters) /\ Fallback # <<>> /\ Hyphen \notin Letters
    BY NamesAssumption
  <2>2. 1 \in 1 .. Len(Fallback)
    BY <2>1, EmptySeq
  <2>3. Fallback[1] \in Letters
    BY <2>1, <2>2, ElementOfSeq
  <2> QED  BY <2>1, <2>3, SeqMonotonic DEF Label
<1>4. p \in Seq(Label) /\ p # <<>> /\ p[1] # Hyphen
  BY <1>2, <1>3
<1>5. Len(p) + 1 + Len(Suffix) <= Limit
  <2>1. Len(Suffix) \in Nat /\ Limit \in Nat /\ Len(Fallback) + 1 + Len(Suffix) <= Limit
        /\ Len(built) \in Nat /\ Len(built) <= Limit - 1 - Len(Suffix)
    BY <1>2, NamesAssumption, Ending, LenProperties DEF MaxPrefix
  <2> QED  BY <2>1
<1> HIDE DEF p
<1>6. IsDNSLabel(built') /\ built' \in Seq(Label)
      /\ SubSeq(built', Len(built') - Len(Suffix), Len(built')) = <<Hyphen>> \o Suffix
  BY <1>1, <1>4, <1>5, SuffixedIsLabel, SuffixedEnds
<1>7. TypeOK'
  BY <1>1, <1>6 DEF Inv, TypeOK, Label
<1>8. Building'
  BY <1>1 DEF Building
<1>9. ServiceNameIsSafe'
  BY <1>6 DEF ServiceNameIsSafe, IsDNSLabel
<1>10. ShortProjectIdIsSafe'
  BY <1>1 DEF ShortProjectIdIsSafe
<1> QED  BY <1>7, <1>8, <1>9, <1>10 DEF Inv

LEMMA NamingProject ==
    ASSUME Inv, ProjectId PROVE Inv'
<1> DEFINE p == ProjectPrefix \o <<Hyphen>> \o built
<1>1. /\ built' = p \o <<Hyphen>> \o Suffix /\ step' = "done" /\ step = "sanitized"
      /\ use = "project"
      /\ name' = name /\ use' = use /\ read' = read /\ lastHyphen' = lastHyphen
  BY DEF ProjectId, Done
<1>2. built \in Seq(Label) /\ Len(built) \in Nat /\ Len(name) \in Nat /\ Len(built) <= Len(name)
  BY <1>1, LenProperties DEF Inv, TypeOK, Building, Label
<1>3. ProjectPrefix \in Seq(Label) /\ Len(ProjectPrefix) \in Nat \ {0} /\ ProjectPrefix[1] # Hyphen
  <2>1. ProjectPrefix \in Seq(Letters) /\ ProjectPrefix # <<>> /\ Hyphen \notin Letters
    BY NamesAssumption
  <2>2. 1 \in 1 .. Len(ProjectPrefix) /\ Len(ProjectPrefix) \in Nat \ {0}
    BY <2>1, EmptySeq
  <2>3. ProjectPrefix[1] \in Letters
    BY <2>1, <2>2, ElementOfSeq
  <2> QED  BY <2>1, <2>2, <2>3, SeqMonotonic DEF Label
<1>4. /\ <<Hyphen>> \in Seq(Label) /\ Len(<<Hyphen>>) = 1
  BY DEF Label
<1> DEFINE q == ProjectPrefix \o <<Hyphen>>
<1>5. /\ q \in Seq(Label) /\ Len(q) = Len(ProjectPrefix) + 1
      /\ q[1] = ProjectPrefix[1]
  <2>1. /\ q \in Seq(Label) /\ Len(q) = Len(ProjectPrefix) + 1
        /\ \A i \in 1 .. Len(ProjectPrefix) + 1 :
               q[i] = IF i <= Len(ProjectPrefix) THEN ProjectPrefix[i] ELSE <<Hyphen>>[i - Len(ProjectPrefix)]
    BY <1>3, <1>4, ConcatProperties
  <2> QED  BY <2>1, <1>3
<1> HIDE DEF q
<1>6. /\ p \in Seq(Label) /\ Len(p) = Len(ProjectPrefix) + 1 + Len(built)
      /\ p[1] = ProjectPrefix[1] /\ p # <<>>
  <2>1. p = q \o built
    BY DEF q
  <2>2. /\ q \o built \in Seq(Label) /\ Len(q \o built) = Len(q) + Len(built)
        /\ \A i \in 1 .. Len(q) + Len(built) :
               (q \o built)[i] = IF i <= Len(q) THEN q[i] ELSE built[i - Len(q)]
    BY <1>2, <1>5, ConcatProperties
  <2>3. 1 \in 1 .. Len(q) + Len(built) /\ 1 <= Len(q)
    BY <1>2, <1>3, <1>5
  <2>4. (q \o built)[1] = q[1]
    BY <2>2, <2>3
  <2>5. Len(q \o built) # 0
    BY <2>2, <1>2, <1>3, <1>5
  <2>6. q \o built # <<>>
    BY <2>5, EmptySeq
  <2> QED  BY <2>1, <2>2, <2>4, <2>6, <1>5
<1> HIDE DEF p
<1>7. built' \in Seq(Label)
  BY <1>1, <1>6, SuffixedEnds
<1>8. TypeOK'
  BY <1>1, <1>7 DEF Inv, TypeOK, Label
<1>9. Building' /\ ServiceNameIsSafe'
  BY <1>1 DEF Building, ServiceNameIsSafe
<1>10. ShortProjectIdIsSafe'
  <2> SUFFICES ASSUME Len(ProjectPrefix) + Len(name) + 2 + Len(Suffix) <= Limit
               PROVE  IsDNSLabel(p \o <<Hyphen>> \o Suffix)
    BY <1>1 DEF ShortProjectIdIsSafe, IsDNSLabel
  <2>1. Len(p) + 1 + Len(Suffix) <= Limit
    BY <1>2, <1>3, <1>6, NamesAssumption, Ending
  <2> QED  BY <2>1, <1>3, <1>6, SuffixedIsLabel
<1> QED  BY <1>8, <1>9, <1>10 DEF Inv

LEMMA Stuttering ==
    ASSUME Inv, UNCHANGED vars PROVE Inv'
BY DEF Inv, vars, TypeOK, Building, EndsInHyphen, MaxPrefix, ServiceNameIsSafe,
       ShortProjectIdIsSafe, IsDNSLabel

(* Every step of the two functions keeps the invariant.                    *)
LEMMA Inductive == Inv /\ [Next]_vars => Inv'
<1> SUFFICES ASSUME Inv, [Next]_vars PROVE Inv'
  OBVIOUS
<1>1. CASE \E c \in Runes : Type(c)
  BY <1>1, Typing
<1>2. CASE Submit
  BY <1>2, Submitting
<1>3. CASE Copy
  BY <1>3, Copying
<1>4. CASE Separate
  BY <1>4, Separating
<1>5. CASE Skip
  BY <1>5, Skipping
<1>6. CASE DropHyphen
  BY <1>6, Dropping
<1>7. CASE Sanitized
  BY <1>7, Sanitizing
<1>8. CASE ProjectId
  BY <1>8, NamingProject
<1>9. CASE ServiceName
  BY <1>9, Suffixing DEF ServiceName
<1>10. CASE Cut
  BY <1>10, Cutting
<1>11. CASE CutName
  BY <1>11, Suffixing DEF CutName, Inv, Building
<1>12. CASE UNCHANGED vars
  BY <1>12, Stuttering
<1> QED
  BY <1>1, <1>2, <1>3, <1>4, <1>5, <1>6, <1>7, <1>8, <1>9, <1>10, <1>11, <1>12 DEF Next

LEMMA Invariance == Spec => []Inv
BY Initially, Inductive, PTL DEF Spec

(* Every variable always holds a value of its kind.                        *)
THEOREM TypeCorrect == Spec => []TypeOK
<1>1. Inv => TypeOK
  BY DEF Inv
<1> QED  BY <1>1, Invariance, PTL

(* Whatever is typed, the name of a Knative service is a DNS label that    *)
(* ends in the whole digest: sanitizeDNSLabel and the cut of               *)
(* ServiceResourceName leave no hyphen at an end and nothing too long.     *)
THEOREM ServiceNames == Spec => []ServiceNameIsSafe
<1>1. Inv => ServiceNameIsSafe
  BY DEF Inv
<1> QED  BY <1>1, Invariance, PTL

(* The id CreateProject makes of a short name is a DNS label.              *)
THEOREM ProjectIds == Spec => []ShortProjectIdIsSafe
<1>1. Inv => ShortProjectIdIsSafe
  BY DEF Inv
<1> QED  BY <1>1, Invariance, PTL
-----------------------------------------------------------------------------
(* Names that are labels already.                                          *)

Plain(s) ==
    /\ s # <<>> /\ s[1] # Hyphen /\ s[Len(s)] # Hyphen
    /\ \A i \in 1 .. Len(s) : s[i] \in Label
    /\ \A i \in 1 .. Len(s) - 1 : s[i] = Hyphen => s[i + 1] # Hyphen

\* The builder has copied what was read.
Copied ==
    /\ Len(built) = read
    /\ \A i \in 1 .. read : built[i] = name[i]
    /\ lastHyphen <=> read > 0 /\ name[read] = Hyphen

Verbatim ==
    /\ step = "typing" => read = 0 /\ lastHyphen = FALSE
    /\ Plain(name) =>
        /\ step = "sanitizing" => Copied
        /\ step = "sanitized" => built = name
        /\ step = "cut" => Len(name) > MaxPrefix
        /\ step = "done" /\ use = "project" =>
             built = ProjectPrefix \o <<Hyphen>> \o name \o <<Hyphen>> \o Suffix
        /\ step = "done" /\ use = "service" /\ Len(name) <= MaxPrefix =>
             built = name \o <<Hyphen>> \o Suffix

(* The next rune of a plain name is copied: either it is a letter, or a    *)
(* hyphen that neither comes first nor follows another.                    *)
LEMMA PlainRune ==
    ASSUME Inv, Plain(name), Copied, NextRune
    PROVE  /\ ~Skip
           /\ /\ built' = Append(built, name[read + 1])
              /\ lastHyphen' <=> name[read + 1] = Hyphen
              => Copied'
<1>1. /\ read \in 0 .. Len(name) /\ read < Len(name) /\ Len(name) \in Nat
      /\ read' = read + 1 /\ name' = name
      /\ name \in Seq(Runes) /\ built \in Seq(Label)
  BY LenProperties DEF Inv, TypeOK, NextRune, Label
<1>2. name[read + 1] \in Label
  BY <1>1 DEF Plain
<1>3. ~Skip
  <2> SUFFICES ASSUME Skip PROVE FALSE
    OBVIOUS
  <2>1. name[read + 1] = Hyphen /\ (built = <<>> \/ lastHyphen)
    BY <1>2 DEF Skip, Label
  <2>2. CASE read = 0
    BY <1>1, <2>1, <2>2 DEF Plain
  <2>3. CASE read > 0
    <3>1. built # <<>>
      BY <1>1, <2>3, EmptySeq DEF Copied
    <3>2. name[read] = Hyphen /\ read \in 1 .. Len(name) - 1
      BY <1>1, <2>1, <2>3, <3>1 DEF Copied
    <3> QED  BY <2>1, <3>2 DEF Plain
  <2> QED  BY <1>1, <2>2, <2>3
<1>4. ASSUME built' = Append(built, name[read + 1]), lastHyphen' <=> name[read + 1] = Hyphen
      PROVE  Copied'
  <2>1. /\ Len(built') = Len(built) + 1
        /\ \A i \in 1 .. Len(built) : built'[i] = built[i]
        /\ built'[Len(built) + 1] = name[read + 1]
    BY <1>1, <1>2, <1>4, AppendProperties
  <2>2. Len(built') = read' /\ \A i \in 1 .. read' : built'[i] = name'[i]
    BY <1>1, <2>1 DEF Copied
  <2> QED  BY <1>1, <1>4, <2>2 DEF Copied
<1> QED  BY <1>3, <1>4

LEMMA KeepsVerbatim ==
    ASSUME Inv, Verbatim, [Next]_vars PROVE Verbatim'
<1>1. CASE \E c \in Runes : Type(c)
  BY <1>1 DEF Type, Verbatim
<1>2. CASE Submit
  <2>1. built = <<>> /\ Len(built) = 0
    BY <1>2, EmptySeq DEF Submit, Inv, Building
  <2> QED  BY <1>2, <2>1 DEF Submit, Verbatim, Copied
<1>3. CASE Copy \/ Separate \/ Skip
  <2>1. step = "sanitizing" /\ step' = step /\ name' = name /\ NextRune
    BY <1>3 DEF Copy, Separate, Skip, NextRune
  <2>2. ASSUME Plain(name) PROVE Copied'
    <3>1. Copied
      BY <2>1, <2>2 DEF Verbatim
    <3>2. name[read + 1] \in Label
      BY <2>1, <2>2 DEF Plain, NextRune, Inv, TypeOK
    <3>3. CASE Copy
      BY <3>1, <3>3, <2>1, <2>2, PlainRune, NamesAssumption DEF Copy
    <3>4. CASE Separate
      BY <3>1, <3>2, <3>4, <2>1, <2>2, PlainRune DEF Separate, Label
    <3> QED  BY <1>3, <3>1, <3>3, <3>4, <2>1, <2>2, PlainRune
  <2> QED  BY <2>1, <2>2 DEF Verbatim
<1>4. CASE DropHyphen
  <2>1. name' = name /\ step' = step /\ step \in {"sanitizing", "cut"} /\ EndsInHyphen
    BY <1>4 DEF DropHyphen
  <2>2. ASSUME Plain(name), step = "sanitizing" PROVE FALSE
    <3>1. Copied /\ read = Len(name)
      BY <1>4, <2>2 DEF Verbatim, DropHyphen
    <3>2. Len(name) \in Nat \ {0}
      BY <2>2, EmptySeq DEF Plain, Inv, TypeOK
    <3>3. built[Len(built)] = name[Len(name)]
      BY <3>1, <3>2 DEF Copied
    <3> QED  BY <2>1, <2>2, <3>3 DEF EndsInHyphen, Plain
  <2> QED  BY <2>1, <2>2 DEF Verbatim, MaxPrefix
<1>5. CASE Sanitized
  <2>1. /\ step = "sanitizing" /\ step' = "sanitized" /\ read = Len(name)
        /\ name' = name /\ built' = built
    BY <1>5 DEF Sanitized
  <2>2. ASSUME Plain(name) PROVE built = name
    <3>1. Copied
      BY <2>1, <2>2 DEF Verbatim
    <3>2. built \in Seq(Label \cup Runes) /\ name \in Seq(Label \cup Runes)
      BY SeqMonotonic DEF Inv, TypeOK, Label, Runes
    <3>3. Len(built) = Len(name) /\ \A i \in 1 .. Len(built) : built[i] = name[i]
      BY <2>1, <3>1 DEF Copied
    <3> QED  BY <3>2, <3>3, SeqEqual
  <2> QED  BY <2>1, <2>2 DEF Verbatim
<1>6. CASE ProjectId
  BY <1>6 DEF ProjectId, Done, Verbatim
<1>7. CASE Cut
  BY <1>7 DEF Cut, Verbatim, MaxPrefix
<1>8. CASE ServiceName \/ CutName
  <2>1. /\ step' = "done" /\ name' = name /\ use' = use /\ use = "service"
        /\ built' = (IF built = <<>> THEN Fallback ELSE built) \o <<Hyphen>> \o Suffix
    BY <1>8 DEF ServiceName, CutName, Suffixed, Done, Inv, Building
  <2>2. ASSUME Plain(name), Len(name) <= MaxPrefix PROVE built = name
    <3>1. MaxPrefix \in Int /\ Len(name) \in Nat
      BY NamesAssumption, Ending, LenProperties DEF MaxPrefix, Inv, TypeOK
    <3>2. step = "sanitized"
      BY <1>8, <2>2, <3>1 DEF ServiceName, CutName, Verbatim
    <3> QED  BY <2>2, <3>2 DEF Verbatim
  <2>3. Plain(name) => name # <<>>
    BY DEF Plain
  <2> QED  BY <2>1, <2>2, <2>3 DEF Verbatim, MaxPrefix
<1>9. CASE UNCHANGED vars
  BY <1>9 DEF vars, Verbatim, Copied, MaxPrefix
<1> QED
  BY <1>1, <1>2, <1>3, <1>4, <1>5, <1>6, <1>7, <1>8, <1>9 DEF Next

LEMMA InvariantlyVerbatim == Spec => []Verbatim
<1>1. Init => Verbatim
  BY DEF Init, Verbatim
<1>2. Inv /\ Verbatim /\ [Next]_vars => Verbatim'
  BY KeepsVerbatim
<1> QED  BY <1>1, <1>2, Invariance, PTL DEF Spec

(* A name that is a label with single hyphens comes through sanitising     *)
(* unchanged: it can be read in the id of its project and in the name of   *)
(* its service, if that has room.                                          *)
THEOREM PlainNamesAreKept ==
    Spec => [](step = "done" /\ Plain(name) =>
                 /\ use = "project" =>
                      built = ProjectPrefix \o <<Hyphen>> \o name \o <<Hyphen>> \o Suffix
                 /\ use = "service" /\ Len(name) <= MaxPrefix =>
                      built = name \o <<Hyphen>> \o Suffix)
<1>1. Verbatim => (step = "done" /\ Plain(name) =>
                     /\ use = "project" =>
                          built = ProjectPrefix \o <<Hyphen>> \o name \o <<Hyphen>> \o Suffix
                     /\ use = "service" /\ Len(name) <= MaxPrefix =>
                          built = name \o <<Hyphen>> \o Suffix)
  BY DEF Verbatim
<1> QED  BY <1>1, InvariantlyVerbatim, PTL
=============================================================================
