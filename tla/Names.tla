--------------------------------- MODULE Names ---------------------------------
(***************************************************************************)
(* How the services make the names of Kubernetes objects from what users   *)
(* type: ServiceResourceName and sanitizeDNSLabel of the container service *)
(* (container/repository/knative/manager.go) and the id of a project,      *)
(* which is the name of its namespace (project/service/server.go).         *)
(*                                                                         *)
(* The loops are state machines, one rune a step.  A name is what is left  *)
(* of the typed one after TrimSpace and ToLower; a byte of the result is   *)
(* one element, since only ASCII is copied.  The hexadecimal digest of the *)
(* project and the name, and the random id of a project, are Suffix.       *)
(***************************************************************************)
EXTENDS Naturals, Sequences

CONSTANTS
    Letters,        \* a-z and 0-9
    Others,         \* runes that are no part of a DNS label
    Hyphen,
    Limit,          \* 63
    Suffix,         \* eight letters
    Fallback,       \* "service"
    ProjectPrefix,  \* "proj"
    MaxTyped        \* bound: the length of a typed name

ASSUME NamesAssumption ==
    /\ Hyphen \notin Letters /\ Hyphen \notin Others
    /\ Letters \cap Others = {}
    /\ Limit \in Nat /\ MaxTyped \in Nat
    /\ Suffix \in Seq(Letters) /\ Suffix # <<>>
    /\ Fallback \in Seq(Letters) /\ Fallback # <<>>
    /\ ProjectPrefix \in Seq(Letters) /\ ProjectPrefix # <<>>
    /\ Len(Fallback) + 1 + Len(Suffix) <= Limit

VARIABLES
    name,       \* the name typed
    use,        \* what it is for
    read,       \* how many of its runes sanitizeDNSLabel has read
    built,      \* its builder, and what becomes of it
    lastHyphen, \* its flag
    step

vars == <<name, use, read, built, lastHyphen, step>>

Runes == Letters \cup Others \cup {Hyphen}

Init ==
    /\ name = <<>> /\ use \in {"service", "project"}
    /\ read = 0 /\ built = <<>> /\ lastHyphen = FALSE
    /\ step = "typing"

Type(c) ==
    /\ step = "typing" /\ Len(name) < MaxTyped
    /\ name' = Append(name, c)
    /\ UNCHANGED <<use, read, built, lastHyphen, step>>

\* An empty name is refused.
Submit ==
    /\ step = "typing" /\ name # <<>>
    /\ step' = "sanitizing"
    /\ UNCHANGED <<name, use, read, built, lastHyphen>>
-----------------------------------------------------------------------------
(* sanitizeDNSLabel.                                                       *)

NextRune ==
    /\ step = "sanitizing" /\ read < Len(name)
    /\ read' = read + 1
    /\ UNCHANGED <<name, use, step>>

Copy ==
    /\ NextRune
    /\ name[read + 1] \in Letters
    /\ built' = Append(built, name[read + 1])
    /\ lastHyphen' = FALSE

\* Mutant: what is no letter is replaced wherever it is.
SeparateAlways ==
    /\ NextRune
    /\ name[read + 1] \notin Letters
    /\ built' = Append(built, Hyphen)
    /\ lastHyphen' = TRUE

\* One hyphen for a run of other runes, and none at the start.
Separate ==
    /\ NextRune
    /\ name[read + 1] \notin Letters
    /\ built # <<>> /\ ~lastHyphen
    /\ built' = Append(built, Hyphen)
    /\ lastHyphen' = TRUE

Skip ==
    /\ NextRune
    /\ name[read + 1] \notin Letters
    /\ built = <<>> \/ lastHyphen
    /\ UNCHANGED <<built, lastHyphen>>

EndsInHyphen == built # <<>> /\ built[Len(built)] = Hyphen

\* Trim, and TrimRight after the cut; a hyphen at the start is never built.
DropHyphen ==
    /\ \/ step = "sanitizing" /\ read = Len(name)
       \/ step = "cut"
    /\ EndsInHyphen
    /\ built' = SubSeq(built, 1, Len(built) - 1)
    /\ UNCHANGED <<name, use, read, lastHyphen, step>>

Sanitized ==
    /\ step = "sanitizing" /\ read = Len(name)
    /\ ~EndsInHyphen
    /\ step' = "sanitized"
    /\ UNCHANGED <<name, use, read, built, lastHyphen>>
-----------------------------------------------------------------------------
(* What is made of the sanitised name.                                     *)

Done(result) ==
    /\ built' = result
    /\ step' = "done"
    /\ UNCHANGED <<name, use, read, lastHyphen>>

\* Mutant: the random part comes before the name.
IdBeforeName ==
    /\ step = "sanitized" /\ use = "project"
    /\ Done(ProjectPrefix \o <<Hyphen>> \o Suffix \o <<Hyphen>> \o built)

\* The id of a project is not cut.
ProjectId ==
    /\ step = "sanitized" /\ use = "project"
    /\ Done(ProjectPrefix \o <<Hyphen>> \o built \o <<Hyphen>> \o Suffix)

MaxPrefix == Limit - 1 - Len(Suffix)

Suffixed(prefix) ==
    Done((IF prefix = <<>> THEN Fallback ELSE prefix) \o <<Hyphen>> \o Suffix)

ServiceName ==
    /\ step = "sanitized" /\ use = "service"
    /\ Len(built) <= MaxPrefix
    /\ Suffixed(built)

\* Mutant: the whole name is cut, with its digest.
CutWhole ==
    /\ step = "sanitized" /\ use = "service"
    /\ Len(built) > MaxPrefix
    /\ Done(SubSeq(built \o <<Hyphen>> \o Suffix, 1, Limit))

\* A long name is cut to leave room for the digest.
Cut ==
    /\ step = "sanitized" /\ use = "service"
    /\ Len(built) > MaxPrefix
    /\ built' = SubSeq(built, 1, MaxPrefix)
    /\ step' = "cut"
    /\ UNCHANGED <<name, use, read, lastHyphen>>

CutName ==
    /\ step = "cut" /\ ~EndsInHyphen
    /\ Suffixed(built)

Next ==
    \/ \E c \in Runes : Type(c)
    \/ Submit
    \/ Copy \/ Separate \/ Skip \/ DropHyphen \/ Sanitized
    \/ ProjectId \/ ServiceName \/ Cut \/ CutName

Spec == Init /\ [][Next]_vars
-----------------------------------------------------------------------------
\* What the other services ask of the names of machines, buckets and
\* databases before they use them.
IsDNSLabel(s) ==
    /\ s # <<>> /\ Len(s) <= Limit
    /\ s[1] # Hyphen /\ s[Len(s)] # Hyphen
    /\ \A i \in 1..Len(s) : s[i] \in Letters \cup {Hyphen}

(* Every variable holds a value of its kind.                               *)
TypeOK ==
    /\ name \in Seq(Runes) /\ Len(name) <= MaxTyped
    /\ use \in {"service", "project"}
    /\ read \in 0..Len(name)
    /\ built \in Seq(Letters \cup {Hyphen})
    /\ lastHyphen \in BOOLEAN
    /\ step \in {"typing", "sanitizing", "sanitized", "cut", "done"}

(* Whatever is typed, however long it is and wherever the cut falls, the   *)
(* name of a Knative service is a DNS label that ends in the whole digest, *)
(* by which two names that are cut or sanitised alike are told apart.      *)
ServiceNameIsSafe ==
    step = "done" /\ use = "service" =>
        /\ IsDNSLabel(built)
        /\ SubSeq(built, Len(built) - Len(Suffix), Len(built)) = <<Hyphen>> \o Suffix

(* The id of a project, which is used as the name of its namespace, is a   *)
(* DNS label whatever the runes of its name are, even when none of them is *)
(* a letter, as long as the name is short.  How short, nothing checks.     *)
ShortProjectIdIsSafe ==
    /\ step = "done" /\ use = "project"
    /\ Len(ProjectPrefix) + Len(name) + 2 + Len(Suffix) <= Limit
    => IsDNSLabel(built)
=============================================================================
