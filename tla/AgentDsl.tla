------------------------------ MODULE AgentDsl ------------------------------
(***************************************************************************)
(* gateway/agentdsl.py's parse: an agent document compiled into a          *)
(* composite.  A document is the sequence of its statements, comments and  *)
(* blank lines left out.  A statement has the kind its first word gives it *)
(* ("other" when parse knows none), whether it is well formed, and what it *)
(* declares; an argument of a step is a name, a reference and whether it   *)
(* reads "name: reference".  Types, descriptions and vendor pins are not   *)
(* told apart.  The client stubs codegen writes for it are given by what   *)
(* they make of the gateway's answer.                                      *)
(***************************************************************************)
EXTENDS Integers, Sequences, FiniteSets

Lines(doc, kind) == {i \in DOMAIN doc : doc[i].kind = kind}

\* The last of the entries of s, numbered by is.
LastOf(s, is) == s[CHOOSE i \in is : \A j \in is : j <= i]

\* Dictionaries: the last reference written for every name.
Assigned(s, is) == {LastOf(s, {j \in is : s[j].name = s[i].name}).ref : i \in is}

\* Text between the parentheses that is not an argument is skipped.
Inputs(args) == Assigned(args, {i \in DOMAIN args : args[i].ok})

\* The k-th of the entries of s numbered by is.
NthOf(s, is, k) == s[CHOOSE i \in is : Cardinality({j \in is : j <= i}) = k]

Steps(doc) ==
  [k \in 1 .. Cardinality(Lines(doc, "step")) |->
     LET st == NthOf(doc, Lines(doc, "step"), k)
     IN  [name |-> st.name, capability |-> st.capability, inputs |-> Inputs(st.args)]]

\* Otherwise there are errors, and no composite.
Parses(doc) ==
  /\ \A i \in DOMAIN doc : doc[i].kind # "other" /\ doc[i].ok
  /\ Lines(doc, "agent") # {} /\ Lines(doc, "step") # {}

AgentName(doc) == LastOf(doc, Lines(doc, "agent")).name

\* Inputs declared without "?".  Declaring one again as optional does not
\* take it off the list.
Required(doc) == {doc[i].name : i \in {j \in Lines(doc, "input") : ~doc[j].optional}}

Compiled(doc) ==
  [steps |-> Steps(doc), output |-> Assigned(doc, Lines(doc, "output")),
   required |-> Required(doc), broken |-> FALSE, missing |-> FALSE]

-----------------------------------------------------------------------------
(* codegen: a client per language that invokes the composite by its name.  *)
(* The sixth language, proto, only declares the messages.                  *)

Clients == {"js", "ts", "go", "rust", "java"}

ChecksStatus(lang) == lang \in {"js", "ts"}

\* Defect: the templates forget the error the gateway reports as data.
ClientSeesStatus(lang, reply) ==
  IF (ChecksStatus(lang) /\ reply.status # 200) \/ ~reply.json THEN "error" ELSE reply.output

\* Every client decodes the answer and raises the error in it; Go, Rust and
\* Java do not look at the HTTP status, and return what is not there.
ClientSees(lang, reply) ==
  IF (ChecksStatus(lang) /\ reply.status # 200) \/ ~reply.json \/ reply.error THEN "error"
  ELSE reply.output
=============================================================================
