----------------------------- MODULE MCComposer -----------------------------
(***************************************************************************)
(* Small instances of Composer.  A published composite's capability is its *)
(* name (composer.py's model_post_init), so capabilities, composite names  *)
(* and step names are strings.                                             *)
(***************************************************************************)
EXTENDS Composer

CONSTANTS r1, r2

MCRuns == {r1, r2}

Step(name, capability, inputs) == [name |-> name, capability |-> capability, inputs |-> inputs]
Composite(steps, output) ==
  [steps |-> steps, output |-> output, required |-> {"f"}, broken |-> FALSE, missing |-> FALSE]

\* Nothing, f, or a dict in f with something in it.
MCShapes == {{}, {<<"f">>}, {<<"f">>, <<"f", "g">>}}

\* greet-report of gateway/composites.py, with one field.
Report == Composite(<<Step("greeting", "greet", {<<"input", "f">>}),
                      Step("stats", "text_stats", {<<"greeting", "f">>})>>,
                    {<<"greeting">>, <<"stats", "f">>})

\* Steps that take the name of the caller's input, and then of each other.
\* The input schema it was posted with is not one.
Shadowing == [Composite(<<Step("input", "text_stats", {<<"input">>}),
                          Step("input", "greet", {<<"input">>, <<"input", "f">>})>>,
                        {<<"input">>}) EXCEPT !.broken = TRUE]

\* A step that looks inside a field, and one that targets the composite
\* "greet-report".
Nested == Composite(<<Step("greeting", "greet", {<<"input", "f", "g">>}),
                      Step("inner", "greet-report", {<<"greeting">>})>>, {<<"inner">>})

\* The composite of a fresh gateway, and one that was published before.
MCBuiltin == <<[name |-> "greet-report", spec |-> Report], [name |-> "nested", spec |-> Nested]>>
MCLibrary == {Report, Shadowing, Nested}

Statement(kind, name, capability, args, ref) ==
  [kind |-> kind, ok |-> TRUE, name |-> name, capability |-> capability, args |-> args, ref |-> ref,
   optional |-> FALSE]
Optional(name) == [Statement("input", name, "", <<>>, <<>>) EXCEPT !.optional = TRUE]
Agent(name) == Statement("agent", name, "", <<>>, <<>>)
Arg(name, ref, ok) == [name |-> name, ref |-> ref, ok |-> ok]

\* An agent that is renamed, declares an input again, as optional, loses an
\* argument and assigns an output twice, and one with a statement parse does
\* not know.
Sloppy == <<Agent("greet-report"), Agent("agent"), Statement("input", "f", "", <<>>, <<>>), Optional("f"),
            Statement("step", "greeting", "greet",
                      <<Arg("name", <<"input", "f">>, TRUE), Arg("tone", <<"stats">>, FALSE)>>, <<>>),
            Statement("step", "stats", "text_stats", <<Arg("text", <<"greeting">>, TRUE)>>, <<>>),
            Statement("output", "o", "", <<>>, <<"stats", "f">>),
            Statement("output", "o", "", <<>>, <<"greeting">>)>>
MCDocuments == {Sloppy, <<Agent("agent"), Statement("other", "", "", <<>>, <<>>)>>}
=============================================================================
