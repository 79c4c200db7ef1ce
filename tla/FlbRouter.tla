------------------------------- MODULE FlbRouter -------------------------------
(***************************************************************************)
(* Instances, their configuration through the library, and the routes from *)
(* inputs to outputs (src/flb_router.c, with the parts of src/flb_lib.c,   *)
(* src/flb_input.c, src/flb_output.c, src/flb_filter.c and src/flb_task.c  *)
(* that create instances, set their tag or match, and read the routes).    *)
(*                                                                         *)
(* An application creates instances and gets a number for each; it sets    *)
(* properties of an instance by that number.  The engine then initialises  *)
(* the instances, computes the routes of inputs with a fixed tag, and      *)
(* matches tags when it creates the tasks of the other inputs and when it  *)
(* runs the filters.  Strings are sequences of characters, and NULL is     *)
(* none of them.  The routes of an input are a set: every one of them is   *)
(* served by a co-routine of its own, whatever its place on the list.      *)
(***************************************************************************)
EXTENDS Integers, Sequences, FiniteSetsExt, Functions

CONSTANTS
  Plugins,     \* input and filter plugins: strings (their names)
  Dynamic,     \* input plugins whose instances have FLB_INPUT_DYN_TAG
  Flagged,     \* those of them registered with it; the others set it in cb_init()
  Tags,        \* tags an application or a dynamic input uses
  Patterns,    \* values of match, besides the empty one
  NULL,
  Prior,       \* bound: numbers of outputs that come before anything else
  MaxInputs, MaxOutputs, MaxFilters,  \* bounds: instances added to those
  MaxSets,     \* bound: properties that are set
  MaxString    \* bound: length of the strings MatchIsCover compares

VARIABLES
  phase,       \* "config", "inputs", "outputs", "filters" (initialised so far),
               \* "running", "down"
  inputs,      \* config->inputs
  outputs,     \* config->outputs
  filters,     \* config->filters
  sets,        \* properties set so far
  meant        \* history: what the application set, by the order of creation

vars == <<phase, inputs, outputs, filters, sets, meant>>

Digits == <<"0", "1", "2", "3">>
Star == "*"

\* The name of an instance: PLUGIN.ID
Name(p, id) == p \o <<".", Digits[id + 1]>>
InputTags == Tags \union {Name(p, id) : p \in Plugins \ Flagged, id \in 0..(MaxInputs - 1)}

\* The values a match can be set to.
Values == Patterns \union {<<>>}

ASSUME RouterAssumption ==
  /\ Dynamic \subseteq Plugins /\ Flagged \subseteq Dynamic
  /\ <<>> \notin Tags \union Patterns
  /\ NULL \notin InputTags \union Values \union {<<Star>>}
  /\ MaxInputs \in 1..4 /\ MaxOutputs \in Nat /\ MaxFilters \in Nat
  /\ MaxSets \in Nat /\ MaxString \in Nat /\ Prior \subseteq Nat
  /\ Tags \subseteq Seq(STRING) /\ Patterns \subseteq Seq(STRING)
  /\ Plugins \subseteq Seq(STRING)
  /\ \A s \in Tags \union Plugins : Star \notin Range(s)

TypeOK ==
  /\ phase \in {"config", "inputs", "outputs", "filters", "running", "down"}
  /\ inputs \in Seq([plugin : Plugins, id : 0..(MaxInputs - 1),
                     tag : InputTags \union {NULL}, routes : SUBSET DOMAIN outputs])
  /\ outputs \in Seq([mask_id : SUBSET (0..63),
                      match : Patterns \union {NULL, <<Star>>}])
  /\ filters \in Seq([plugin : Plugins, id : Nat, match : Values \union {NULL}])
  /\ sets \in 0..MaxSets
-----------------------------------------------------------------------------
(* Matching.                                                               *)

\* The positions of the pointer tag: the last one is that of the '\0'.
Positions(tag) == 1..(Len(tag) + 1)

\* The positions strchr() finds one after the other.
Occurrences(s, c) == {i \in DOMAIN s : s[i] = c}

\* Seeded fault: only the first occurrence of the next character is tried.
StepFirst(tag, match, j, later) ==
  IF match[j] # Star THEN {i \in Occurrences(tag, match[j]) : i + 1 \in later}
  ELSE IF j = Len(match) THEN Positions(tag)
  ELSE IF match[j + 1] = Star THEN later
  ELSE {i \in Positions(tag) :
          LET pos == {n \in Occurrences(tag, match[j + 1]) : n >= i}
          IN  pos # {} /\ Min(pos) \in later}

\* One round of the loop with match at its j-th character: the positions of tag
\* from which it succeeds, where later are those for the next character.  An
\* asterisk is skipped if another one follows, matches everything at the end,
\* and otherwise tries the next character wherever strchr() finds it.
Step(tag, match, j, later) ==
  IF match[j] # Star THEN {i \in Occurrences(tag, match[j]) : i + 1 \in later}
  ELSE IF j = Len(match) THEN Positions(tag)
  ELSE IF match[j + 1] = Star THEN later
  ELSE {i \in Positions(tag) :
          \E pos \in Occurrences(tag, match[j + 1]) : pos >= i /\ pos \in later}

\* flb_router_match(): both strings must end together.
flb_router_match(tag, match) ==
  LET from[j \in 1..(Len(match) + 1)] ==
        IF j = Len(match) + 1 THEN {Len(tag) + 1}
        ELSE Step(tag, match, j, from[j + 1])
  IN  1 \in from[1]
-----------------------------------------------------------------------------
(* Instances and their properties.                                         *)

\* Seeded fault: ids are not counted up.
SameId(list, p) == 0

\* instance_id(): how many instances of the plugin there are.
instance_id(list, p) == Cardinality({i \in DOMAIN list : list[i].plugin = p})

\* Seeded fault: the mask is taken from the first instance.
MaskOfFirst(list) ==
  IF list = <<>> THEN {0} ELSE {i + 1 : i \in list[1].mask_id}

\* flb_output_new(): the mask of a new output, as a set of bits.  The last mask
\* is kept in an int and doubled there; the result is extended to 64 bits.
NextMask(list) ==
  LET int     == IF list = <<>> THEN {} ELSE list[Len(list)].mask_id \intersect 0..31
      doubled == {i + 1 : i \in int} \intersect 0..31
  IN  IF int = {} THEN {0}
      ELSE doubled \union (IF 31 \in doubled THEN 32..63 ELSE {})

AddOutput(list) == Append(list, [mask_id |-> NextMask(list), match |-> NULL])

Init ==
  /\ phase = "config" /\ inputs = <<>> /\ outputs = <<>> /\ filters = <<>> /\ sets = 0
  /\ meant = [inputs |-> <<>>, outputs |-> <<>>, filters |-> <<>>]

\* Bound: outputs come first, until their number is one of Prior; MaxOutputs
\* may be added to those at any time.
OutputsFirst == \E n \in Prior : /\ Len(outputs) < n
                                /\ inputs = <<>> /\ filters = <<>> /\ sets = 0
Within(max)  == \E n \in Prior : Len(outputs) \in n..(n + max)

\* flb_input()
flb_input(p) ==
  /\ phase = "config" /\ Len(inputs) < MaxInputs /\ Within(MaxOutputs)
  /\ inputs' = Append(inputs, [plugin |-> p, id |-> instance_id(inputs, p),
                               tag |-> NULL, routes |-> {}])
  /\ meant' = [meant EXCEPT !.inputs = Append(@, NULL)]
  /\ UNCHANGED <<phase, outputs, filters, sets>>

\* flb_output()
flb_output ==
  /\ phase = "config" /\ (OutputsFirst \/ Within(MaxOutputs - 1))
  /\ outputs' = AddOutput(outputs)
  /\ meant' = [meant EXCEPT !.outputs = Append(@, NULL)]
  /\ UNCHANGED <<phase, inputs, filters, sets>>

\* flb_filter()
flb_filter(p) ==
  /\ phase = "config" /\ Len(filters) < MaxFilters /\ Within(MaxOutputs)
  /\ filters' = Append(filters, [plugin |-> p, id |-> instance_id(filters, p),
                                 match |-> NULL])
  /\ meant' = [meant EXCEPT !.filters = Append(@, NULL)]
  /\ UNCHANGED <<phase, inputs, outputs, sets>>

\* An instance is known by the number its creation returned; the search takes
\* the first one that has it.
in_instance_get(ffd)     == Min({i \in DOMAIN inputs : inputs[i].id = ffd})
out_instance_get(ffd)    == Min({o \in DOMAIN outputs : outputs[o].mask_id = ffd})
filter_instance_get(ffd) == Min({f \in DOMAIN filters : filters[f].id = ffd})

SetOne ==
  phase = "config" /\ Within(MaxOutputs) /\ sets < MaxSets /\ sets' = sets + 1

\* flb_input_set(): the tag of the k-th input, known by its id.  (An empty value
\* would not change it.)
flb_input_set(k, tag) ==
  /\ SetOne
  /\ inputs' = [inputs EXCEPT ![in_instance_get(inputs[k].id)].tag = tag]
  /\ meant' = [meant EXCEPT !.inputs[k] = tag]
  /\ UNCHANGED <<phase, outputs, filters>>

\* flb_output_set_property(): an empty value is replaced by NULL.
OutputValue(match) == IF match = <<>> THEN NULL ELSE match

\* flb_output_set(): the match of the k-th output, known by its mask_id.
flb_output_set(k, match) ==
  /\ SetOne
  /\ LET o == out_instance_get(outputs[k].mask_id) IN
     outputs' = [outputs EXCEPT ![o].match = OutputValue(match)]
  /\ meant' = [meant EXCEPT !.outputs[k] = OutputValue(match)]
  /\ UNCHANGED <<phase, inputs, filters>>

\* flb_filter_set(): the match of the k-th filter, known by its id.  An empty
\* value is stored as it is.
flb_filter_set(k, match) ==
  /\ SetOne
  /\ filters' = [filters EXCEPT ![filter_instance_get(filters[k].id)].match = match]
  /\ meant' = [meant EXCEPT !.filters[k] = match]
  /\ UNCHANGED <<phase, inputs, outputs>>
-----------------------------------------------------------------------------
(* flb_engine_start(), flb_engine_shutdown().                              *)

\* What can be left of a list whose elements may go: the n that stay keep
\* their order.
Remainders(list) ==
  UNION {{[i \in 1..n |-> list[order[i]]] :
            order \in {f \in [1..n -> DOMAIN list] :
                         \A i, j \in 1..n : i < j => f[i] < f[j]}} :
         n \in 0..Len(list)}

\* flb_input_initialize_all(): an input without a tag gets its name; one whose
\* cb_init() fails goes.
flb_input_initialize_all ==
  /\ phase = "config" /\ phase' = "inputs"
  /\ LET tagged == [i \in DOMAIN inputs |->
           IF inputs[i].tag = NULL /\ inputs[i].plugin \notin Flagged
           THEN [inputs[i] EXCEPT !.tag = Name(inputs[i].plugin, inputs[i].id)]
           ELSE inputs[i]]
     IN  inputs' \in Remainders(tagged)
  /\ UNCHANGED <<outputs, filters, sets, meant>>

\* flb_output_init(): without outputs, or if one cannot be initialised, the
\* engine does not start; flb_lib_worker() then calls flb_engine_shutdown().
flb_output_init ==
  /\ phase = "inputs"
  /\ phase' \in IF outputs = <<>> THEN {"down"} ELSE {"outputs", "down"}
  /\ IF phase' = "down" THEN inputs' = <<>> /\ outputs' = <<>> /\ filters' = <<>>
                        ELSE UNCHANGED <<inputs, outputs, filters>>
  /\ UNCHANGED <<sets, meant>>

\* Seeded fault: a filter without match is not unloaded.
LoadAll(f) == TRUE

\* A filter without match is unloaded.
Loadable(f) == f.match # NULL

\* flb_filter_initialize_all(): so is one whose cb_init() fails.
flb_filter_initialize_all ==
  /\ phase = "outputs" /\ phase' = "filters"
  /\ filters' \in Remainders(filters) /\ \A f \in Range(filters') : Loadable(f)
  /\ UNCHANGED <<inputs, outputs, sets, meant>>

\* Seeded fault: an output without match ends the search.
ConnectUntilNull(i) ==
  LET end == Min({o \in DOMAIN outputs : outputs[o].match = NULL}
                 \union {Len(outputs) + 1})
  IN  [i EXCEPT !.routes =
         {o \in 1..(end - 1) : i.plugin \notin Dynamic /\ i.tag # NULL
                               /\ flb_router_match(i.tag, outputs[o].match)}]

\* flb_router_connect() for every output that matches the tag of input i.
Connect(i) ==
  [i EXCEPT !.routes =
     {o \in DOMAIN outputs : /\ i.plugin \notin Dynamic /\ i.tag # NULL
                             /\ outputs[o].match # NULL
                             /\ flb_router_match(i.tag, outputs[o].match)}]

\* Seeded fault: the path of the default rule names no output.
DefaultPathZero ==
  /\ inputs' = [inputs EXCEPT ![1].routes = {0}]
  /\ outputs' = [outputs EXCEPT ![1].match = <<Star>>]

\* One input, one output, no match: everything goes to the output.
DefaultRule ==
  /\ inputs' = [inputs EXCEPT ![1].routes = {1}]
  /\ outputs' = [outputs EXCEPT ![1].match = <<Star>>]

\* flb_router_io_set()
flb_router_io_set ==
  /\ phase = "filters" /\ phase' = "running"
  /\ IF Len(inputs) = 1 /\ Len(outputs) = 1 /\ outputs[1].match = NULL
     THEN DefaultRule
     ELSE /\ inputs' = [i \in DOMAIN inputs |-> Connect(inputs[i])]
          /\ UNCHANGED outputs
  /\ UNCHANGED <<filters, sets, meant>>

\* flb_engine_shutdown(): flb_router_exit() frees the routes before the
\* instances are freed.
flb_engine_shutdown ==
  /\ phase = "running" /\ phase' = "down"
  /\ inputs' = <<>> /\ outputs' = <<>> /\ filters' = <<>>
  /\ UNCHANGED <<sets, meant>>

\* Bound: the outputs whose match is set.
Latest == {k \in DOMAIN outputs : k > Len(outputs) - MaxOutputs}

Next ==
  \/ \E p \in Plugins : flb_input(p) \/ flb_filter(p)
  \/ flb_output
  \/ \E k \in DOMAIN inputs, t \in Tags : flb_input_set(k, t)
  \/ \E k \in Latest, m \in Values : flb_output_set(k, m)
  \/ \E k \in DOMAIN filters, m \in Values : flb_filter_set(k, m)
  \/ flb_input_initialize_all \/ flb_output_init \/ flb_filter_initialize_all
  \/ flb_router_io_set \/ flb_engine_shutdown

Spec == Init /\ [][Next]_vars
-----------------------------------------------------------------------------
(* Readers of the routes.                                                  *)

\* flb_task_create(): the outputs of a task of input i whose records have tag t.
TaskRoutes(i, t) ==
  IF i.plugin \in Dynamic
  THEN {o \in DOMAIN outputs : /\ outputs[o].match # NULL
                               /\ flb_router_match(t, outputs[o].match)}
  ELSE i.routes

\* flb_task_create(): routes_mask, which a buffered chunk is stored with.
RoutesMask(routes) == UNION {outputs[o].mask_id : o \in routes}

\* flb_task_create_direct(): the outputs of a chunk with that mask.
DirectRoutes(mask) == {o \in DOMAIN outputs : outputs[o].mask_id \intersect mask # {}}

\* flb_filter_do(): the filters that see records with tag t.
FiltersFor(t) == {f \in DOMAIN filters : flb_router_match(t, filters[f].match)}

\* The tags records of input i may have: a dynamic input uses its own, if it
\* has one, and others.
TagsOf(i) == ({i.tag} \ {NULL}) \union (IF i.plugin \in Dynamic THEN Tags ELSE {})
-----------------------------------------------------------------------------
(* Properties.                                                             *)

\* What a pattern means, as a cut of the tag into one piece per character of
\* the pattern: an asterisk stands for any piece, another character for itself.
Covers(tag, match) ==
  \E cut \in [0..Len(match) -> 0..Len(tag)] :
    /\ cut[0] = 0 /\ cut[Len(match)] = Len(tag)
    /\ \A j \in DOMAIN match :
         IF match[j] = Star THEN cut[j - 1] =< cut[j]
         ELSE cut[j] = cut[j - 1] + 1 /\ tag[cut[j]] = match[j]

\* Strings of at most n characters.
Strings(chars, n) == UNION {[1..k -> chars] : k \in 0..n}

\* flb_router_match() decides that, for all short strings: the search restarts
\* at every occurrence and neither misses a cut nor runs past an end.  (Asked
\* once, in the state without instances.)
MatchIsCover ==
  phase = "config" /\ inputs = <<>> /\ outputs = <<>> /\ filters = <<>> =>
    \A tag \in Strings({"a", "b"}, MaxString), match \in Strings({"a", "b", Star}, MaxString) :
      flb_router_match(tag, match) <=> Covers(tag, match)

Covered == [s \in InputTags \X (Values \union {<<Star>>}) |-> Covers(s[1], s[2])]

\* Once the engine runs, the records of every input, be its routes computed at
\* the start or for every task, go to exactly the outputs whose match covers
\* the tag; an output without match gets nothing, unless it is the only one
\* and there is a single input.
RoutesFollowMatch ==
  phase = "running" =>
    \A i \in Range(inputs) : \A t \in TagsOf(i) :
      TaskRoutes(i, t) =
        {o \in DOMAIN outputs : outputs[o].match # NULL /\ Covered[<<t, outputs[o].match>>]}

\* flb_filter_do() hands the match of every filter to flb_router_match(): when
\* records arrive each filter has one, and exactly those that cover the tag run.
FiltersFollowMatch ==
  phase = "running" =>
    \A f \in DOMAIN filters :
      /\ filters[f].match # NULL
      /\ \A t \in Tags : f \in FiltersFor(t) <=> Covered[<<t, filters[f].match>>]

\* The mask a chunk is stored with names exactly the outputs of its task: "an
\* unique number assigned to this output instance" (src/flb_output.c, 234).
\* The masks last for 32 outputs; the 33rd has none and the 34th is the first
\* one again, for they are doubled in an int.
MaskNamesRoutes ==
  phase = "running" /\ Len(outputs) <= 32 =>
    \A i \in Range(inputs) : \A t \in TagsOf(i) :
      DirectRoutes(RoutesMask(TaskRoutes(i, t))) = TaskRoutes(i, t)

\* A number reaches the instance it was given for: always for outputs (up to
\* 32), for inputs and filters as long as all are of one plugin.  The ids
\* of inputs and filters count the instances of their plugin only.
SetsReachInstance ==
  phase = "config" =>
    /\ Len(outputs) <= 32 =>
         \A o \in DOMAIN outputs : outputs[o].match = meant.outputs[o]
    /\ \A i \in DOMAIN inputs :
         (\A j \in DOMAIN inputs : inputs[j].plugin = inputs[1].plugin)
           => inputs[i].tag = meant.inputs[i]
    /\ \A f \in DOMAIN filters :
         (\A j \in DOMAIN filters : filters[j].plugin = filters[1].plugin)
           => filters[f].match = meant.filters[f]
=============================================================================
