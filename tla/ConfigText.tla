------------------------------ MODULE ConfigText ------------------------------
(* The text of the configuration xo.scm: what a load reads of it, what it adds, and what  *)
(* it writes back (xo-core/src/steel_runtime.rs, behavior.rs, xo/src/session.rs).        *)
(*                                                                                       *)
(* A text is nested forms: identifiers, strings and lists.  Characters, escapes, comments *)
(* and layout are left out, and the list that groups a Steel plugin's capabilities is    *)
(* flattened.  Numbers and field names are words.                                        *)
EXTENDS Naturals, Sequences, SequencesExt, FiniteSets

CONSTANTS
    PersonTexts,    \* texts a person may have saved
    LocalActions,   \* actions of local plugins, with their grants
    Numerals,       \* the words that are numbers
    QueryLimits,    \* those for 1 .. DEFAULT_QUERY_LIMIT
    DefaultLimit    \* DEFAULT_QUERY_LIMIT

ASSUME ConfigTextAssumption == DefaultLimit \in QueryLimits /\ QueryLimits \subseteq Numerals

VARIABLES
    xoText,   \* the configuration: no text, or one
    wrote     \* the behaviour shown by the load that wrote it, if a load did

textVars == <<xoText, wrote>>

-----------------------------------------------------------------------------
(* Forms *)

Identifier(word) == [kind |-> "identifier", word |-> word, of |-> <<>>]
Quoted(word) == [kind |-> "string", word |-> word, of |-> <<>>]
Call(name, args) == [kind |-> "list", word |-> "", of |-> <<Identifier(name)>> \o args]

IsCall(form) == form.kind = "list" /\ form.of # <<>> /\ form.of[1].kind = "identifier"
NameOf(form) == form.of[1].word
ArgsOf(form) == Tail(form.of)

Mapped(Op(_), s) == [n \in 1 .. Len(s) |-> Op(s[n])]
\* A BTreeMap or BTreeSet lists its members in one order.
Ordered(s) == SetToSeq(ToSet(s))
Distinct(s) == Cardinality(ToSet(s)) = Len(s)

-----------------------------------------------------------------------------
(* Terms: what has a constructor and arguments by position.  A term is its constructor,   *)
(* its words and the terms in it.                                                        *)

Term(op, words, of) == [op |-> op, words |-> words, of |-> of]

\* A constructor: how many words, of which kind, and how many terms of a sort (2: any).
Sig(op, words, kind, count, sort) ==
    [op |-> op, words |-> words, kind |-> kind, count |-> count, sort |-> sort]
Several == 2

PredicateSigs == {
    Sig("always", 0, "string", 0, "predicate"), Sig("field-equals", 2, "string", 0, "predicate"),
    Sig("has-tag", 1, "string", 0, "predicate"), Sig("not", 0, "string", 1, "predicate"),
    Sig("all", 0, "string", Several, "predicate"), Sig("any", 0, "string", Several, "predicate")}

\* (now) in place of the value of set-field makes it set-field-now.
EffectSigs == {
    Sig("add-tag", 1, "string", 0, "value"), Sig("remove-tag", 1, "string", 0, "value"),
    Sig("set-field", 1, "string", 1, "value"), Sig("set-field-now", 1, "string", 0, "value"),
    Sig("append-body", 1, "string", 0, "value")}

ValueSigs == {
    Sig("null", 0, "string", 0, "value"), Sig("bool", 1, "identifier", 0, "value"),
    Sig("integer", 1, "identifier", 0, "value"), Sig("float", 1, "identifier", 0, "value"),
    Sig("string", 1, "string", 0, "value"), Sig("sequence", 0, "string", Several, "value"),
    Sig("mapping", 0, "string", Several, "entry")}

EntrySigs == {Sig("entry", 1, "string", 1, "value")}

PluginSigs == {
    Sig("capture-url", 0, "string", 0, "capability"), Sig("tag-picker", 0, "string", 0, "capability"),
    Sig("steel", 3, "string", Several, "capability")}

CapabilitySigs ==
    {Sig(c, 0, "string", 0, "capability") :
        c \in {"create-note", "mutate-note", "network", "read-secret"}}

Sigs(sort) ==
    CASE sort = "predicate" -> PredicateSigs [] sort = "effect" -> EffectSigs
      [] sort = "value" -> ValueSigs [] sort = "entry" -> EntrySigs
      [] sort = "plugin" -> PluginSigs [] sort = "capability" -> CapabilitySigs

\* Numbers and booleans are identifiers of their own.
WordLegible(op, word) ==
    CASE op = "bool" -> word \in {"#t", "#f"} [] op \in {"integer", "float"} -> word \in Numerals
      [] OTHER -> TRUE

-----------------------------------------------------------------------------
(* Descriptors: what has fields by name.  A field has a way to be read and a default.    *)

Field(name, by, default, sort) == [name |-> name, by |-> by, default |-> default, sort |-> sort]
Required(name) == Field(name, "required", "", "")
Words(name, default) == Field(name, "words", default, "")
Nullable(name) == Field(name, "nullable", "", "")
Flag(name) == Field(name, "flag", "", "")
Number(name, default) == Field(name, "number", default, "")
Condition == Field("predicate", "predicate", "", "predicate")
Optional(name, sort) == Field(name, "optional", "", sort)
Many(name, sort) == Field(name, "many", "", sort)
SetOf(name, sort, default) == Field(name, "set", default, sort)

ViewFields == <<
    Required("id"), Words("name", ""), Nullable("key"), Flag("show_tags"),
    Words("title_field", "title"), Nullable("subtitle_field"), Nullable("sort_field"),
    Flag("descending"), Nullable("preview"), Condition, Many("subviews", "subview")>>

SubviewFields == <<Required("id"), Words("name", ""), Nullable("sort_field"), Condition>>

ActionFields == <<
    Required("id"), Words("description", ""), Condition, Many("effects", "effect"),
    Optional("plugin", "plugin")>>

TemplateFields == <<Required("id"), Required("path"), Required("content")>>

GrantFields == <<Required("action"), SetOf("capabilities", "capability", "required")>>

ConfigFields == <<
    Number("schema", "required"), Words("default_view", "all"),
    Number("query_limit", DefaultLimit), Many("views", "view"), Many("actions", "action"),
    Many("templates", "template"), SetOf("capability_grants", "grant", "")>>

Descriptors == {"view", "subview", "action", "template", "grant", "workspace-config"}
FieldsOf(sort) ==
    CASE sort = "view" -> ViewFields [] sort = "subview" -> SubviewFields
      [] sort = "action" -> ActionFields [] sort = "template" -> TemplateFields
      [] sort = "grant" -> GrantFields [] sort = "workspace-config" -> ConfigFields
FieldNames(sort) == {how.name : how \in ToSet(FieldsOf(sort))}

-----------------------------------------------------------------------------
(* Reading *)

\* native_fields: the arguments of a field, if it is given.
Given(form, field) ==
    LET at == {n \in 1 .. Len(ArgsOf(form)) : NameOf(ArgsOf(form)[n]) = field}
    IN  {ArgsOf(ArgsOf(form)[n]) : n \in at}

IsNow(form) == IsCall(form) /\ NameOf(form) = "now" /\ ArgsOf(form) = <<>>

\* The constructor a form of a sort is read with: none, or one.
SigOf(form, sort) ==
    IF sort = "capability"
    THEN {s \in CapabilitySigs : form.kind = "identifier" /\ form.word = s.op}
    ELSE IF ~IsCall(form) THEN {}
    ELSE IF sort = "effect" /\ NameOf(form) = "set-field" /\ Len(form.of) = 3 /\ IsNow(form.of[3])
    THEN {s \in EffectSigs : s.op = "set-field-now"}
    ELSE {s \in Sigs(sort) :
            /\ s.op = NameOf(form) /\ s.op # "set-field-now"
            /\ IF s.count = Several THEN Len(ArgsOf(form)) >= s.words
               ELSE Len(ArgsOf(form)) = s.words + s.count}

WordsOf(form, sig) == SubSeq(ArgsOf(form), 1, sig.words)
TermsOf(form, sig) ==
    IF sig.count = 0 THEN <<>> ELSE SubSeq(ArgsOf(form), sig.words + 1, Len(ArgsOf(form)))

RECURSIVE Legible(_, _), Meaning(_, _)

FieldLegible(how, args) ==
    CASE how.by \in {"required", "words"} -> Len(args) = 1 /\ args[1].kind = "string"
      [] how.by = "nullable" ->
            Len(args) = 1 /\ (args[1].kind = "string" \/ args[1] = Identifier("#f"))
      [] how.by = "flag" -> Len(args) = 1 /\ args[1] \in {Identifier("#t"), Identifier("#f")}
      [] how.by = "number" ->
            Len(args) = 1 /\ args[1].kind = "identifier" /\ args[1].word \in Numerals
      [] how.by \in {"predicate", "optional"} -> Len(args) = 1 /\ Legible(args[1], how.sort)
      [] how.by \in {"many", "set"} -> \A n \in 1 .. Len(args) : Legible(args[n], how.sort)

\* A form is read: fields are known, given once, and there if they must be; a grant names
\* an action once, a mapping a key.
Legible(form, sort) ==
    IF sort \in Descriptors
    THEN /\ IsCall(form) /\ NameOf(form) = sort
         /\ \A n \in 1 .. Len(ArgsOf(form)) :
               IsCall(ArgsOf(form)[n]) /\ NameOf(ArgsOf(form)[n]) \in FieldNames(sort)
         /\ Distinct(Mapped(NameOf, ArgsOf(form)))
         /\ \A how \in ToSet(FieldsOf(sort)) :
               /\ Given(form, how.name) = {} => "required" \notin {how.by, how.default}
               /\ \A args \in Given(form, how.name) :
                     /\ FieldLegible(how, args)
                     /\ how.sort = "grant" =>
                           Distinct([n \in 1 .. Len(args) |-> Meaning(args[n], "grant").action])
    ELSE \E s \in SigOf(form, sort) :
            /\ \A n \in 1 .. s.words : /\ ArgsOf(form)[n].kind = s.kind
                                       /\ WordLegible(s.op, ArgsOf(form)[n].word)
            /\ LET in == TermsOf(form, s) IN
                  /\ \A n \in 1 .. Len(in) : Legible(in[n], s.sort)
                  /\ s.op = "mapping" => Distinct([n \in 1 .. Len(in) |-> in[n].of[2].word])

FieldMeaning(how, args) ==
    CASE how.by \in {"required", "words", "number"} -> args[1].word
      [] how.by = "nullable" -> IF args[1].kind = "string" THEN <<args[1].word>> ELSE <<>>
      [] how.by = "flag" -> args[1].word = "#t"
      [] how.by = "predicate" -> Meaning(args[1], how.sort)
      [] how.by = "optional" -> <<Meaning(args[1], how.sort)>>
      [] how.by = "many" -> [n \in 1 .. Len(args) |-> Meaning(args[n], how.sort)]
      [] how.by = "set" -> Ordered([n \in 1 .. Len(args) |-> Meaning(args[n], how.sort)])

Default(how) ==
    CASE how.by \in {"words", "number"} -> how.default
      [] how.by \in {"nullable", "optional", "many", "set"} -> <<>>
      [] how.by = "flag" -> FALSE
      [] how.by = "predicate" -> Term("always", <<>>, <<>>)

\* What a form that is read means.
Meaning(form, sort) ==
    IF sort \in Descriptors
    THEN [f \in FieldNames(sort) |->
            LET how == CHOOSE how \in ToSet(FieldsOf(sort)) : how.name = f
            IN  IF Given(form, f) = {} THEN Default(how)
                ELSE FieldMeaning(how, CHOOSE args \in Given(form, f) : TRUE)]
    ELSE IF sort = "capability" THEN Term(form.word, <<>>, <<>>)
    ELSE LET s == CHOOSE s \in SigOf(form, sort) : TRUE
             words == WordsOf(form, s)
             in == TermsOf(form, s)
             of == [n \in 1 .. Len(in) |-> Meaning(in[n], s.sort)]
         IN  Term(s.op, [n \in 1 .. Len(words) |-> words[n].word],
                  IF s.op \in {"mapping", "steel"} THEN Ordered(of) ELSE of)

-----------------------------------------------------------------------------
(* Writing *)

RECURSIVE Written(_, _), TermWritten(_, _)

\* An option that is not there is written as an empty string.
FieldWritten_Blank(how, value) ==
    CASE how.by \in {"required", "words"} -> <<Quoted(value)>>
      [] how.by = "number" -> <<Identifier(value)>>
      [] how.by = "nullable" -> IF value = <<>> THEN <<Quoted("")>> ELSE <<Quoted(value[1])>>
      [] how.by = "flag" -> <<Identifier(IF value THEN "#t" ELSE "#f")>>
      [] how.by = "predicate" -> <<Written(value, how.sort)>>
      [] how.by \in {"optional", "many", "set"} ->
            [n \in 1 .. Len(value) |-> Written(value[n], how.sort)]

FieldWritten(how, value) ==
    CASE how.by \in {"required", "words"} -> <<Quoted(value)>>
      [] how.by = "number" -> <<Identifier(value)>>
      [] how.by = "nullable" -> IF value = <<>> THEN <<Identifier("#f")>> ELSE <<Quoted(value[1])>>
      [] how.by = "flag" -> <<Identifier(IF value THEN "#t" ELSE "#f")>>
      [] how.by = "predicate" -> <<Written(value, how.sort)>>
      [] how.by \in {"optional", "many", "set"} ->
            [n \in 1 .. Len(value) |-> Written(value[n], how.sort)]

\* encode_view, encode_action and the others: every field but a plugin that is not there.
FieldsWritten(value, sort) ==
    LET there == SelectSeq(FieldsOf(sort),
                           LAMBDA how : how.by = "optional" => value[how.name] # <<>>)
    IN  Mapped(LAMBDA how : Call(how.name, FieldWritten(how, value[how.name])), there)

Written(value, sort) ==
    IF sort \in Descriptors THEN Call(sort, FieldsWritten(value, sort))
    ELSE TermWritten(value, sort)

\* encode_plugin, encode_predicate, encode_effect and encode_frontmatter_value.
TermWritten(value, sort) ==
    IF sort = "capability" THEN Identifier(value.op)
    ELSE LET s == CHOOSE s \in Sigs(sort) : s.op = value.op
             words == [n \in 1 .. s.words |->
                         IF s.kind = "string" THEN Quoted(value.words[n])
                         ELSE Identifier(value.words[n])]
             of == [n \in 1 .. Len(value.of) |-> Written(value.of[n], s.sort)]
         IN  IF s.op = "set-field-now" THEN Call("set-field", words \o <<Call("now", <<>>)>>)
             ELSE Call(s.op, words \o of)

-----------------------------------------------------------------------------
(* The behaviour of a session *)

\* unique: ids are there and differ.
UniqueIds(descriptors) ==
    LET ids == [n \in 1 .. Len(descriptors) |-> descriptors[n].id]
    IN  Distinct(ids) /\ "" \notin ToSet(ids)

\* validate.
BehaviorValid(b) ==
    /\ b.schema = "1" /\ b.query_limit \in QueryLimits
    /\ UniqueIds(b.views) /\ UniqueIds(b.actions) /\ UniqueIds(b.templates)
    /\ \A v \in ToSet(b.views) : UniqueIds(v.subviews)
    /\ b.default_view = "all" \/ b.default_view \in {v.id : v \in ToSet(b.views)}

TextValid(form) ==
    Legible(form, "workspace-config") /\ BehaviorValid(Meaning(form, "workspace-config"))

\* WorkspaceBehavior::default, but for the schema what a text without fields means.
NoBehavior == [Meaning(Call("workspace-config", <<>>), "workspace-config") EXCEPT !.schema = "1"]

DefaultView(id, name, key, subtitle, predicate) ==
    [id |-> id, name |-> name, key |-> <<key>>, show_tags |-> TRUE, title_field |-> "title",
     subtitle_field |-> subtitle, sort_field |-> <<"created">>, descending |-> TRUE,
     preview |-> <<>>, predicate |-> predicate, subviews |-> <<>>]

\* default_views, where a behaviour has none.
WithViews(b) ==
    IF b.views # <<>> THEN b
    ELSE [b EXCEPT !.default_view = "notes",
             !.views = <<DefaultView("notes", "Notes", "n", <<>>,
                                     Term("field-equals", <<"type", "note">>, <<>>)),
                         DefaultView("all", "All", "0", <<"type">>, Term("always", <<>>, <<>>))>>]

\* An action and its capabilities, which replace those granted to the same name.
WithAction(b, action, capabilities) ==
    [b EXCEPT !.actions = Append(@, action),
        !.capability_grants = Ordered(SelectSeq(@, LAMBDA g : g.action # action.id)
            \o <<[action |-> action.id, capabilities |-> Ordered(capabilities)]>>)]

\* merge_plugin, of the local plugins in one order.
WithPlugins(b, plugins) ==
    FoldLeft(LAMBDA a, p : WithAction(a, p.action, p.capabilities), b, SetToSeq(plugins))

CaptureUrl ==
    [id |-> "capture-url", description |-> "Capture", effects |-> <<>>,
     predicate |-> Term("always", <<>>, <<>>), plugin |-> <<Term("capture-url", <<>>, <<>>)>>]

\* What behavior loads with the plugins: the text, or the built-in views if there is no
\* text and there are plugins.
Loaded(text, plugins) ==
    IF text = {} /\ plugins # {} THEN {Written(WithViews(NoBehavior), "workspace-config")}
    ELSE text

\* load_with_plugins: names are unique before and after the plugins' actions are added.
ShowsText(text, plugins) ==
    \A form \in Loaded(text, plugins) :
        /\ TextValid(form)
        /\ BehaviorValid(WithPlugins(Meaning(form, "workspace-config"), plugins))

\* behavior: what is shown of a configuration; without one, also the capture of URLs.
Shown(text, plugins) ==
    LET b == IF Loaded(text, plugins) = {} THEN WithViews(NoBehavior)
             ELSE WithViews(WithPlugins(
                    Meaning(CHOOSE form \in Loaded(text, plugins) : TRUE, "workspace-config"),
                    plugins))
    IN  IF text # {} \/ "capture-url" \in {a.id : a \in ToSet(b.actions)} THEN b
        ELSE WithAction(b, CaptureUrl,
                <<Term("create-note", <<>>, <<>>), Term("network", <<>>, <<>>)>>)

\* persisted_behavior: without the actions that run a Steel program or the tag picker, the
\* person's own ones included, and without what is granted to them.
Shared(b) ==
    LET kept == SelectSeq(b.actions, LAMBDA a :
                    \A p \in ToSet(a.plugin) : p.op \notin {"steel", "tag-picker"})
    IN  [b EXCEPT !.actions = kept,
            !.capability_grants = SelectSeq(@, LAMBDA g :
                \E n \in 1 .. Len(kept) : kept[n].id = g.action)]

\* A load at a client with these plugins; what it had to add it writes.
LoadText(plugins) ==
    /\ wrote = {} /\ ShowsText(xoText, plugins)
    /\ \A form \in xoText : Meaning(form, "workspace-config").views = <<>>
    /\ wrote' = {Shown(xoText, plugins)}
    /\ xoText' = {Written(Shared(Shown(xoText, plugins)), "workspace-config")}

ConfigTextInit ==
    /\ xoText \in {{}} \cup {{form} : form \in PersonTexts}
    /\ wrote = {}

ConfigTextNext == \E plugins \in SUBSET LocalActions : LoadText(plugins)

ConfigTextSpec == ConfigTextInit /\ [][ConfigTextNext]_textVars

-----------------------------------------------------------------------------
(* Properties *)

\* What a load writes, every client without plugins reads, and as what was shown by the
\* client that wrote it, but for the actions that run a Steel program or the tag picker:
\* no field of a view, action, effect, value, template or grant is lost, whatever was left
\* out in the text a person saved (steel_runtime.rs:441-879, 1151-1378, session.rs:284-311).
WrittenTextKeeps ==
    \A b \in wrote, form \in xoText :
        /\ TextValid(form)
        /\ Shown({form}, {}) = Shared(b)
=============================================================================
