---------------------------- MODULE Descriptions ----------------------------
(* Thing Descriptions as data: the defaults and checks of the parser, the    *)
(* serializer, the choice of a language, and the transformation of two older *)
(* versions. A description is a record; a term that may be missing, a single *)
(* value or an array is a pair of "none", "one" or "list" and its value. An  *)
(* entry of a context that sets a language is a pair of "lang" and it.       *)
EXTENDS Naturals, Sequences, FiniteSets, SequencesExt, TLC

None == <<"none">>
One(value) == <<"one", value>>
List(values) == <<"list", values>>
Refused == [refused |-> TRUE]

Optional(S) == {None} \union ({"one"} \X S) \union ({"list"} \X Seq(S))

DefaultContext == <<"iri", "td/v1">>
DefaultType == "Thing"
Languages(context) == {i \in DOMAIN context : context[i][1] = "lang"}

(* Only a context that is an array gets the default language.                *)
WithLanguage(context) ==
    IF context[1] = "list" /\ Languages(context[2]) = {}
    THEN List(Append(context[2], <<"lang", "en">>)) ELSE context

(* The default context comes last and the default type first.                *)
ContextOf(context) ==
    CASE context = None -> List(<<DefaultContext>>)
      [] context[1] = "list" ->
            IF Contains(context[2], DefaultContext) THEN context
            ELSE List(Append(context[2], DefaultContext))
      [] context[1] = "one" ->
            IF context[2] = DefaultContext THEN context
            ELSE List(<<context[2], DefaultContext>>)

TypeOf(type) ==
    CASE type = None -> One(DefaultType)
      [] type[1] = "list" ->
            IF Contains(type[2], DefaultType) THEN type
            ELSE List(<<DefaultType>> \o type[2])
      [] type[1] = "one" ->
            IF type[2] = DefaultType THEN type ELSE List(<<DefaultType, type[2]>>)

FlagsOf(kind) ==
    CASE kind = "properties" -> {"readOnly", "writeOnly", "observable"}
      [] kind = "actions" -> {"safe", "idempotent"}
      [] kind = "events" -> {}

(* A flag that is missing, or no Boolean, is false.                          *)
WithFlags(affordance) ==
    LET given == affordance.flags
        flag(name) == IF name \in DOMAIN given /\ given[name] = "true"
                      THEN "true" ELSE "false"
        set == FlagsOf(affordance.kind)
    IN  [affordance EXCEPT
           !.flags = [name \in set \union DOMAIN given |->
                        IF name \in set THEN flag(name) ELSE given[name]]]

FormsOf(affordance) ==
    IF affordance.forms[1] = "list" THEN affordance.forms[2]
    ELSE <<affordance.forms[2]>>

(* What the parser takes for granted; other fields may be there or not.      *)
WellFormed(td) ==
    /\ {"context", "type", "security", "definitions", "base", "affordances"}
         \subseteq DOMAIN td
    /\ td.context \in Optional({"iri", "lang"} \X STRING)
    /\ td.type \in Optional(STRING)
    /\ td.security \in Optional(STRING)
    /\ \A name \in DOMAIN td.affordances :
         LET affordance == td.affordances[name]
         IN  /\ {"kind", "flags", "forms"} \subseteq DOMAIN affordance
             /\ affordance.kind \in {"properties", "actions", "events"}
             /\ affordance.forms # None =>
                  \A form \in ToSet(FormsOf(affordance)) :
                     "href" \in DOMAIN form /\ {"kind", "host"} \subseteq DOMAIN form.href

IsAbsolute(href) == href.kind = "absolute"

(* A host and a port pass for a scheme when the base is applied, but not     *)
(* when a base is required.                                                  *)
BasedOn(form, base) ==
    IF form.href.kind = "relative"
    THEN [form EXCEPT !.href = [@ EXCEPT !.kind = "absolute", !.host = base]]
    ELSE form

RefusedForms(affordance, base) ==
    \/ affordance.forms = None
    \/ \E form \in ToSet(FormsOf(affordance)) :
          \/ form.href.kind = "missing"
          \/ ~IsAbsolute(form.href) /\ base = ""

(* Relative forms are accepted for their base, which is not applied.         *)
ParseTDUnbased(td) ==
    IF \E name \in DOMAIN td.affordances :
          RefusedForms(td.affordances[name], td.base)
    THEN Refused
    ELSE [td EXCEPT !.context = WithLanguage(ContextOf(@)), !.type = TypeOf(@)]

(* normalize is true in every call but those of tests.                       *)
ParseTD(td) ==
    LET affordance(name) ==
            LET given == WithFlags(td.affordances[name])
                forms == FormsOf(given)
            IN  [given EXCEPT !.forms =
                   List([i \in DOMAIN forms |->
                           IF td.base = "" THEN forms[i]
                           ELSE BasedOn(forms[i], td.base)])]
    IN  IF \E name \in DOMAIN td.affordances :
              RefusedForms(td.affordances[name], td.base)
        THEN Refused
        ELSE [td EXCEPT
                !.context = WithLanguage(ContextOf(@)),
                !.type = TypeOf(@),
                !.security = IF @[1] = "one" THEN List(<<@[2]>>) ELSE @,
                !.affordances = [name \in DOMAIN @ |-> affordance(name)]]

(* A thing without security is described as one that needs none.             *)
SerializeTD(thing) ==
    [thing EXCEPT
       !.security = IF @ = None \/ @ = List(<<>>) THEN List(<<"nosec_sc">>) ELSE @,
       !.definitions = IF thing.security = None \/ thing.security = List(<<>>)
                       THEN "nosec_sc" :> "nosec" ELSE @,
       !.affordances = [name \in DOMAIN @ |-> WithFlags(@[name])]]

-----------------------------------------------------------------------------
(* The language a client asked for replaces the titles. The title of an      *)
(* affordance is removed even when it has none in this language. A language  *)
(* matches those it is the beginning of; of several the last one counts.     *)
Titled(titles, default, language) ==
    LET matching == SelectSeq(titles, LAMBDA t : t.lang = language
                                                   \/ t.base = language)
    IN  IF matching = <<>> THEN default ELSE Last(matching).text

ResetMultiLangInteraction(affordance, language) ==
    [affordance EXCEPT !.title = Titled(affordance.titles, "", language),
                       !.titles = <<>>]

ResetMultiLangThing(thing, language) ==
    LET entries == thing.context[2]
        context == IF thing.context[1] # "list" THEN thing.context
                   ELSE IF Languages(entries) = {}
                   THEN List(Append(entries, <<"lang", language>>))
                   ELSE List([i \in DOMAIN entries |->
                                IF i \in Languages(entries)
                                THEN <<"lang", language>> ELSE entries[i]])
    IN  [thing EXCEPT
           !.context = context,
           !.title = Titled(thing.titles, @, language),
           !.titles = <<>>,
           !.affordances = [name \in DOMAIN @ |->
                              ResetMultiLangInteraction(@[name], language)]]

(* The language is chosen among those of the title of the thing.             *)
Negotiated(thing, asked) ==
    IF asked # "" /\ \E i \in DOMAIN thing.titles : thing.titles[i].lang = asked
    THEN ResetMultiLangThing(thing, asked) ELSE thing

-----------------------------------------------------------------------------
(* Older versions keep all interactions in one array, which is split by the  *)
(* types of each. An interaction with several types is the same object in    *)
(* several arrays, and its links are gone through once for each type.        *)
Types == <<"Property", "Action", "Event">>

Fixed(doc, inter) ==
    [inter |-> [inter EXCEPT !.hrefs = @ \o [i \in DOMAIN inter.links |->
                                               inter.links[i].href]],
     encodings |-> FoldLeft(LAMBDA known, link :
                              IF Contains(known, link.mediaType) THEN known
                              ELSE Append(known, link.mediaType),
                            doc.encodings, inter.links)]

(* In version 2 links are removed once they are taken over.                  *)
FixLinksV2(doc, inter) ==
    LET fixed == Fixed(doc, inter)
    IN  [fixed EXCEPT !.inter.links = <<>>]

(* In version 3 they are called link, and it is links that is removed.       *)
FixLinksV3(doc, inter) == Fixed(doc, inter)

(* The type of the data moves to the interaction, except for actions, whose  *)
(* data version 1 nests.                                                     *)
Typed2(inter, type) ==
    IF type # "Action" /\ inter.output.nested
    THEN [inter EXCEPT !.valueType = inter.output.type,
                       !.output = [nested |-> FALSE, type |-> ""]]
    ELSE inter

Typed3(inter, type) ==
    CASE type # "Action" /\ inter.output.type # "" ->
            [inter EXCEPT !.valueType = inter.output.type,
                          !.output = [nested |-> FALSE, type |-> ""]]
      [] type = "Action" /\ inter.output.type # "" ->
            [inter EXCEPT !.output.nested = TRUE]
      [] OTHER -> inter

Transformed(td, version) ==
    LET under(doc, i, type) ==
            LET inter == IF version = 2 THEN Typed2(doc.inters[i], type)
                                        ELSE Typed3(doc.inters[i], type)
                fixed == IF version = 2 THEN FixLinksV2(doc, inter)
                                        ELSE FixLinksV3(doc, inter)
            IN  [doc EXCEPT !.inters[i] = fixed.inter,
                            !.encodings = fixed.encodings,
                            !.members[type] = Append(@, i)]
        each(doc, i) ==
            FoldLeft(LAMBDA d, type :
                       IF type \in td.inters[i].types THEN under(d, i, type) ELSE d,
                     doc, Types)
        doc == [inters |-> td.inters, encodings |-> <<>>,
                members |-> [type \in ToSet(Types) |-> <<>>],
                uris |-> IF td.base = "" THEN <<>> ELSE <<td.base>>]
    IN  FoldLeft(each, doc, [i \in DOMAIN td.inters |-> i])

TransformTDV2(td) == Transformed(td, 2)

TransformTDV3(td) == Transformed(td, 3)
=============================================================================
