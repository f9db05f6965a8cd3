---------------------------- MODULE MCApplication ----------------------------
(* Small instances of what an application is made of, checked side by side: *)
(* a behaviour is one of SignalRouter, Blueprints, RequestHandling, Streams,*)
(* StaticFiles, JsonBody, Cookies or RequestData.  They share no variable;  *)
(* the others stay in a state without a step.                               *)
EXTENDS SignalRouter, Blueprints, RequestHandling, Streams, StaticFiles, JsonBody, Cookies,
        RequestData, TLC

CONSTANTS w1, w2

SignalOf(name, trigger, requirements, exclusive) ==
    [name |-> name, trigger |-> trigger, requirements |-> requirements, exclusive |-> exclusive]

MCDeclared ==
    {<<SignalOf("a", FALSE, "k", FALSE), SignalOf(Star, TRUE, None, TRUE)>>,
     <<SignalOf(Star, TRUE, None, TRUE), SignalOf(Report, FALSE, None, TRUE)>>}
MCAdded == {SignalOf("a", FALSE, None, TRUE)}

AwaitOf(name, condition, exclusive, timed) ==
    [name |-> name, condition |-> condition, exclusive |-> exclusive, timed |-> timed]

MCAwaited == w1 :> {AwaitOf("a", None, TRUE, TRUE)} @@ w2 :> {AwaitOf(Star, "k", FALSE, FALSE)}

SendOf(condition, reverse, inline) ==
    [event |-> "a", condition |-> condition, reverse |-> reverse, inline |-> inline]

MCSent == {SendOf(None, FALSE, TRUE), SendOf("k", TRUE, FALSE)}

ItemOf(kind, id, version) == [kind |-> kind, id |-> id, version |-> version]
MCItems ==
    {ItemOf("route", "r1", 0), ItemOf("middleware", "m", 0), ItemOf("listener", "l", 0)}
MCAttributes == "b1" :> [prefix |-> <<"b1">>, version |-> 2]

GroupOf(prefix, version, name) == [prefix |-> prefix, version |-> version, name |-> name]
MCPaths ==
    {<<>>, <<GroupOf(<<"g">>, 1, "none"), GroupOf(<<"h">>, 0, "n")>>}

Declaration(by, name, view) ==
    [by |-> by, path |-> "p", name |-> name, view |-> view, is_stream |-> FALSE]
MCDeclarations ==
    {Declaration("view", "old", {"GET", "POST"}), Declaration("websocket", "new", {})}
FunctionOf(fn, attach_to, priority, route_names) ==
    [fn |-> fn, attach_to |-> attach_to, priority |-> priority, route_names |-> route_names]
MCFunctions ==
    {FunctionOf("b", "request", 1, {"old", "new"}),
     FunctionOf("s", "response", 0, {}), FunctionOf("t", "response", 1, {})}
MCErrorHandlers ==
    {[exception |-> "Exception", scope |-> "old"], [exception |-> "Error", scope |-> All]}
MCEarly ==
    {r \in Routes : r.name = "old"} \cup {f \in MCFunctions : f.fn # "s"}
    \cup {h \in MCErrorHandlers : h.scope = "old"}
MCOwnMRO == [Error |-> <<"Error", "Exception">>]
MCAsked == {[path |-> "p", method |-> "DELETE"], [path |-> "p", method |-> "GET"]}

MCStaticOptions ==
    {o \in AllOptions : /\ o.follow <=> o.index
                        /\ o.index => ~o.stream_large_files
                        /\ o.directory_view => o.use_content_range}
RangeHeader(start, end) == [start |-> start, end |-> end]
MCRanges == {RangeHeader(1, 3), RangeHeader(1, Missing), RangeHeader(Missing, 4), RangeHeader(2, 1)}
MCSizes == <<5, 3, 4>>

ElementOf(secret, for, host, proto) == [secret |-> secret, for |-> for, host |-> host, proto |-> proto]
ForwardedOf(elements) == [value |-> "forwarded", elements |-> elements]
XForwardedOf(proxies, host, proto) ==
    [value |-> "x", proxies |-> proxies, options |-> ElementOf(FALSE, "", host, proto)]
ContentType(form, json) == [value |-> "content-type", form |-> form, json |-> json]
AcceptOf(list) == [value |-> "accept", list |-> list]
Media(type, subtype, q) == [type |-> type, subtype |-> subtype, q |-> q]
ValueOf(value) == [value |-> value]

MCRequests ==
    {[headers |-> "host" :> ValueOf("h")
                  @@ "forwarded" :> ForwardedOf(<<ElementOf(TRUE, "a", "p", ""),
                                                  ElementOf(FALSE, "b", "q", "https")>>)
                  @@ "content-type" :> ContentType(TRUE, FALSE)
                  @@ "accept" :> AcceptOf({Media("text", "*", 1), Media("application", "json", 1)}),
      content |-> "form", chunks |-> <<1, 2>>],
     [headers |-> "x-forwarded-for" :> XForwardedOf(<<"c", "d">>, "", "https")
                  @@ "accept" :> Invalid,
      content |-> "json", chunks |-> <<1, 2>>],
     [headers |-> "accept" :> AcceptOf({Media("*", "*", 1), Media("text", "html", 2)}),
      content |-> "null", chunks |-> <<1>>]}
MCErrorFormats == {<<"", "auto">>, <<"text", "auto">>, <<"", "html">>}
MCReplacements ==
    {<<"forwarded", ForwardedOf(<<ElementOf(TRUE, "e", "", "http")>>)>>,
     <<"host", ValueOf("i")>>, <<"content-type", ContentType(FALSE, TRUE)>>,
     <<"accept", AcceptOf({Media("application", "json", 2), Media("text", "html", 0)})>>,
     <<"accept", AcceptOf({})>>,
     <<"authorization", ValueOf("new")>>, <<"x-request-id", ValueOf("new")>>}

ApplicationInit ==
    \/ SignalInit /\ BlueprintsOff /\ HandlingOff /\ StreamsOff
       /\ StaticOff /\ JsonOff /\ CookiesOff /\ DataOff
    \/ SignalOff /\ BlueprintsInit /\ HandlingOff /\ StreamsOff
       /\ StaticOff /\ JsonOff /\ CookiesOff /\ DataOff
    \/ SignalOff /\ BlueprintsOff /\ HandlingInit /\ StreamsOff
       /\ StaticOff /\ JsonOff /\ CookiesOff /\ DataOff
    \/ SignalOff /\ BlueprintsOff /\ HandlingOff /\ StreamsInit
       /\ StaticOff /\ JsonOff /\ CookiesOff /\ DataOff
    \/ SignalOff /\ BlueprintsOff /\ HandlingOff /\ StreamsOff
       /\ StaticInit /\ JsonOff /\ CookiesOff /\ DataOff
    \/ SignalOff /\ BlueprintsOff /\ HandlingOff /\ StreamsOff
       /\ StaticOff /\ JsonInit /\ CookiesOff /\ DataOff
    \/ SignalOff /\ BlueprintsOff /\ HandlingOff /\ StreamsOff
       /\ StaticOff /\ JsonOff /\ CookiesInit /\ DataOff
    \/ SignalOff /\ BlueprintsOff /\ HandlingOff /\ StreamsOff
       /\ StaticOff /\ JsonOff /\ CookiesOff /\ DataInit

ApplicationNext ==
    \/ SignalNext /\ UNCHANGED <<bp_vars, handling_vars, stream_vars, static_vars, json_vars, cookie_vars, data_vars>>
    \/ BlueprintsNext /\ UNCHANGED <<signal_vars, handling_vars, stream_vars, static_vars, json_vars, cookie_vars, data_vars>>
    \/ HandlingNext /\ UNCHANGED <<signal_vars, bp_vars, stream_vars, static_vars, json_vars, cookie_vars, data_vars>>
    \/ StreamsNext /\ UNCHANGED <<signal_vars, bp_vars, handling_vars, static_vars, json_vars, cookie_vars, data_vars>>
    \/ StaticNext /\ UNCHANGED <<signal_vars, bp_vars, handling_vars, stream_vars, json_vars, cookie_vars, data_vars>>
    \/ JsonNext /\ UNCHANGED <<signal_vars, bp_vars, handling_vars, stream_vars, static_vars, cookie_vars, data_vars>>
    \/ CookiesNext /\ UNCHANGED <<signal_vars, bp_vars, handling_vars, stream_vars, static_vars, json_vars, data_vars>>
    \/ DataNext /\ UNCHANGED <<signal_vars, bp_vars, handling_vars, stream_vars, static_vars, json_vars, cookie_vars>>

application_vars ==
    <<signal_vars, bp_vars, handling_vars, stream_vars, static_vars, json_vars, cookie_vars, data_vars>>

ApplicationSpec == ApplicationInit /\ [][ApplicationNext]_application_vars

\* Every variable of each part keeps its type.
TypesOK ==
    /\ SignalTypeOK /\ BlueprintsTypeOK /\ HandlingTypeOK /\ StreamsTypeOK /\ StaticTypeOK
    /\ JsonTypeOK /\ CookiesTypeOK /\ DataTypeOK
==============================================================================
