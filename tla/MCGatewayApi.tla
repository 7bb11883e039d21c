---------------------------- MODULE MCGatewayApi ----------------------------
(* An instance of GatewayApi: a small routing.yml and the requests that take   *)
(* every way through dispatch.                                                 *)
EXTENDS GatewayApi

MCRoutes == << [path |-> <<"users", "{id}">>, method |-> "GET", function |-> "fn"],
               [path |-> <<"users", "me">>, method |-> "GET", function |-> "gone"],
               [path |-> <<"old">>, method |-> "GET", function |-> "gone"] >>

Missing == [form |-> "missing", id |-> ""]
Fields == [form |-> "fields", id |-> "x1"]
Malformed == [form |-> "other", id |-> "x2"]

Basic == [endpoint |-> "health", path |-> <<>>, method |-> "GET", bearer |-> "absent",
          credentials |-> "none", function |-> "none", event |-> FALSE, trace |-> Missing]
Routed(path, method, bearer) ==
  [Basic EXCEPT !.endpoint = "route", !.path = path, !.method = method, !.bearer = bearer,
                !.trace = Fields]

MCArrivals ==
  { Basic,
    [Basic EXCEPT !.endpoint = "auth", !.credentials = "good"],
    [Basic EXCEPT !.endpoint = "auth", !.credentials = "bad"],
    [Basic EXCEPT !.endpoint = "metrics", !.bearer = "issued"],
    [Basic EXCEPT !.endpoint = "invoke", !.function = "fn", !.trace = Malformed],
    [Basic EXCEPT !.endpoint = "invoke", !.function = "fn", !.event = TRUE],
    [Basic EXCEPT !.endpoint = "invoke", !.function = "gone"],
    Routed(<<"users", "me">>, "GET", "issued"),
    Routed(<<"users", "me">>, "GET", "absent"),
    Routed(<<"users", "me">>, "GET", "forged"),
    Routed(<<"users", "me">>, "POST", "issued"),
    Routed(<<"old">>, "GET", "issued") }

MCReplies == { [status |-> 200, body |-> "proxy", code |-> 201],
               [status |-> 200, body |-> "json", code |-> 0],
               [status |-> 400, body |-> "text", code |-> 0] }
=============================================================================
