----------------------------- MODULE MCDispatch -----------------------------
(* Instance of Dispatch for TLC: every path under every flag, base and     *)
(* query over HTTP, and every combination of the fields of a handshake.    *)
EXTENDS Dispatch

SomeSubprotocols == {"a", "b", "x", "bad"}
SomePicks == [extensions : BOOLEAN, protocols : {<<>>, <<"a">>, <<"b">>, <<"x">>, <<"a", "b">>}]

SomeWords == {Empty, "probe", "root", "other", "v", "builder", "b", "i"} \cup ClPaths

Plain == [NoHeaders EXCEPT !.host = <<"client">>, !.te = <<"trailers">>, !.app = <<"app">>]

\* Headers of an answer, and a Connection that may nominate some of them.
SomeAnswers == {[NoHeaders EXCEPT !.te = <<"trailers">>, !.app = <<"theirs">>, !.connection = c] :
                    c \in {<<>>, <<{}, {"app"}>>}}

HttpRequests ==
    [method : {"GET", "HEAD", "POST"}, version : {"1.1"}, tunnel : {FALSE},
     path : {"probe", "root", "other"} \cup ClPaths, query : {{}, {<<>>}, {<<"i">>}},
     headers : {[Plain EXCEPT !.connection = c] : c \in {<<>>, <<{}, {"app"}>>}}]

Offered == {[Plain EXCEPT !.connection = c, !.version = v, !.key = k, !.protocol = p,
                          !.extensions = e, !.upgrade = u] :
                c \in {<<{"upgrade"}>>, <<{"upgrade"}, {"app", "protocol", "key"}>>},
                v \in {<<>>, <<"12">>, <<"13">>, <<"13", "13">>},
                k \in {<<>>, <<"k">>, <<"k", "k">>},
                p \in {<<>>, <<<<"a", "b">>>>, <<<<"a">>, <<"b">>>>, <<<<"a">>, <<"a">>>>, <<<<"bad">>>>},
                e \in {<<>>, <<"deflate">>}, u \in {<<>>, <<"websocket">>}}

WsRequests ==
    [method : {"GET", "POST"}, version : {"1.0", "1.1"}, tunnel : {FALSE},
     path : {"probe", "beacon", "other"}, query : {{}}, headers : Offered]
    \cup
    [method : {"CONNECT"}, version : {"2"}, tunnel : BOOLEAN,
     path : {"probe", "beacon", "other"}, query : {{}},
     headers : {[h EXCEPT !.connection = <<>>, !.upgrade = <<>>] : h \in Offered}]

Flags == [syncing : BOOLEAN, subscriptions : BOOLEAN, health : BOOLEAN, mev : BOOLEAN]
Bases == [path : {Root, <<"v">>, <<"v", Empty>>}, query : {{}, {<<>>}, {<<"b">>}}]

AllOn == [syncing |-> TRUE, subscriptions |-> TRUE, health |-> TRUE, mev |-> TRUE]
Below == [path |-> <<"v", Empty>>, query |-> {}]

SomeCases == [req : HttpRequests, conf : [flags : Flags, base : Bases]]
             \cup [req : WsRequests, conf : {[flags |-> AllOn, base |-> Below]}]
=============================================================================
