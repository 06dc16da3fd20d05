---------------------------- MODULE MCEgressProxy ----------------------------
(* Bounded instance of EgressProxy for TLC.                                *)
EXTENDS EgressProxy

(* Two entries for the same host, in both orders and alone: the first one  *)
(* decides, and they allow different things.                               *)
Strict == [hosts |-> {"a"}, protocols |-> {"https"}, methods |-> {"GET"},
           routes |-> {"/api"}]
Loose  == [hosts |-> {"a", "b"}, protocols |-> {"http", "https"},
           methods |-> {}, routes |-> {"/", "/api"}]

TwoEntryPolicies == {<<>>, <<Strict>>, <<Strict, Loose>>, <<Loose, Strict>>}

Tunnel(h, p)      == [how |-> "connect", host |-> h, protocol |-> p]
Plain(h, p, m, r) == [how |-> "plain", host |-> h, protocol |-> p, method |-> m,
                      path |-> r]

SomeRequests ==
  {Tunnel("a", "https"), Tunnel("a", "http"), Tunnel("b", "https"),
   Plain("a", "https", "GET", "/api"), Plain("a", "https", "GET", "/"),
   Plain("a", "https", "POST", "/api"), Plain("b", "http", "GET", "/")}
=============================================================================
