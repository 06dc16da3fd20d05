----------------------------- MODULE MCDBLogin -----------------------------
(* Instance of DBLogin: every mode, certificate and way to log in.         *)
EXTENDS DBLogin

SomeSettings ==
  {s \in Setting :
     /\ s.user \/ (s.driver = "mysql" /\ s.mode = "disable")
     /\ s.ca => s.required
     /\ s.password # "right" => s.mode \in {"disable", "require"} /\ ~s.required}

SomeUpstreams ==
  {u \in Upstream :
     /\ ~u.tls => u.cert = "right"
     /\ u.account # "sha2" => ~u.cached
     /\ u.account \notin Plugins => u.announced = "native"
     /\ u.account # "scram" => u.proof = "sound"}
=============================================================================
