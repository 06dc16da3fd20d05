------------------------------ MODULE DBLogin ------------------------------
(***************************************************************************)
(* One login through the DB proxy: DBDriver.connect_upstream and           *)
(* intercept_auth of both drivers, with the SCRAM client, the TLS rules of *)
(* the policy loader, the sandboxed client and the upstream server.        *)
(* Connections share nothing before a login ends (see DBProxy), so there is*)
(* one. An action of the proxy is what it does between two awaits.         *)
(***************************************************************************)
EXTENDS Naturals, Sequences

CONSTANTS Settings,   \* connection and environment the proxy may be given
          Upstreams,  \* servers that may be at the other end
          Openings    \* how a PostgreSQL client may open its connection

VARIABLES
  setting,   \* of Settings
  upstream,  \* of Upstreams
  opening,   \* of Openings
  pc,        \* where the proxy is
  wire,      \* the upstream connection: "none", "plain" or "tls"
  plugin,    \* _drive_server_auth's current_plugin
  stage,     \* where the server is
  next,      \* number of the next MySQL packet, either way, as the server counts
  up,        \* messages from the proxy the server has not read
  down,      \* messages from the server the proxy has not read
  inbox,     \* messages from the client the proxy has not read
  told,      \* history: what the proxy wrote to the client
  gone       \* which of "client" and "server" left of its own accord

config == <<setting, upstream, opening>>
server == <<stage, next>>
vars == <<config, pc, wire, plugin, server, up, down, inbox, told, gone>>

Modes   == {"disable", "allow", "prefer", "require", "verify-ca", "verify-full"}
Plugins == {"native", "sha2"}
Credentials == {"token", "clear", "md5", "clientFirst", "clientFinal"}

Setting == [driver : {"mysql", "postgres"}, mode : Modes,
            required : BOOLEAN,  \* SANDBOX_REQUIRE_UPSTREAM_TLS
            ca : BOOLEAN,        \* DB_*_SSL_CA is set
            user : BOOLEAN,      \* the client or the connection names a user
            password : {"right", "wrong", "unset"}]

(* A server: whether it offers TLS, its certificate, the plugin MySQL      *)
(* announces, how the account logs in, whether the fast path of            *)
(* caching_sha2_password is cached, and how SCRAM goes with it.            *)
Upstream == [tls : BOOLEAN, cert : {"right", "otherName", "untrusted"},
             announced : Plugins, cached : BOOLEAN,
             account : Plugins \cup {"trust", "md5", "scram", "unsupported"},
             proof : {"sound", "foreignNonce", "fewIterations", "wrongSignature"}]

Msg(kind, seq)           == [kind |-> kind, seq |-> seq, plugin |-> "none", seed |-> 0]
Auth(kind, seq, p, seed) == [kind |-> kind, seq |-> seq, plugin |-> p, seed |-> seed]
Pg(kind)                 == Msg(kind, 0)

Mysql == setting.driver = "mysql"

ASSUME LoginAssumption ==
  /\ Settings \subseteq Setting /\ Upstreams \subseteq Upstream
  /\ Openings \subseteq {"startup", "ssl", "gss"}

TypeOK ==
  /\ setting \in Setting /\ upstream \in Upstream
  /\ opening \in {"startup", "ssl", "gss"}
  /\ pc \in {"load", "off", "connect", "greeting", "response", "tls", "verdict",
             "startup", "restart", "auth", "scramFirst", "scramFinal",
             "session", "closed"}
  /\ wire \in {"none", "plain", "tls"} /\ plugin \in Plugins
  /\ stage \in {"new", "response", "token", "clear", "proof", "accepted", "refused"}
  /\ next \in 0 .. 8
  /\ Len(up) <= 1 /\ Len(down) <= 2 /\ Len(inbox) <= 1 /\ Len(told) <= 3
  /\ gone \subseteq {"client", "server"}

(* A server speaks the protocol of the connection's driver.                *)
Accounts == IF Mysql THEN Plugins \cup {"unsupported"}
                     ELSE {"trust", "md5", "scram", "unsupported"}

Init ==
  /\ setting \in Settings /\ upstream \in Upstreams /\ opening \in Openings
  /\ upstream.account \in Accounts
  /\ pc = "load" /\ wire = "none" /\ plugin = "native"
  /\ stage = "new" /\ next = 0
  /\ up = <<>> /\ down = <<>> /\ inbox = <<>> /\ told = <<>>
  /\ gone = {}

-----------------------------------------------------------------------------
(* Reading and writing.                                                    *)

Heard(kinds) == down # <<>> /\ Head(down).kind \in kinds

(* intercept_auth returns False or raises, and handle_client closes both.  *)
Fail ==
  /\ pc' = "closed" /\ wire' = "none"
  /\ up' = <<>> /\ down' = <<>> /\ inbox' = <<>>
  /\ UNCHANGED <<config, plugin, server, gone>>

FailSilently == Fail /\ UNCHANGED told

FailTelling(message) == Fail /\ told' = Append(told, message)

(* Ask the server the next thing; what is read on the way is consumed.     *)
Ask(message, then) ==
  /\ up' = Append(up, message) /\ pc' = then
  /\ UNCHANGED <<config, wire, server, inbox, told, gone>>

(* The other end is found closed while the proxy waits for it.             *)
EndOfFile ==
  /\ \/ /\ pc \in {"response", "startup", "restart"}
        /\ inbox = <<>> /\ "client" \in gone
     \/ /\ pc \in {"greeting", "tls", "verdict", "auth", "scramFirst", "scramFinal"}
        /\ down = <<>> /\ ("server" \in gone \/ stage = "refused")
     \/ pc = "connect" /\ "server" \in gone
  /\ FailSilently

(* The login is over and the client is told, unless writing to it raises.  *)
Succeed(message) ==
  \/ /\ pc' = "session"
     /\ told' = Append(told, message)
     /\ down' = Tail(down)
     /\ UNCHANGED <<config, wire, plugin, server, up, inbox, gone>>
  \/ "client" \in gone /\ FailSilently

-----------------------------------------------------------------------------
(* Start-up and TLS.                                                       *)

(* _enforce_tls_invariant: a policy that does not comply stops the proxy.  *)
Complies ==
  setting.required => setting.mode \in {"verify-ca", "verify-full"} /\ setting.ca

Load ==
  /\ pc = "load"
  /\ pc' = IF Complies THEN "connect" ELSE "off"
  /\ UNCHANGED <<config, wire, plugin, server, up, down, inbox, told, gone>>

(* build_ssl_context: whom a mode of the connection lets through. MySQL has*)
(* no name to compare: intercept_auth takes upstream_ssl_server_cn or      *)
(* upstream_host, load_connection_from_env sets neither, and start_tls     *)
(* compares no name when it is given none.                                 *)
CertificateSuffices ==
  /\ setting.mode \in {"verify-ca", "verify-full"} => upstream.cert # "untrusted"
  /\ setting.mode = "verify-full" /\ ~Mysql => upstream.cert = "right"

ConnectedAs(security, then) ==
  /\ wire' = security /\ pc' = then
  /\ UNCHANGED <<config, plugin, server, up, down, inbox, told, gone>>

ConnectPlain ==
  /\ pc = "connect" /\ "server" \notin gone
  /\ Mysql \/ setting.mode = "disable"
  /\ ConnectedAs("plain", IF Mysql THEN "greeting" ELSE "startup")

(* _connect_upstream_ssl_sync runs in a thread of its own: SSLRequest, one *)
(* byte of answer, the TLS handshake.                                      *)
ConnectTls ==
  /\ pc = "connect" /\ "server" \notin gone
  /\ ~Mysql /\ setting.mode # "disable"
  /\ \/ /\ upstream.tls /\ CertificateSuffices
        /\ ConnectedAs("tls", "startup")
     \/ /\ ~upstream.tls /\ setting.mode \in {"prefer", "allow"}
        /\ ConnectedAs("plain", "startup")
     \/ /\ IF upstream.tls THEN ~CertificateSuffices
                           ELSE setting.mode \notin {"prefer", "allow"}
        /\ FailSilently

-----------------------------------------------------------------------------
(* MySQLDriver.intercept_auth.                                             *)

(* The greeting reaches the client without its TLS flag.                   *)
TakeGreeting ==
  /\ pc = "greeting" /\ Heard({"greeting"})
  /\ plugin' = Head(down).plugin
  /\ told' = Append(told, Msg("greeting", Head(down).seq))
  /\ down' = Tail(down)
  /\ pc' = "response"
  /\ UNCHANGED <<config, wire, server, up, inbox, gone>>

(* _resolve_upstream_tls: only an explicit opt-out disables TLS.           *)
WantsTls == setting.mode # "disable"

Token(p, seq, seed) == Auth("token", seq, p, seed)

(* Mutant: a server without TLS is talked to in the clear.                 *)
TakeResponseDowngrades ==
  /\ pc = "response" /\ inbox # <<>> /\ setting.user
  /\ inbox' = <<>>
  /\ IF setting.mode # "disable" /\ upstream.tls
       THEN up' = Append(up, Msg("sslRequest", Head(inbox).seq)) /\ pc' = "tls"
       ELSE up' = Append(up, Token(plugin, Head(inbox).seq, 1)) /\ pc' = "verdict"
  /\ UNCHANGED <<config, wire, plugin, server, down, told, gone>>

(* The client's own authentication is discarded. Unless TLS is disabled it *)
(* is demanded: an SSLRequest goes first, under the number of the client's *)
(* packet.                                                                 *)
TakeResponse ==
  /\ pc = "response" /\ inbox # <<>>
  /\ \/ /\ setting.user /\ ~WantsTls
        /\ up' = Append(up, Token(plugin, Head(inbox).seq, 1)) /\ pc' = "verdict"
        /\ inbox' = <<>>
        /\ UNCHANGED <<config, wire, plugin, server, down, told, gone>>
     \/ /\ setting.user /\ WantsTls /\ upstream.tls
        /\ up' = Append(up, Msg("sslRequest", Head(inbox).seq)) /\ pc' = "tls"
        /\ inbox' = <<>>
        /\ UNCHANGED <<config, wire, plugin, server, down, told, gone>>
     \/ /\ ~setting.user \/ (WantsTls /\ ~upstream.tls)
        /\ FailSilently

(* Mutant: the response keeps the number of the SSLRequest.                *)
StartTlsSameNumber ==
  /\ pc = "tls" /\ up = <<>> /\ "server" \notin gone /\ stage = "response"
  /\ \/ /\ CertificateSuffices
        /\ up' = <<Token(plugin, 1, 1)>> /\ pc' = "verdict" /\ wire' = "tls"
        /\ UNCHANGED <<config, plugin, server, down, inbox, told, gone>>
     \/ ~CertificateSuffices /\ FailSilently

(* Mutant: the response does not wait for the TLS handshake.               *)
StartTlsEarly ==
  /\ pc = "tls" /\ "server" \notin gone /\ stage = "response"
  /\ \/ /\ CertificateSuffices
        /\ up' = Append(up, Token(plugin, 2, 1)) /\ pc' = "verdict" /\ wire' = "tls"
        /\ UNCHANGED <<config, plugin, server, down, inbox, told, gone>>
     \/ ~CertificateSuffices /\ FailSilently

(* start_tls, then the response under the next number.                     *)
StartTls ==
  /\ pc = "tls" /\ up = <<>> /\ "server" \notin gone /\ stage = "response"
  /\ \/ /\ CertificateSuffices
        /\ up' = <<Token(plugin, 2, 1)>> /\ pc' = "verdict" /\ wire' = "tls"
        /\ UNCHANGED <<config, plugin, server, down, inbox, told, gone>>
     \/ ~CertificateSuffices /\ FailSilently

Denied == Msg("err", 2)

(* _drive_server_auth. The number of an answer follows the question's.     *)
Verdict ==
  /\ pc = "verdict" /\ Heard({"ok"})
  /\ Succeed(Msg("ok", 2))

(* Mutant: the answer to a switch is made from the seed of the greeting.    *)
SwitchPluginOldSeed ==
  /\ pc = "verdict" /\ Heard({"switch"})
  /\ LET m == Head(down) IN
       \/ /\ m.plugin \in Plugins
          /\ plugin' = m.plugin /\ down' = Tail(down)
          /\ Ask(Token(m.plugin, m.seq + 1, 1), "verdict")
       \/ m.plugin \notin Plugins /\ FailTelling(Denied)

SwitchPlugin ==
  /\ pc = "verdict" /\ Heard({"switch"})
  /\ LET m == Head(down) IN
       \/ /\ m.plugin \in Plugins
          /\ plugin' = m.plugin /\ down' = Tail(down)
          /\ Ask(Token(m.plugin, m.seq + 1, m.seed), "verdict")
       \/ m.plugin \notin Plugins /\ FailTelling(Denied)

FastPath ==
  /\ pc = "verdict" /\ Heard({"fast"}) /\ plugin = "sha2"
  /\ down' = Tail(down)
  /\ UNCHANGED <<config, pc, wire, plugin, server, up, inbox, told, gone>>

(* Full authentication sends the password itself, over TLS only.           *)
FullPath ==
  /\ pc = "verdict" /\ Heard({"full"}) /\ plugin = "sha2"
  /\ \/ /\ wire = "tls"
        /\ down' = Tail(down) /\ UNCHANGED plugin
        /\ Ask(Msg("clear", Head(down).seq + 1), "verdict")
     \/ wire # "tls" /\ FailTelling(Denied)

(* Mutant: a refused login starts again from a new connection.             *)
RefusedRetries ==
  /\ pc = "verdict" /\ Heard({"err"})
  /\ pc' = "connect" /\ wire' = "none"
  /\ up' = <<>> /\ down' = <<>> /\ inbox' = <<>> /\ told' = Append(told, Denied)
  /\ UNCHANGED <<config, plugin, server, gone>>

Refused ==
  /\ pc = "verdict" /\ Heard({"err"})
  /\ FailTelling(Denied)

-----------------------------------------------------------------------------
(* PostgresDriver.intercept_auth.                                          *)

PassOpening(then) ==
  /\ inbox' = <<>> /\ pc' = then
  /\ up' = Append(up, Head(inbox))
  /\ UNCHANGED <<config, wire, plugin, server, down, told, gone>>

(* Mutant: an SSLRequest is passed on like a startup packet.               *)
TakeOpeningAny ==
  /\ pc \in {"startup", "restart"} /\ inbox # <<>>
  /\ PassOpening("auth")

(* A first SSLRequest is answered with N, anything else goes to the server.*)
TakeOpening ==
  /\ pc \in {"startup", "restart"} /\ inbox # <<>>
  /\ \/ /\ pc = "startup" /\ Head(inbox).kind = "ssl"
        /\ told' = Append(told, Pg("N"))
        /\ inbox' = <<>> /\ pc' = "restart"
        /\ UNCHANGED <<config, wire, plugin, server, up, down, gone>>
     \/ /\ pc = "restart" \/ Head(inbox).kind # "ssl"
        /\ PassOpening("auth")

AuthOk ==
  /\ pc = "auth" /\ Heard({"authOk"})
  /\ Succeed(Pg("authOk"))

AuthMd5 ==
  /\ pc = "auth" /\ Heard({"md5"})
  /\ \/ /\ setting.password # "unset"
        /\ down' = Tail(down) /\ UNCHANGED plugin
        /\ Ask(Pg("md5"), "auth")
     \/ setting.password = "unset" /\ FailSilently

AuthSasl ==
  /\ pc = "auth" /\ Heard({"sasl"})
  /\ \/ /\ setting.password # "unset"
        /\ down' = Tail(down) /\ UNCHANGED plugin
        /\ Ask(Pg("clientFirst"), "scramFirst")
     \/ setting.password = "unset" /\ FailSilently

(* A method, or a SASL mechanism, the driver does not know.                *)
AuthUnknown ==
  /\ pc = "auth" /\ Heard({"unsupported"})
  /\ FailSilently

AuthError ==
  /\ pc = "auth" /\ Heard({"err"})
  /\ FailTelling(Pg("err"))

(* Any other frame, a notice say, goes to the client.                      *)
AuthOther ==
  /\ pc = "auth" /\ Heard({"notice"})
  /\ told' = Append(told, Head(down))
  /\ down' = Tail(down)
  /\ UNCHANGED <<config, pc, wire, plugin, server, up, inbox, gone>>

(* build_client_final checks the nonce and the iteration count,            *)
(* verify_server_final the signature.                                      *)
FirstSound == upstream.proof \notin {"foreignNonce", "fewIterations"}
FinalSound == upstream.proof # "wrongSignature"

ScramFirst ==
  /\ pc = "scramFirst" /\ down # <<>>
  /\ \/ /\ Heard({"serverFirst"})
        /\ FirstSound
        /\ down' = Tail(down) /\ UNCHANGED plugin
        /\ Ask(Pg("clientFinal"), "scramFinal")
     \/ /\ Heard({"err"}) \/ ~FirstSound
        /\ FailSilently

(* Mutant: the server's signature is not compared.                         *)
ScramFinalUnverified ==
  /\ pc = "scramFinal" /\ down # <<>>
  /\ \/ /\ Heard({"serverFinal"})
        /\ down' = Tail(down) /\ pc' = "auth"
        /\ UNCHANGED <<config, wire, plugin, server, up, inbox, told, gone>>
     \/ Heard({"err"}) /\ FailSilently

(* verify_server_final; the AuthenticationOk is left for the loop.         *)
ScramFinal ==
  /\ pc = "scramFinal" /\ down # <<>>
  /\ \/ /\ Heard({"serverFinal"}) /\ FinalSound
        /\ down' = Tail(down) /\ pc' = "auth"
        /\ UNCHANGED <<config, wire, plugin, server, up, inbox, told, gone>>
     \/ /\ Heard({"err"}) \/ ~FinalSound
        /\ FailSilently

-----------------------------------------------------------------------------
(* The client.                                                             *)

Send(message) ==
  /\ inbox' = <<message>>
  /\ UNCHANGED <<config, pc, wire, plugin, server, up, down, told, gone>>

ClientSpeaks ==
  /\ inbox = <<>> /\ "client" \notin gone
  /\ \/ pc = "response" /\ Send(Msg("response", told[1].seq + 1))
     \/ pc = "startup"  /\ Send(Pg(opening))
     \/ pc = "restart"  /\ Send(Pg("startup"))

ClientLeaves ==
  /\ "client" \notin gone /\ pc \notin {"load", "off", "session", "closed"}
  /\ gone' = gone \cup {"client"}
  /\ UNCHANGED <<config, pc, wire, plugin, server, up, down, inbox, told>>

-----------------------------------------------------------------------------
(* The server.                                                             *)

Reply(messages, to, count) ==
  /\ down' = down \o messages
  /\ stage' = to /\ next' = count
  /\ UNCHANGED <<config, pc, wire, plugin, inbox, told, gone>>

MysqlGreets ==
  /\ pc = "greeting" /\ stage = "new" /\ "server" \notin gone
  /\ UNCHANGED up
  /\ Reply(<<Auth("greeting", 0, upstream.announced, 1)>>, "response", 1)

Reads(kinds) ==
  /\ "server" \notin gone /\ up # <<>> /\ Head(up).kind \in kinds
  /\ up' = Tail(up)

Rejects(seq) == Reply(<<Msg("err", seq)>>, "refused", seq + 1)

(* A packet is refused unless its number is the next one.                  *)
MysqlReads ==
  LET m == Head(up)  answer == m.seq + 1
      matches == /\ m.plugin = upstream.account /\ setting.password = "right"
                 /\ m.seed = IF stage = "token" THEN 2 ELSE 1
  IN  /\ Reads({"sslRequest", "token", "clear"})
      /\ IF m.seq # next THEN Rejects(answer) ELSE
         \/ m.kind = "sslRequest" /\ Reply(<<>>, "response", answer)
         \/ /\ m.kind = "token" /\ m.plugin # upstream.account
            /\ IF stage = "response"
                 THEN Reply(<<Auth("switch", answer, upstream.account, 2)>>,
                            "token", answer + 1)
                 ELSE Rejects(answer)
         \/ /\ m.kind = "token" /\ m.plugin = upstream.account
            /\ \/ matches /\ m.plugin = "native"
                  /\ Reply(<<Msg("ok", answer)>>, "accepted", answer + 1)
               \/ matches /\ m.plugin = "sha2" /\ upstream.cached
                  /\ Reply(<<Msg("fast", answer), Msg("ok", answer + 1)>>,
                           "accepted", answer + 2)
               \/ /\ m.plugin = "sha2" /\ setting.password # "unset"
                  /\ ~(matches /\ upstream.cached)
                  /\ Reply(<<Msg("full", answer)>>, "clear", answer + 1)
               \/ /\ ~matches /\ (m.plugin = "native" \/ setting.password = "unset")
                  /\ Rejects(answer)
         \/ /\ m.kind = "clear"
            /\ IF setting.password = "right"
                 THEN Reply(<<Msg("ok", answer)>>, "accepted", answer + 1)
                 ELSE Rejects(answer)

(* How PostgreSQL answers a startup packet, a notice before it or not.     *)
PgAsks ==
  CASE upstream.account = "trust" -> "authOk"
    [] upstream.account = "md5"   -> "md5"
    [] upstream.account = "scram" -> "sasl"
    [] OTHER                      -> "unsupported"

(* A negotiation request after the first packet of a connection is answered*)
(* with a single byte, which is not a frame.                               *)
PgStarts ==
  /\ Reads({"startup", "ssl", "gss"})
  /\ IF Head(up).kind = "startup"
       THEN \E messages \in {<<Pg(PgAsks)>>, <<Pg("notice"), Pg(PgAsks)>>} :
              Reply(messages, IF PgAsks = "authOk" THEN "accepted" ELSE "proof", 0)
       ELSE Reply(<<Pg("byte")>>, "new", 0)

PgReads ==
  /\ Reads({"md5", "clientFirst", "clientFinal"})
  /\ \/ /\ Head(up).kind = "clientFirst"
        /\ Reply(<<Pg("serverFirst")>>, "proof", 0)
     \/ /\ Head(up).kind = "md5" /\ setting.password = "right"
        /\ Reply(<<Pg("authOk")>>, "accepted", 0)
     \/ /\ Head(up).kind = "clientFinal" /\ setting.password = "right"
        /\ Reply(<<Pg("serverFinal"), Pg("authOk")>>, "accepted", 0)
     \/ /\ Head(up).kind # "clientFirst" /\ setting.password # "right"
        /\ Reply(<<Pg("err")>>, "refused", 0)

ServerLeaves ==
  /\ "server" \notin gone /\ pc \notin {"load", "off", "session", "closed"}
  /\ gone' = gone \cup {"server"}
  /\ up' = <<>>
  /\ UNCHANGED <<config, pc, wire, plugin, server, down, inbox, told>>

-----------------------------------------------------------------------------
MysqlProxy == TakeGreeting \/ TakeResponse \/ StartTls \/ Verdict \/ SwitchPlugin
                \/ FastPath \/ FullPath \/ Refused
PgProxy    == TakeOpening \/ AuthOk \/ AuthMd5 \/ AuthSasl \/ AuthUnknown
                \/ AuthError \/ AuthOther \/ ScramFirst \/ ScramFinal
Proxy      == Load \/ ConnectPlain \/ ConnectTls \/ EndOfFile \/ MysqlProxy \/ PgProxy
Server     == MysqlGreets \/ MysqlReads \/ PgStarts \/ PgReads

Next == Proxy \/ Server \/ ClientSpeaks \/ ClientLeaves \/ ServerLeaves

(* The event loop runs a ready handler. intercept_auth has no time limit:  *)
(* it ends as the client and the server, in their turn, go on or leave.    *)
Spec ==
  /\ Init /\ [][Next]_vars
  /\ WF_vars(Proxy) /\ WF_vars(Server) /\ WF_vars(ClientSpeaks)

-----------------------------------------------------------------------------
(* The login as DBProxy sees it, with this client for its only one.        *)
Connected == pc \notin {"load", "off", "connect", "closed"}

Proxied == INSTANCE DBProxy WITH
  Clients <- {"c"}, Settings <- {"postgres", "mysqlPlain", "mysqlTls"},
  MaxFrames <- 0, NoStream <- "none",
  setting <- IF ~Mysql THEN "postgres"
             ELSE IF setting.mode = "disable" THEN "mysqlPlain" ELSE "mysqlTls",
  stash <- IF Mysql /\ pc = "session" THEN "c" ELSE "none",
  pc <- [c \in {"c"} |-> CASE pc \in {"load", "off"}                -> "new"
                          [] pc \in {"connect", "session", "closed"} -> pc
                          [] OTHER                                   -> "auth"],
  filter <- [c \in {"c"} |-> IF pc = "session" THEN "created" ELSE "none"],
  relay <- [c \in {"c"} |-> IF pc = "session" THEN "loop" ELSE "none"],
  route <- [c \in {"c"} |-> "none"],
  client <- [c \in {"c"} |-> IF "client" \in gone THEN "left"
                             ELSE IF pc = "closed" THEN "closed" ELSE "open"],
  upOpen <- [c \in {"c"} |->
               Connected /\ "server" \notin gone /\ stage # "refused"],
  sent <- [c \in {"c"} |-> <<>>], inbox <- [c \in {"c"} |-> <<>>],
  forwarded <- [c \in {"c"} |-> <<>>], pending <- [c \in {"c"} |-> <<>>],
  served <- [c \in {"c"} |-> <<>>], replies <- [c \in {"c"} |-> <<>>],
  delivered <- [c \in {"c"} |-> <<>>]

-----------------------------------------------------------------------------
(* Correctness.                                                            *)

DemandsTls ==
  setting.mode \notin IF Mysql THEN {"disable"} ELSE {"disable", "allow", "prefer"}

Sends(kinds) == \E k \in 1 .. Len(up) : up[k].kind \in kinds

(* What proves the password, or a query, is on its way or may follow.      *)
Trusts == Sends(Credentials) \/ pc = "session"

(* Nothing that proves the password, and no query, travels before the      *)
(* protection that the connection and the operator demand is in place: TLS,*)
(* a certificate from the CA where it is to be verified and, of PostgreSQL,*)
(* the right name under verify-full. The password itself never travels     *)
(* without TLS.                                                            *)
CredentialsProtected ==
  /\ Trusts =>
       /\ DemandsTls => wire = "tls"
       /\ setting.required \/ setting.mode \in {"verify-ca", "verify-full"} =>
            wire = "tls" /\ upstream.cert # "untrusted"
       /\ ~Mysql /\ setting.mode = "verify-full" => upstream.cert = "right"
  /\ Sends({"clear"}) => wire = "tls"

(* The client is told it is logged in, and its session begins, only when   *)
(* the server has accepted this login and, where SCRAM is used, has proved *)
(* that it knows the password.                                             *)
SessionMeansAccepted ==
  (pc = "session" \/ \E k \in 1 .. Len(told) : told[k].kind \in {"ok", "authOk"}) =>
    /\ stage = "accepted"
    /\ upstream.account = "scram" => upstream.proof = "sound"

(* The packets of a MySQL login are numbered as both ends expect.          *)
InSequence ==
  Mysql => /\ \A k \in 1 .. Len(up) : up[k].seq = next
           /\ \A k \in 1 .. Len(told) : told[k].seq = 2 * (k - 1)

(* What a login needs.                                                     *)
CanLogIn ==
  /\ Complies /\ upstream.account # "unsupported"
  /\ setting.password = "right" \/ upstream.account = "trust"
  /\ DemandsTls => upstream.tls
  /\ upstream.tls /\ setting.mode # "disable" => CertificateSuffices
  /\ upstream.account = "scram" => upstream.proof = "sound"
  /\ Mysql => setting.user
  /\ Mysql /\ upstream.account = "sha2" /\ ~upstream.cached => setting.mode # "disable"

(* A login that could succeed does not fail unless one end leaves.         *)
FailsForCause == pc = "closed" => ~CanLogIn \/ gone # {}

(* As long as client and server go on, or leave, a login comes to an end:  *)
(* neither waits for the proxy while the proxy waits for the other. (A     *)
(* client that opens with GSSENCRequest excepted.)                         *)
LoginEnds == opening # "gss" => <>(pc \in {"off", "session", "closed"})

(* The dialogues of both drivers do to the proxy what the login of DBProxy *)
(* says: one outcome, the driver's streams stored on success only, both    *)
(* connections closed on failure.                                          *)
ImplementsDBProxy == Proxied!Init /\ [][Proxied!Next]_(Proxied!vars)
=============================================================================
