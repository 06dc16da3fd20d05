--------------------------- MODULE DBLoginProofs ---------------------------
(* Theorems about DBLogin, for any settings, servers and clients.          *)
EXTENDS DBLogin, TLAPS

PluginNames == Plugins \cup {"none", "trust", "md5", "scram", "unsupported"}

Message ==
  [kind : Credentials \cup
            {"greeting", "response", "sslRequest", "ok", "err", "switch", "fast",
             "full", "startup", "ssl", "gss", "N", "authOk", "sasl", "unsupported",
             "notice", "serverFirst", "serverFinal", "byte"},
   seq : Nat, plugin : PluginNames, seed : Nat]

Kinds(messages) == {messages[k].kind : k \in 1 .. Len(messages)}

MysqlLogin == {"greeting", "response", "tls", "verdict"}
PgLogin    == {"startup", "restart", "auth", "scramFirst", "scramFinal"}

(* The types the proofs need, and which driver is at which label.          *)
Typed ==
  /\ setting \in Setting /\ upstream \in Upstream
  /\ opening \in {"startup", "ssl", "gss"}
  /\ up \in Seq(Message) /\ down \in Seq(Message)
  /\ inbox \in Seq(Message) /\ told \in Seq(Message)
  /\ next \in Nat /\ plugin \in PluginNames
  /\ pc \in MysqlLogin \cup PgLogin
            \cup {"load", "off", "connect", "session", "closed"}
  /\ pc \in MysqlLogin => Mysql
  /\ pc \in PgLogin => ~Mysql
  /\ pc = "response" => told # <<>>
  /\ Kinds(inbox) \subseteq {"response", "startup", "ssl", "gss"}

(* What the connection and the operator demand is in place.                *)
Secured ==
  /\ DemandsTls => wire = "tls" /\ CertificateSuffices
  /\ setting.required => wire = "tls" /\ upstream.cert # "untrusted"

(* From which label on it must be, and where credentials may be on the way.*)
Protected ==
  /\ pc \notin {"load", "off"} => Complies
  /\ pc \in PgLogin \cup {"verdict", "session"} => Secured
  /\ Kinds(up) \cap Credentials # {} =>
       pc \in {"verdict", "auth", "scramFirst", "scramFinal", "session"}
  /\ "clear" \in Kinds(up) => wire = "tls"

LInv == Typed /\ Protected

LEMMA KindsOfAppend ==
  ASSUME NEW s \in Seq(Message), NEW m \in Message
  PROVE  Append(s, m) \in Seq(Message) /\ Kinds(Append(s, m)) = Kinds(s) \cup {m.kind}
<1>1. Append(s, m) \in Seq(Message) /\ Len(Append(s, m)) = Len(s) + 1
  OBVIOUS
<1>2. \A k \in 1 .. Len(s) + 1 : Append(s, m)[k] = IF k = Len(s) + 1 THEN m ELSE s[k]
  OBVIOUS
<1>3. Len(s) \in Nat
  OBVIOUS
<1> QED
  BY <1>1, <1>2, <1>3 DEF Kinds

LEMMA KindsOfTail ==
  ASSUME NEW s \in Seq(Message), s # <<>>
  PROVE  /\ Tail(s) \in Seq(Message) /\ Kinds(Tail(s)) \subseteq Kinds(s)
         /\ Head(s) \in Message /\ Head(s).kind \in Kinds(s)
<1>1. Tail(s) \in Seq(Message) /\ Len(Tail(s)) = Len(s) - 1 /\ Head(s) = s[1]
  OBVIOUS
<1>2. \A k \in 1 .. Len(s) - 1 : Tail(s)[k] = s[k + 1]
  OBVIOUS
<1>3. Len(s) \in Nat /\ Len(s) >= 1 /\ s[1] \in Message
  OBVIOUS
<1>4. Kinds(Tail(s)) \subseteq Kinds(s)
  <2> SUFFICES ASSUME NEW k \in 1 .. Len(s) - 1
               PROVE  Tail(s)[k].kind \in Kinds(s)
    BY <1>1 DEF Kinds
  <2> QED
    BY <1>2, <1>3 DEF Kinds
<1> QED
  BY <1>1, <1>3, <1>4 DEF Kinds

LEMMA KindsOfOne ==
  ASSUME NEW m \in Message
  PROVE  <<m>> \in Seq(Message) /\ Kinds(<<m>>) = {m.kind}
BY DEF Kinds

LEMMA KindsOfNone == <<>> \in Seq(Message) /\ Kinds(<<>>) = {}
BY DEF Kinds

(* The policy loader lets TLS be demanded with a checked certificate only. *)
LEMMA CompliantIsSecured ==
  ASSUME Typed, Complies, DemandsTls => wire = "tls" /\ CertificateSuffices
  PROVE  Secured
BY DEF Typed, Complies, Secured, DemandsTls, CertificateSuffices, Setting, Mysql, Modes

-----------------------------------------------------------------------------
(* The kinds of steps.                                                     *)

(* A step of the client or of the server, and a step that only consumes.   *)
LEMMA QuietStep ==
  ASSUME LInv, UNCHANGED <<config, pc, wire, plugin>>,
         up' \in Seq(Message), Kinds(up') \subseteq Kinds(up),
         down' \in Seq(Message), inbox' \in Seq(Message), told' \in Seq(Message),
         Kinds(inbox') \subseteq {"response", "startup", "ssl", "gss"},
         pc = "response" => told' # <<>>, next' \in Nat
  PROVE  LInv'
<1> USE DEF LInv, config
<1>1. Typed'
  BY DEF Typed, Mysql
<1>2. Protected'
  BY DEF Protected, Secured, Complies, DemandsTls, CertificateSuffices, Mysql
<1> QED
  BY <1>1, <1>2

LEMMA FailStep ==
  ASSUME LInv, Fail, pc \notin {"load", "off"}, told' \in Seq(Message)
  PROVE  LInv'
<1> USE DEF LInv, config, server, Fail
<1>1. Typed'
  BY KindsOfNone DEF Typed, Mysql, MysqlLogin, PgLogin, Kinds
<1>2. Protected'
  BY KindsOfNone DEF Protected, Complies, PgLogin, MysqlLogin, Kinds, Secured
<1> QED
  BY <1>1, <1>2

LEMMA FailSilentlyStep ==
  ASSUME LInv, FailSilently, pc \notin {"load", "off"}
  PROVE  LInv'
<1>1. told' \in Seq(Message)
  BY DEF LInv, Typed, FailSilently
<1> QED
  BY <1>1, FailStep DEF FailSilently

LEMMA FailTellingStep ==
  ASSUME LInv, NEW m \in Message, FailTelling(m), pc \notin {"load", "off"}
  PROVE  LInv'
<1>1. told' \in Seq(Message)
  BY KindsOfAppend DEF LInv, Typed, FailTelling
<1> QED
  BY <1>1, FailStep DEF FailTelling

(* A step of the proxy to another label, that tells and asks at most once. *)
LEMMA MoveStep ==
  ASSUME LInv, UNCHANGED config,
         up' \in Seq(Message), down' \in Seq(Message),
         inbox' \in Seq(Message), Kinds(inbox') \subseteq Kinds(inbox),
         told' \in Seq(Message), pc' = "response" => told' # <<>>,
         next' = next, plugin' \in PluginNames,
         Complies, wire' = "tls" \/ wire' = wire,
         pc' \in MysqlLogin \cup {"connect", "session"} \/ pc' \in PgLogin,
         pc' \in MysqlLogin => Mysql, pc' \in PgLogin => ~Mysql,
         pc' \in PgLogin \cup {"verdict", "session"} => Secured',
         Kinds(up') \subseteq Kinds(up) \/
           (pc' \in {"verdict", "auth", "scramFirst", "scramFinal"} /\
            ("clear" \in Kinds(up') => "clear" \in Kinds(up) \/ wire' = "tls")),
         Kinds(up) \cap Credentials = {} \/
           pc' \in {"verdict", "auth", "scramFirst", "scramFinal", "session"}
  PROVE  LInv'
<1> USE DEF LInv, config
<1>1. Typed'
  BY DEF Typed, Mysql
<1>2. Complies'
  BY DEF Complies
<1>3. Protected'
  BY <1>2 DEF Protected, Credentials
<1> QED
  BY <1>1, <1>3

(* Protection, once there, stays while the connection does.                *)
LEMMA SecuredStays ==
  ASSUME Secured, UNCHANGED <<config, wire>>
  PROVE  Secured'
BY DEF Secured, config, DemandsTls, CertificateSuffices, Mysql

LEMMA SucceedStep ==
  ASSUME LInv, NEW m \in Message, Succeed(m), down # <<>>, pc \in {"verdict", "auth"}
  PROVE  LInv'
<1>1. CASE FailSilently
  BY <1>1, FailSilentlyStep
<1>2. CASE ~FailSilently
  <2> USE DEF LInv, Succeed
  <2>1. pc' = "session" /\ UNCHANGED <<config, wire, plugin, next, up, inbox>>
    BY <1>2 DEF server
  <2>2. told' = Append(told, m) /\ down' = Tail(down)
    BY <1>2
  <2>3. told' \in Seq(Message)
    BY <2>2, KindsOfAppend DEF Typed
  <2>4. down' \in Seq(Message)
    BY <2>2, KindsOfTail DEF Typed
  <2>5. Secured' /\ Complies
    BY <2>1, SecuredStays DEF Protected, PgLogin
  <2> QED
    BY <2>1, <2>3, <2>4, <2>5, MoveStep DEF Typed, MysqlLogin, PgLogin
<1> QED
  BY <1>1, <1>2

LEMMA AskStep ==
  ASSUME LInv, NEW m \in Message, NEW then, Ask(m, then), Secured,
         down' \in Seq(Message), plugin' \in PluginNames,
         then \in {"verdict", "auth", "scramFirst", "scramFinal"},
         then = "verdict" <=> Mysql, m.kind = "clear" => wire = "tls",
         pc \notin {"load", "off"}
  PROVE  LInv'
<1> USE DEF LInv, Ask, server
<1>1. up' \in Seq(Message) /\ Kinds(up') = Kinds(up) \cup {m.kind}
  BY KindsOfAppend DEF Typed
<1>2. Secured' /\ Complies
  BY SecuredStays DEF Protected
<1> QED
  BY <1>1, <1>2, MoveStep DEF Typed, MysqlLogin, PgLogin

-----------------------------------------------------------------------------
(* Every action of the proxy.                                              *)

LEMMA ConnectSteps ==
  ASSUME LInv, Load \/ ConnectPlain \/ ConnectTls \/ EndOfFile
  PROVE  LInv'
<1>1. CASE Load
  <2> USE <1>1 DEF Load, LInv, config, server
  <2>1. Typed'
    BY DEF Typed, Mysql, MysqlLogin, PgLogin, Kinds
  <2>2. Protected'
    BY DEF Protected, Complies, MysqlLogin, PgLogin, Kinds, Credentials
  <2> QED
    BY <2>1, <2>2
<1>2. ASSUME NEW security \in {"plain", "tls"}, NEW then,
             pc = "connect", ConnectedAs(security, then),
             then = IF Mysql THEN "greeting" ELSE "startup",
             ~Mysql /\ DemandsTls => security = "tls" /\ CertificateSuffices,
             ~Mysql /\ setting.required => security = "tls" /\ upstream.cert # "untrusted"
      PROVE  LInv'
  <2> USE <1>2 DEF ConnectedAs, LInv, config, server
  <2>1. Typed'
    BY DEF Typed, Mysql, MysqlLogin, PgLogin, Kinds
  <2>2. Complies'
    BY DEF Protected, Complies
  <2>3. Kinds(up') \cap Credentials = {} /\ "clear" \notin Kinds(up')
    BY DEF Protected, Kinds, Credentials
  <2>4. pc' \in PgLogin => Secured'
    BY DEF Secured, DemandsTls, CertificateSuffices, Mysql, MysqlLogin, PgLogin
  <2> QED
    BY <2>1, <2>2, <2>3, <2>4 DEF Protected, PgLogin
<1>3. CASE ConnectPlain
  <2>1. ~Mysql => ~DemandsTls /\ ~setting.required
    BY <1>3 DEF ConnectPlain, DemandsTls, LInv, Typed, Protected, Complies
  <2> QED
    BY <1>3, <1>2, <2>1 DEF ConnectPlain
<1>4. CASE ConnectTls
  <2>1. CASE FailSilently
    BY <1>4, <2>1, FailSilentlyStep DEF ConnectTls
  <2>2. CASE ~Mysql /\ upstream.tls /\ CertificateSuffices /\ ConnectedAs("tls", "startup")
    <3>1. setting.required => upstream.cert # "untrusted"
      BY <1>4, <2>2 DEF ConnectTls, LInv, Protected, Complies, CertificateSuffices
    <3> QED
      BY <1>4, <2>2, <3>1, <1>2 DEF ConnectTls
  <2>3. CASE ~Mysql /\ setting.mode \in {"prefer", "allow"} /\ ConnectedAs("plain", "startup")
    <3>1. ~DemandsTls /\ ~setting.required
      BY <1>4, <2>3 DEF ConnectTls, DemandsTls, LInv, Protected, Complies
    <3> QED
      BY <1>4, <2>3, <3>1, <1>2 DEF ConnectTls
  <2> QED
    BY <1>4, <2>1, <2>2, <2>3 DEF ConnectTls
<1>5. CASE EndOfFile
  BY <1>5, FailSilentlyStep DEF EndOfFile
<1> QED
  BY <1>1, <1>3, <1>4, <1>5

LEMMA MysqlSteps ==
  ASSUME LInv, MysqlProxy
  PROVE  LInv'
<1> USE DEF LInv
<1>1. CASE TakeGreeting
  <2>1. /\ pc = "greeting" /\ pc' = "response" /\ down # <<>>
        /\ told' = Append(told, Msg("greeting", Head(down).seq)) /\ down' = Tail(down)
        /\ UNCHANGED <<config, wire, next, up, inbox>>
    BY <1>1 DEF TakeGreeting, Heard, server
  <2>2. Head(down) \in Message /\ down' \in Seq(Message)
    BY <2>1, KindsOfTail DEF Typed
  <2>3. Msg("greeting", Head(down).seq) \in Message /\ plugin' \in PluginNames
    BY <1>1, <2>2 DEF Msg, Message, TakeGreeting, PluginNames
  <2>4. told' \in Seq(Message) /\ told' # <<>>
    BY <2>1, <2>3, KindsOfAppend DEF Typed
  <2>5. Kinds(up) \cap Credentials = {} /\ Complies
    BY <2>1 DEF Protected
  <2> QED
    BY <2>1, <2>2, <2>3, <2>4, <2>5, MoveStep DEF Typed, MysqlLogin, PgLogin
<1>2. CASE TakeResponse
  <2>1. CASE FailSilently
    BY <1>2, <2>1, FailSilentlyStep DEF TakeResponse
  <2>2. CASE ~FailSilently
    <3> DEFINE m == IF WantsTls THEN Msg("sslRequest", Head(inbox).seq)
                                ELSE Token(plugin, Head(inbox).seq, 1)
    <3>1. /\ pc = "response" /\ inbox # <<>> /\ inbox' = <<>>
          /\ up' = Append(up, m) /\ pc' = IF WantsTls THEN "tls" ELSE "verdict"
          /\ UNCHANGED <<config, wire, plugin, next, down, told>>
      BY <1>2, <2>2 DEF TakeResponse, server
    <3>2. Head(inbox) \in Message /\ Complies /\ Kinds(up) \cap Credentials = {}
      BY <3>1, KindsOfTail DEF Typed, Protected
    <3>3. m \in Message /\ m.kind = IF WantsTls THEN "sslRequest" ELSE "token"
      BY <3>2 DEF Msg, Token, Auth, Message, PluginNames, Typed, Plugins, Credentials
    <3> HIDE DEF m
    <3>4. up' \in Seq(Message) /\ Kinds(up') = Kinds(up) \cup {m.kind}
      BY <3>1, <3>3, KindsOfAppend DEF Typed
    <3>5. inbox' \in Seq(Message) /\ Kinds(inbox') = {}
      BY <3>1, KindsOfNone
    <3>6. ~WantsTls => Secured
      BY <3>1, <3>2 DEF Secured, WantsTls, DemandsTls, Complies, Typed, MysqlLogin
    <3>7. ~WantsTls => Secured'
      BY <3>1, <3>6, SecuredStays
    <3>8. Mysql
      BY <3>1 DEF Typed, MysqlLogin
    <3>9. CASE WantsTls
      <4>1. /\ Typed'
        BY <3>1, <3>3, <3>4, <3>5, <3>8, <3>9 DEF Typed, Mysql, MysqlLogin, PgLogin, config
      <4>2. Protected'
        BY <3>1, <3>2, <3>3, <3>4, <3>9
        DEF Protected, Complies, Credentials, PgLogin, config
      <4> QED
        BY <4>1, <4>2
    <3>10. CASE ~WantsTls
      BY <3>1, <3>2, <3>3, <3>4, <3>5, <3>7, <3>8, <3>10, MoveStep
      DEF Typed, MysqlLogin, PgLogin
    <3> QED
      BY <3>9, <3>10
  <2> QED
    BY <2>1, <2>2
<1>3. CASE StartTls
  <2>1. CASE FailSilently
    BY <1>3, <2>1, FailSilentlyStep DEF StartTls
  <2>2. CASE ~FailSilently
    <3>1. /\ pc = "tls" /\ CertificateSuffices /\ pc' = "verdict" /\ wire' = "tls"
          /\ up' = <<Token(plugin, 2, 1)>>
          /\ UNCHANGED <<config, plugin, next, down, inbox, told>>
      BY <1>3, <2>2 DEF StartTls, server
    <3>2. Token(plugin, 2, 1) \in Message /\ Token(plugin, 2, 1).kind = "token"
      BY DEF Token, Auth, Message, PluginNames, Typed, Plugins, Credentials
    <3>3. up' \in Seq(Message) /\ Kinds(up') = {"token"}
      BY <3>1, <3>2, KindsOfOne
    <3>4. Complies /\ Kinds(up) \cap Credentials = {}
      BY <3>1 DEF Protected
    <3>5. Secured'
      BY <3>1, <3>4 DEF Secured, DemandsTls, CertificateSuffices, Complies, Mysql, config
    <3> QED
      BY <3>1, <3>3, <3>4, <3>5, MoveStep DEF Typed, MysqlLogin, PgLogin
  <2> QED
    BY <2>1, <2>2
<1>4. ASSUME pc = "verdict", down # <<>>
      PROVE  /\ Head(down) \in Message /\ Tail(down) \in Seq(Message)
             /\ Secured /\ Complies /\ Mysql
  BY <1>4, KindsOfTail DEF Typed, Protected, MysqlLogin
<1>5. Denied \in Message /\ Msg("ok", 2) \in Message
  BY DEF Denied, Msg, Message, PluginNames
<1>6. CASE Verdict
  BY <1>6, <1>5, SucceedStep DEF Verdict, Heard
<1>7. CASE SwitchPlugin
  <2> DEFINE m == Token(Head(down).plugin, Head(down).seq + 1, Head(down).seed)
  <2>1. CASE FailTelling(Denied)
    BY <1>5, <1>7, <2>1, FailTellingStep DEF SwitchPlugin
  <2>2. CASE ~FailTelling(Denied)
    <3>1. /\ pc = "verdict" /\ down # <<>> /\ Head(down).plugin \in Plugins
          /\ plugin' \in PluginNames /\ down' = Tail(down) /\ Ask(m, "verdict")
      BY <1>7, <2>2 DEF SwitchPlugin, Heard, PluginNames
    <3>2. m \in Message /\ m.kind = "token"
      BY <3>1, <1>4 DEF Token, Auth, Message, PluginNames, Credentials
    <3> HIDE DEF m
    <3> QED
      BY <3>1, <3>2, <1>4, AskStep
  <2> QED
    BY <2>1, <2>2
<1>8. CASE FastPath
  <2>1. /\ pc = "verdict" /\ down # <<>> /\ down' = Tail(down)
        /\ UNCHANGED <<config, pc, wire, plugin, next, up, inbox, told>>
    BY <1>8 DEF FastPath, Heard, server
  <2> QED
    BY <2>1, <1>4, QuietStep DEF Typed
<1>9. CASE FullPath
  <2> DEFINE m == Msg("clear", Head(down).seq + 1)
  <2>1. CASE FailTelling(Denied)
    BY <1>5, <1>9, <2>1, FailTellingStep DEF FullPath
  <2>2. CASE ~FailTelling(Denied)
    <3>1. /\ pc = "verdict" /\ down # <<>> /\ wire = "tls"
          /\ plugin' = plugin /\ down' = Tail(down) /\ Ask(m, "verdict")
      BY <1>9, <2>2 DEF FullPath, Heard
    <3>2. m \in Message /\ m.kind = "clear"
      BY <3>1, <1>4 DEF Msg, Message, PluginNames, Credentials
    <3> HIDE DEF m
    <3> QED
      BY <3>1, <3>2, <1>4, AskStep DEF Typed
  <2> QED
    BY <2>1, <2>2
<1>10. CASE Refused
  BY <1>5, <1>10, FailTellingStep DEF Refused
<1> QED
  BY <1>1, <1>2, <1>3, <1>6, <1>7, <1>8, <1>9, <1>10 DEF MysqlProxy

LEMMA PgSteps ==
  ASSUME LInv, PgProxy
  PROVE  LInv'
<1> USE DEF LInv
<1>1. ASSUME pc \in PgLogin
      PROVE  Secured /\ Complies /\ ~Mysql /\ pc \notin {"load", "off"}
  BY <1>1 DEF Typed, Protected, PgLogin
<1>2. ASSUME down # <<>>
      PROVE  Head(down) \in Message /\ Tail(down) \in Seq(Message)
  BY <1>2, KindsOfTail DEF Typed
<1>3. /\ Pg("N") \in Message /\ Pg("authOk") \in Message /\ Pg("err") \in Message
      /\ Pg("md5") \in Message /\ Pg("clientFirst") \in Message
      /\ Pg("clientFinal") \in Message
      /\ Pg("md5").kind = "md5" /\ Pg("clientFirst").kind = "clientFirst"
      /\ Pg("clientFinal").kind = "clientFinal"
  BY DEF Pg, Msg, Message, PluginNames, Credentials
<1>4. CASE TakeOpening
  <2>1. /\ pc \in {"startup", "restart"} /\ inbox # <<>> /\ inbox' = <<>>
        /\ UNCHANGED <<config, wire, plugin, next, down>>
    BY <1>4 DEF TakeOpening, PassOpening, server
  <2>2. /\ Head(inbox) \in Message
        /\ Head(inbox).kind \in {"response", "startup", "ssl", "gss"}
        /\ inbox' \in Seq(Message) /\ Kinds(inbox') = {}
    BY <2>1, KindsOfTail, KindsOfNone DEF Typed
  <2>3. /\ Complies /\ Secured' /\ ~Mysql /\ Kinds(up) \cap Credentials = {}
    BY <2>1, <1>1, SecuredStays DEF Protected, PgLogin
  <2>4. CASE pc' = "restart" /\ told' = Append(told, Pg("N")) /\ up' = up
    <3>1. told' \in Seq(Message)
      BY <2>4, <1>3, KindsOfAppend DEF Typed
    <3> QED
      BY <2>1, <2>2, <2>3, <2>4, <3>1, MoveStep DEF Typed, PgLogin, MysqlLogin
  <2>5. CASE pc' = "auth" /\ up' = Append(up, Head(inbox)) /\ told' = told
    <3>1. up' \in Seq(Message) /\ Kinds(up') = Kinds(up) \cup {Head(inbox).kind}
      BY <2>5, <2>2, KindsOfAppend DEF Typed
    <3>2. "clear" \in Kinds(up') => "clear" \in Kinds(up)
      BY <3>1, <2>2
    <3> QED
      BY <2>1, <2>2, <2>3, <2>5, <3>1, <3>2, MoveStep DEF Typed, PgLogin, MysqlLogin
  <2> QED
    BY <1>4, <2>4, <2>5 DEF TakeOpening, PassOpening
<1>5. CASE AuthOk
  BY <1>5, <1>3, SucceedStep DEF AuthOk, Heard
<1>6. CASE AuthMd5
  <2>1. CASE FailSilently
    BY <1>6, <2>1, FailSilentlyStep DEF AuthMd5
  <2>2. CASE ~FailSilently
    <3>1. /\ pc = "auth" /\ down # <<>> /\ plugin' = plugin /\ down' = Tail(down)
          /\ Ask(Pg("md5"), "auth")
      BY <1>6, <2>2 DEF AuthMd5, Heard
    <3> QED
      BY <3>1, <1>1, <1>2, <1>3, AskStep DEF Typed, PgLogin
  <2> QED
    BY <2>1, <2>2
<1>7. CASE AuthSasl
  <2>1. CASE FailSilently
    BY <1>7, <2>1, FailSilentlyStep DEF AuthSasl
  <2>2. CASE ~FailSilently
    <3>1. /\ pc = "auth" /\ down # <<>> /\ plugin' = plugin /\ down' = Tail(down)
          /\ Ask(Pg("clientFirst"), "scramFirst")
      BY <1>7, <2>2 DEF AuthSasl, Heard
    <3> QED
      BY <3>1, <1>1, <1>2, <1>3, AskStep DEF Typed, PgLogin
  <2> QED
    BY <2>1, <2>2
<1>8. CASE AuthUnknown
  BY <1>8, FailSilentlyStep DEF AuthUnknown
<1>9. CASE AuthError
  BY <1>9, <1>3, FailTellingStep DEF AuthError
<1>10. CASE AuthOther
  <2>1. /\ pc = "auth" /\ down # <<>> /\ down' = Tail(down)
        /\ told' = Append(told, Head(down))
        /\ UNCHANGED <<config, pc, wire, plugin, next, up, inbox>>
    BY <1>10 DEF AuthOther, Heard, server
  <2>2. told' \in Seq(Message)
    BY <2>1, <1>2, KindsOfAppend DEF Typed
  <2> QED
    BY <2>1, <2>2, <1>2, QuietStep DEF Typed
<1>11. CASE ScramFirst
  <2>1. CASE FailSilently
    BY <1>11, <2>1, FailSilentlyStep DEF ScramFirst
  <2>2. CASE ~FailSilently
    <3>1. /\ pc = "scramFirst" /\ down # <<>> /\ plugin' = plugin /\ down' = Tail(down)
          /\ Ask(Pg("clientFinal"), "scramFinal")
      BY <1>11, <2>2 DEF ScramFirst, Heard
    <3> QED
      BY <3>1, <1>1, <1>2, <1>3, AskStep DEF Typed, PgLogin
  <2> QED
    BY <2>1, <2>2
<1>12. CASE ScramFinal
  <2>1. CASE FailSilently
    BY <1>12, <2>1, FailSilentlyStep DEF ScramFinal
  <2>2. CASE ~FailSilently
    <3>1. /\ pc = "scramFinal" /\ down # <<>> /\ down' = Tail(down) /\ pc' = "auth"
          /\ UNCHANGED <<config, wire, plugin, next, up, inbox, told>>
      BY <1>12, <2>2 DEF ScramFinal, server
    <3>2. Complies /\ Secured' /\ ~Mysql
      BY <3>1, <1>1, SecuredStays DEF PgLogin
    <3> QED
      BY <3>1, <3>2, <1>2, MoveStep DEF Typed, PgLogin, MysqlLogin
  <2> QED
    BY <2>1, <2>2
<1> QED
  BY <1>4, <1>5, <1>6, <1>7, <1>8, <1>9, <1>10, <1>11, <1>12 DEF PgProxy

-----------------------------------------------------------------------------
(* The client and the server.                                              *)

LEMMA ReplyStep ==
  ASSUME LInv, NEW messages \in Seq(Message), NEW to, NEW count \in Nat,
         Reply(messages, to, count), up' \in Seq(Message), Kinds(up') \subseteq Kinds(up)
  PROVE  LInv'
<1>1. down \o messages \in Seq(Message)
  BY DEF LInv, Typed
<1>2. down' = down \o messages /\ next' = count
      /\ UNCHANGED <<config, pc, wire, plugin, inbox, told>>
  BY DEF Reply
<1> QED
  BY <1>1, <1>2, QuietStep DEF LInv, Typed

(* What a MySQL server answers is a message.                               *)
LEMMA AuthIsMessage ==
  ASSUME upstream \in Upstream, NEW n \in Nat
  PROVE  /\ Auth("switch", n, upstream.account, 2) \in Message
         /\ Auth("switch", n, upstream.account, 2).kind = "switch"
<1>1. upstream.account \in PluginNames
  BY DEF Upstream, PluginNames
<1> DEFINE p == upstream.account
<1>2. p \in PluginNames
  BY <1>1
<1> HIDE DEF p
<1>3. Auth("switch", n, p, 2) \in Message /\ Auth("switch", n, p, 2).kind = "switch"
  BY <1>2 DEF Auth, Message
<1> QED
  BY <1>3 DEF p

LEMMA MsgIsMessage ==
  ASSUME NEW k \in {"err", "ok", "full", "fast"}, NEW n \in Nat
  PROVE  Msg(k, n) \in Message /\ Msg(k, n).kind = k
BY DEF Msg, Message, PluginNames

LEMMA ServerSteps ==
  ASSUME LInv, Server
  PROVE  LInv'
<1>1. ASSUME NEW m \in Message, NEW n \in Message
      PROVE  <<>> \in Seq(Message) /\ <<m>> \in Seq(Message) /\ <<m, n>> \in Seq(Message)
  OBVIOUS
<1>2. ASSUME NEW kinds, Reads(kinds)
      PROVE  /\ up # <<>> /\ Head(up) \in Message /\ Head(up).kind \in kinds
             /\ up' \in Seq(Message) /\ Kinds(up') \subseteq Kinds(up)
  BY <1>2, KindsOfTail DEF Reads, LInv, Typed
<1>3. CASE MysqlGreets
  <2>1. Auth("greeting", 0, upstream.announced, 1) \in Message
    BY DEF Auth, Message, PluginNames, LInv, Typed, Upstream
  <2>2. <<Auth("greeting", 0, upstream.announced, 1)>> \in Seq(Message)
    BY <2>1
  <2> QED
    BY <1>3, <2>2, ReplyStep DEF MysqlGreets, LInv, Typed
<1>4. CASE MysqlReads
  <2> DEFINE m == Head(up)
             answer == m.seq + 1
  <2>1. /\ m \in Message /\ up' \in Seq(Message) /\ Kinds(up') \subseteq Kinds(up)
    BY <1>4, <1>2 DEF MysqlReads
  <2>2. m.seq \in Nat
    BY <2>1 DEF Message
  <2>3. /\ Msg("err", answer) \in Message /\ Msg("ok", answer) \in Message
        /\ Msg("full", answer) \in Message /\ Msg("fast", answer) \in Message
        /\ Msg("ok", answer + 1) \in Message
    BY <2>2 DEF Msg, Message, PluginNames
  <2>4. Auth("switch", answer, upstream.account, 2) \in Message
    <3>1. answer \in Nat
      BY <2>2
    <3> HIDE DEF answer
    <3> QED
      BY <3>1, AuthIsMessage DEF LInv, Typed
  <2>5. \/ Rejects(answer)
        \/ Reply(<<>>, "response", answer)
        \/ Reply(<<Auth("switch", answer, upstream.account, 2)>>, "token", answer + 1)
        \/ Reply(<<Msg("ok", answer)>>, "accepted", answer + 1)
        \/ Reply(<<Msg("fast", answer), Msg("ok", answer + 1)>>, "accepted", answer + 2)
        \/ Reply(<<Msg("full", answer)>>, "clear", answer + 1)
    BY <1>4 DEF MysqlReads
  <2>6. answer \in Nat /\ answer + 1 \in Nat /\ answer + 2 \in Nat
    BY <2>2
  <2> HIDE DEF m, answer
  <2>7. CASE Rejects(answer)
    BY <1>1, <2>1, <2>3, <2>6, <2>7, ReplyStep DEF Rejects
  <2>8. CASE Reply(<<>>, "response", answer)
    BY <1>1, <2>1, <2>4, <2>6, <2>8, ReplyStep
  <2>9. CASE Reply(<<Auth("switch", answer, upstream.account, 2)>>, "token", answer + 1)
    BY <1>1, <2>1, <2>4, <2>6, <2>9, ReplyStep
  <2>10. CASE Reply(<<Msg("ok", answer)>>, "accepted", answer + 1)
    BY <1>1, <2>1, <2>3, <2>6, <2>10, ReplyStep
  <2>11. CASE Reply(<<Msg("fast", answer), Msg("ok", answer + 1)>>, "accepted", answer + 2)
    BY <1>1, <2>1, <2>3, <2>6, <2>11, ReplyStep
  <2>12. CASE Reply(<<Msg("full", answer)>>, "clear", answer + 1)
    BY <1>1, <2>1, <2>3, <2>6, <2>12, ReplyStep
  <2> QED
    BY <2>5, <2>7, <2>8, <2>9, <2>10, <2>11, <2>12
<1>5. /\ Pg("byte") \in Message /\ Pg("notice") \in Message /\ Pg("serverFirst") \in Message
      /\ Pg("authOk") \in Message /\ Pg("serverFinal") \in Message /\ Pg("err") \in Message
      /\ Pg("md5") \in Message /\ Pg("sasl") \in Message /\ Pg("unsupported") \in Message
  BY DEF Pg, Msg, Message, PluginNames, Credentials
<1>6. CASE PgStarts
  <2>1. up' \in Seq(Message) /\ Kinds(up') \subseteq Kinds(up)
    BY <1>6, <1>2 DEF PgStarts
  <2>2. Pg(PgAsks) \in Message
    BY <1>5 DEF PgAsks
  <2>3. CASE Reply(<<Pg("byte")>>, "new", 0)
    BY <1>1, <1>5, <2>1, <2>3, ReplyStep
  <2>4. ASSUME NEW messages \in {<<Pg(PgAsks)>>, <<Pg("notice"), Pg(PgAsks)>>}, NEW to,
               Reply(messages, to, 0)
        PROVE  LInv'
    BY <1>1, <1>5, <2>1, <2>2, <2>4, ReplyStep
  <2> QED
    BY <1>6, <2>3, <2>4 DEF PgStarts
<1>7. CASE PgReads
  <2>1. up' \in Seq(Message) /\ Kinds(up') \subseteq Kinds(up)
    BY <1>7, <1>2 DEF PgReads
  <2>2. \/ Reply(<<Pg("serverFirst")>>, "proof", 0)
        \/ Reply(<<Pg("authOk")>>, "accepted", 0)
        \/ Reply(<<Pg("serverFinal"), Pg("authOk")>>, "accepted", 0)
        \/ Reply(<<Pg("err")>>, "refused", 0)
    BY <1>7 DEF PgReads
  <2> QED
    BY <1>1, <1>5, <2>1, <2>2, ReplyStep
<1> QED
  BY <1>3, <1>4, <1>6, <1>7 DEF Server

LEMMA EndSteps ==
  ASSUME LInv, ClientSpeaks \/ ClientLeaves \/ ServerLeaves \/ UNCHANGED vars
  PROVE  LInv'
<1> USE DEF LInv
<1>1. CASE ClientSpeaks
  <2>1. ASSUME NEW m \in Message, Send(m), m.kind \in {"response", "startup", "ssl", "gss"}
        PROVE  LInv'
    <3>1. inbox' \in Seq(Message) /\ Kinds(inbox') = {m.kind}
      BY <2>1, KindsOfOne DEF Send
    <3> QED
      BY <2>1, <3>1, QuietStep DEF Send, Typed, server
  <2>2. CASE pc = "response" /\ Send(Msg("response", told[1].seq + 1))
    <3>1. told[1] \in Message
      BY <2>2 DEF Typed
    <3>2. Msg("response", told[1].seq + 1) \in Message
      BY <3>1 DEF Msg, Message, PluginNames
    <3>3. Msg("response", told[1].seq + 1).kind = "response"
      BY DEF Msg
    <3> QED
      BY <2>1, <2>2, <3>2, <3>3
  <2>3. opening \in {"startup", "ssl", "gss"}
    BY DEF Typed
  <2>4. ASSUME NEW k \in {"startup", "ssl", "gss"}
        PROVE  Pg(k) \in Message /\ Pg(k).kind = k
    BY <2>4 DEF Pg, Msg, Message, PluginNames
  <2>5. CASE Send(Pg(opening)) \/ Send(Pg("startup"))
    BY <2>1, <2>3, <2>4, <2>5
  <2> QED
    BY <1>1, <2>2, <2>5 DEF ClientSpeaks
<1>2. CASE ClientLeaves \/ UNCHANGED vars
  BY <1>2, QuietStep DEF ClientLeaves, vars, server, Typed
<1>3. CASE ServerLeaves
  <2>1. up' = <<>> /\ UNCHANGED <<config, pc, wire, plugin, next, down, inbox, told>>
    BY <1>3 DEF ServerLeaves, server
  <2>2. up' \in Seq(Message) /\ Kinds(up') \subseteq Kinds(up)
    BY <2>1, KindsOfNone
  <2> QED
    BY <2>1, <2>2, QuietStep DEF Typed
<1> QED
  BY <1>1, <1>2, <1>3

-----------------------------------------------------------------------------
(* The label of the proxy, the security of its connection and the messages *)
(* on their way to the server stay together: from the label at which the   *)
(* proxy may send anything secret on, what the policy demands is in place. *)
THEOREM LoginInvariant == Spec => []LInv
<1>1. Init => LInv
  <2> SUFFICES ASSUME Init
               PROVE  LInv
    OBVIOUS
  <2>1. Typed
    BY LoginAssumption, KindsOfNone
    DEF Init, Typed, MysqlLogin, PgLogin, PluginNames, Plugins
  <2>2. Protected
    BY KindsOfNone DEF Init, Protected, PgLogin
  <2> QED
    BY <2>1, <2>2 DEF LInv
<1>2. LInv /\ [Next]_vars => LInv'
  BY ConnectSteps, MysqlSteps, PgSteps, ServerSteps, EndSteps DEF Next, Proxy
<1> QED
  BY <1>1, <1>2, PTL DEF Spec

(* connect_upstream, build_ssl_context and the guards of intercept_auth:   *)
(* for every setting, server and client, nothing secret travels before the *)
(* protection demanded is in place, the password itself never without TLS. *)
THEOREM CredentialsStayProtected == Spec => []CredentialsProtected
<1>1. LInv => CredentialsProtected
  <2> SUFFICES ASSUME LInv
               PROVE  CredentialsProtected
    OBVIOUS
  <2>1. ASSUME NEW k \in 1 .. Len(up)
        PROVE  up[k].kind \in Kinds(up)
    BY <2>1 DEF Kinds
  <2>2. ASSUME pc \in {"verdict", "auth", "scramFirst", "scramFinal", "session"}
        PROVE  Secured
    BY <2>2 DEF LInv, Protected, PgLogin
  <2>3. Sends(Credentials) => Secured
    BY <2>1, <2>2 DEF Sends, LInv, Protected
  <2>4. Sends({"clear"}) => wire = "tls"
    BY <2>1 DEF Sends, LInv, Protected
  <2>5. Trusts => Secured
    BY <2>2, <2>3 DEF Trusts
  <2>6. Secured /\ (setting.required \/ setting.mode \in {"verify-ca", "verify-full"})
        => wire = "tls"
    BY DEF Secured, DemandsTls
  <2>7. Secured /\ (setting.required \/ setting.mode \in {"verify-ca", "verify-full"})
        => upstream.cert # "untrusted"
    BY <2>6 DEF Secured, DemandsTls, CertificateSuffices
  <2>8. Secured /\ ~Mysql /\ setting.mode = "verify-full" => upstream.cert = "right"
    BY DEF Secured, DemandsTls, CertificateSuffices
  <2>9. Secured /\ DemandsTls => wire = "tls"
    BY DEF Secured
  <2> QED
    BY <2>4, <2>5, <2>6, <2>7, <2>8, <2>9 DEF CredentialsProtected
<1> QED
  BY <1>1, LoginInvariant, PTL

-----------------------------------------------------------------------------
(* A login is a dialogue: one end asks, the other answers.                 *)

Accepting == {"ok", "authOk"}
Passing   == {"notice", "serverFinal", "fast"}   \* not the last of an answer
Early     == {"load", "off", "connect", "greeting", "response", "tls", "startup",
              "restart"}

(* Whoever reads has nothing else to read, nor is anything unread that it  *)
(* sent: no answer is ever mistaken for that to another question.          *)
Turns ==
  /\ Len(up) <= 1
  /\ up # <<>> => down = <<>> /\ stage # "accepted"
  /\ \A k \in 1 .. Len(down) : k < Len(down) => down[k].kind \in Passing
  /\ stage = "accepted" => Kinds(down) \subseteq Accepting \cup Passing
  /\ Kinds(down) \cap Accepting # {} => stage = "accepted"
  /\ pc \in Early =>
       /\ stage \in {"new", "response", "refused"}
       /\ Kinds(up) \subseteq {"sslRequest"} /\ (up # <<>> => pc = "tls")
  /\ pc \in Early \ {"greeting", "tls"} => down = <<>>
  /\ pc = "tls" /\ stage = "response" => down = <<>>
  /\ pc = "greeting" => Len(down) <= 1 /\ (stage = "new" => down = <<>>)

(* Where the proof of a SCRAM server has been verified.                    *)
Verified ==
  /\ Mysql => upstream.account # "scram"
  /\ Kinds(up) \cap {"sslRequest", "token", "clear"} # {} => Mysql
  /\ "md5" \in Kinds(up) \cup Kinds(down) => upstream.account = "md5"
  /\ "clientFinal" \in Kinds(up) => pc = "scramFinal" /\ FirstSound
  /\ stage = "accepted" /\ upstream.account = "scram" =>
       FirstSound /\ (FinalSound \/ pc \in {"scramFinal", "closed"})

(* What the client is told.                                                *)
Told ==
  pc = "session" \/ Kinds(told) \cap Accepting # {} =>
    /\ stage = "accepted"
    /\ upstream.account = "scram" => FirstSound /\ FinalSound

SInv == LInv /\ Turns /\ Verified /\ Told

LEMMA HeadAndTail ==
  ASSUME LInv, Turns, down # <<>>
  PROVE  /\ Head(down) \in Message /\ Head(down).kind \in Kinds(down)
         /\ Tail(down) \in Seq(Message) /\ Kinds(Tail(down)) \subseteq Kinds(down)
         /\ \A k \in 1 .. Len(Tail(down)) :
              k < Len(Tail(down)) => Tail(down)[k].kind \in Passing
         /\ Head(down).kind \notin Passing => Tail(down) = <<>>
<1>1. down \in Seq(Message)
  BY DEF LInv, Typed
<1>2. Len(Tail(down)) = Len(down) - 1 /\ Len(down) \in Nat /\ Head(down) = down[1]
  BY <1>1
<1>3. \A k \in 1 .. Len(down) - 1 : Tail(down)[k] = down[k + 1]
  BY <1>1
<1>4. \A k \in 1 .. Len(Tail(down)) :
        k < Len(Tail(down)) => Tail(down)[k].kind \in Passing
  BY <1>2, <1>3 DEF Turns
<1>5. Head(down).kind \notin Passing => Tail(down) = <<>>
  BY <1>1, <1>2 DEF Turns
<1> QED
  BY <1>1, <1>4, <1>5, KindsOfTail

LEMMA FailTurns ==
  ASSUME SInv, LInv', Fail,
         Kinds(told') \cap Accepting \subseteq Kinds(told)
  PROVE  SInv'
<1> USE DEF SInv, Fail, config, server
<1>1. Turns'
  BY KindsOfNone DEF Turns, Kinds, Early
<1>2. Verified'
  BY KindsOfNone DEF Verified, Turns, Kinds, Mysql, FirstSound
<1>3. Told'
  BY DEF Told, FirstSound, FinalSound
<1> QED
  BY <1>1, <1>2, <1>3

LEMMA FailTurnsSilently ==
  ASSUME SInv, LInv', FailSilently
  PROVE  SInv'
BY FailTurns DEF FailSilently, Kinds

LEMMA FailTurnsTelling ==
  ASSUME SInv, LInv', NEW m \in Message, m.kind = "err", FailTelling(m)
  PROVE  SInv'
<1>1. Kinds(told') = Kinds(told) \cup {"err"}
  BY KindsOfAppend DEF FailTelling, SInv, LInv, Typed
<1> QED
  BY <1>1, FailTurns DEF FailTelling, Accepting

LEMMA AskTurns ==
  ASSUME SInv, LInv', NEW m \in Message, NEW then, Ask(m, then),
         down # <<>>, Head(down).kind \notin Accepting \cup Passing, down' = Tail(down),
         pc \notin Early \cup {"session"}, then \notin Early \cup {"session"},
         m.kind = "md5" => upstream.account = "md5",
         m.kind = "clientFinal" => then = "scramFinal" /\ FirstSound,
         m.kind \in {"sslRequest", "token", "clear"} => Mysql
  PROVE  SInv'
<1> USE DEF SInv, Ask, config, server
<1>1. down' = <<>> /\ stage # "accepted" /\ up = <<>>
  BY HeadAndTail DEF Turns
<1> up' = <<m>>
  BY <1>1
<1>2. Kinds(up') = {m.kind} /\ Kinds(down') = {}
  BY <1>1, KindsOfOne, KindsOfNone
<1>3. Turns'
  BY <1>1, <1>2 DEF Turns, Early
<1>4. Verified'
  BY <1>1, <1>2 DEF Verified, Mysql, FirstSound
<1>5. Told'
  BY <1>1 DEF Told, Kinds
<1> QED
  BY <1>3, <1>4, <1>5

LEMMA ConsumeTurns ==
  ASSUME SInv, LInv', down # <<>>, down' = Tail(down), UNCHANGED <<config, server, up>>,
         pc \notin Early \cup {"closed"}, pc' \notin Early,
         pc = "scramFinal" => FinalSound, Told'
  PROVE  SInv'
<1> USE DEF SInv, config, server
<1>1. Kinds(down') \subseteq Kinds(down) /\ up = <<>> /\ Kinds(up) = {}
  BY HeadAndTail, KindsOfNone DEF Turns
<1>2. \A k \in 1 .. Len(down') : k < Len(down') => down'[k].kind \in Passing
  BY HeadAndTail
<1>3. Turns'
  BY <1>1, <1>2 DEF Turns, Early, Kinds
<1>4. Verified'
  BY <1>1 DEF Verified, Mysql, FirstSound, FinalSound, Kinds
<1> QED
  BY <1>3, <1>4

LEMMA TailOfOne ==
  ASSUME NEW s \in Seq(Message), s # <<>>, Len(s) <= 1
  PROVE  Tail(s) = <<>>
<1>1. Len(s) \in Nat /\ Len(s) >= 1 /\ s[1] \in Message
  OBVIOUS
<1>2. Tail(s) \in Seq(Message) /\ Len(Tail(s)) = Len(s) - 1
  OBVIOUS
<1>3. Len(Tail(s)) = 0
  BY <1>1, <1>2
<1> QED
  BY <1>2, <1>3

(* An answer of the server.                                                *)
LEMMA ReplyTurns ==
  ASSUME SInv, LInv', NEW messages \in Seq(Message), NEW to, NEW count,
         Reply(messages, to, count), up # <<>>, up' = Tail(up),
         \A k \in 1 .. Len(messages) : k < Len(messages) => messages[k].kind \in Passing,
         to = "accepted" => /\ Kinds(messages) \subseteq Accepting \cup Passing
                            /\ pc \notin Early
                            /\ upstream.account = "scram" => pc = "scramFinal" /\ FirstSound,
         Kinds(messages) \cap Accepting # {} => to = "accepted",
         pc = "tls" => to = "refused" \/ (to = "response" /\ messages = <<>>),
         "md5" \in Kinds(messages) => upstream.account = "md5"
  PROVE  SInv'
<1> USE DEF SInv, Reply, config
<1>1. up \in Seq(Message) /\ Len(up) <= 1 /\ down = <<>> /\ stage # "accepted"
  <2>1. up \in Seq(Message)
    BY DEF LInv, Typed
  <2> QED
    BY <2>1 DEF Turns
<1>2. up' = <<>> /\ down' = messages
  <2>1. up' = <<>>
    BY <1>1, TailOfOne
  <2>2. <<>> \o messages = messages
    OBVIOUS
  <2> QED
    BY <1>1, <2>1, <2>2
<1>3. Kinds(up') = {} /\ (pc \in Early => pc = "tls")
  BY <1>2, KindsOfNone DEF Turns
<1>4. Turns'
  <2>1. up' = <<>> /\ Len(<<>>) <= 1
    BY <1>2
  <2>2. \A k \in 1 .. Len(down') : k < Len(down') => down'[k].kind \in Passing
    BY <1>2
  <2> QED
    BY <1>2, <1>3, <2>1, <2>2 DEF Turns, Early
<1>5. Verified'
  BY <1>1, <1>2, <1>3 DEF Verified, Mysql, FirstSound, FinalSound
<1>6. Told'
  BY <1>1 DEF Told, Kinds
<1> QED
  BY <1>4, <1>5, <1>6

LEMMA ConnectTurns ==
  ASSUME SInv, LInv', Load \/ ConnectPlain \/ ConnectTls \/ EndOfFile
  PROVE  SInv'
<1>1. CASE FailSilently
  BY <1>1, FailTurnsSilently
<1>2. CASE ~FailSilently
  <2> USE DEF SInv, config, server
  <2>1. /\ pc \in {"load", "connect"}
        /\ pc' \in {"off", "connect", "greeting", "startup"}
        /\ UNCHANGED <<config, server, up, down, told>>
    BY <1>2 DEF Load, ConnectPlain, ConnectTls, ConnectedAs, EndOfFile
  <2>2. Turns'
    BY <2>1 DEF Turns, Early, Kinds
  <2>3. Verified'
    BY <2>1 DEF Verified, Mysql, FirstSound, FinalSound, Kinds, Turns, Early
  <2>4. Told'
    BY <2>1 DEF Told, FirstSound, FinalSound, Kinds
  <2> QED
    BY <2>2, <2>3, <2>4
<1> QED
  BY <1>1, <1>2

(* The proxy tells the client it is logged in.                             *)
LEMMA SucceedTurns ==
  ASSUME SInv, LInv', NEW m \in Message, Succeed(m), down # <<>>,
         Head(down).kind \in Accepting, pc \in {"verdict", "auth"}
  PROVE  SInv'
<1>1. CASE FailSilently
  BY <1>1, FailTurnsSilently
<1>2. CASE ~FailSilently
  <2>1. pc' = "session" /\ down' = Tail(down) /\ UNCHANGED <<config, server, up>>
    BY <1>2 DEF Succeed
  <2>2. stage = "accepted"
    BY HeadAndTail DEF SInv, Turns
  <2>3. Told'
    BY <2>1, <2>2 DEF SInv, Verified, Told, FirstSound, FinalSound, config, server
  <2> QED
    BY <2>1, <2>3, ConsumeTurns DEF Early
<1> QED
  BY <1>1, <1>2

(* A first message of the proxy: it asks before the server has answered.   *)
LEMMA OpenTurns ==
  ASSUME SInv, LInv', UNCHANGED <<config, server, down, told>>,
         pc \in Early, stage # "accepted", down = <<>>, NEW m \in Message, up' = <<m>>,
         pc' \notin Early \/ (pc' = "tls" /\ m.kind = "sslRequest"), pc' # "session",
         m.kind \notin {"md5", "clientFinal"},
         m.kind \in {"sslRequest", "token", "clear"} => Mysql
  PROVE  SInv'
<1> USE DEF SInv, config, server
<1>1. Kinds(up') = {m.kind} /\ Kinds(down) = {}
  BY KindsOfOne, KindsOfNone
<1>2. Len(up') <= 1 /\ Len(<<>>) = 0
  OBVIOUS
<1>3. Turns'
  BY <1>1, <1>2 DEF Turns, Early
<1>4. Verified'
  BY <1>1 DEF Verified, Mysql, FirstSound
<1>5. Told'
  BY DEF Told, Kinds, Early
<1> QED
  BY <1>3, <1>4, <1>5

LEMMA MysqlTurns ==
  ASSUME SInv, LInv', MysqlProxy
  PROVE  SInv'
<1> USE DEF SInv
<1>1. Denied \in Message /\ Denied.kind = "err" /\ Msg("ok", 2) \in Message
  BY DEF Denied, Msg, Message, PluginNames
<1>2. ASSUME down # <<>>
      PROVE  /\ Head(down) \in Message /\ Head(down).seq \in Nat
             /\ Head(down).seq + 1 \in Nat /\ Head(down).seed \in Nat
  <2>1. Head(down) \in Message
    BY <1>2, HeadAndTail
  <2> QED
    BY <2>1 DEF Message
<1>3. pc \in MysqlLogin => Mysql
  BY DEF LInv, Typed
<1>4. CASE FailSilently
  BY <1>4, FailTurnsSilently
<1>5. CASE FailTelling(Denied)
  BY <1>5, <1>1, FailTurnsTelling
<1>6. CASE TakeGreeting
  <2>1. /\ pc = "greeting" /\ pc' = "response" /\ down # <<>> /\ down' = Tail(down)
        /\ told' = Append(told, Msg("greeting", Head(down).seq))
        /\ UNCHANGED <<config, server, up>>
    BY <1>6 DEF TakeGreeting, Heard
  <2>2. down' = <<>> /\ Kinds(down') = {} /\ up = <<>> /\ Kinds(up) = {}
    <3>1. down \in Seq(Message) /\ Len(down) <= 1
      BY <2>1 DEF LInv, Typed, Turns
    <3> QED
      BY <2>1, <3>1, TailOfOne, KindsOfNone DEF Turns
  <2>3. Msg("greeting", Head(down).seq) \in Message
        /\ Msg("greeting", Head(down).seq).kind = "greeting"
    BY <1>2, <2>1 DEF Msg, Message, PluginNames
  <2>4. Kinds(told') = Kinds(told) \cup {"greeting"}
    BY <2>1, <2>3, KindsOfAppend DEF LInv, Typed
  <2>5. Turns'
    <3>1. Len(<<>>) = 0
      OBVIOUS
    <3> QED
      BY <2>1, <2>2, <3>1 DEF Turns, Early, server
  <2>6. Verified'
    BY <2>1, <2>2 DEF Verified, Mysql, FirstSound, FinalSound, config, server
  <2>7. Told'
    BY <2>1, <2>4 DEF Told, FirstSound, FinalSound, config, server, Accepting
  <2> QED
    BY <2>5, <2>6, <2>7
<1>7. CASE TakeResponse /\ ~FailSilently
  <2> DEFINE m == IF WantsTls THEN Msg("sslRequest", Head(inbox).seq)
                              ELSE Token(plugin, Head(inbox).seq, 1)
  <2>1. /\ pc = "response" /\ inbox # <<>> /\ UNCHANGED <<config, server, down, told>>
        /\ up' = Append(up, m) /\ pc' = IF WantsTls THEN "tls" ELSE "verdict"
    BY <1>7 DEF TakeResponse
  <2>2. Head(inbox) \in Message
    BY <2>1, KindsOfTail DEF LInv, Typed
  <2>3. m \in Message /\ m.kind = IF WantsTls THEN "sslRequest" ELSE "token"
    BY <2>2 DEF Msg, Token, Auth, Message, PluginNames, LInv, Typed, Plugins, Credentials
  <2> HIDE DEF m
  <2>4. up = <<>> /\ down = <<>> /\ stage # "accepted"
    BY <2>1 DEF Turns, Early
  <2>5. up' = <<m>>
    BY <2>1, <2>4
  <2> QED
    BY <2>1, <2>3, <2>4, <2>5, <1>3, OpenTurns DEF Early, MysqlLogin
<1>8. CASE StartTls /\ ~FailSilently
  <2>1. /\ pc = "tls" /\ stage = "response" /\ pc' = "verdict"
        /\ up' = <<Token(plugin, 2, 1)>> /\ UNCHANGED <<config, server, down, told>>
    BY <1>8 DEF StartTls
  <2>2. Token(plugin, 2, 1) \in Message /\ Token(plugin, 2, 1).kind = "token"
    BY DEF Token, Auth, Message, PluginNames, LInv, Typed, Plugins, Credentials
  <2>3. down = <<>> /\ stage # "accepted" /\ Mysql
    BY <2>1, <1>3 DEF Turns, MysqlLogin
  <2> QED
    BY <2>1, <2>2, <2>3, OpenTurns DEF Early
<1>9. CASE Verdict
  BY <1>9, <1>1, SucceedTurns DEF Verdict, Heard, Accepting
<1>10. CASE SwitchPlugin /\ ~FailTelling(Denied)
  <2> DEFINE m == Token(Head(down).plugin, Head(down).seq + 1, Head(down).seed)
  <2>1. /\ pc = "verdict" /\ down # <<>> /\ Head(down).kind = "switch"
        /\ Head(down).plugin \in Plugins /\ down' = Tail(down) /\ Ask(m, "verdict")
    BY <1>10 DEF SwitchPlugin, Heard
  <2>2. m \in Message /\ m.kind = "token"
    BY <2>1, <1>2 DEF Token, Auth, Message, PluginNames, Credentials
  <2> HIDE DEF m
  <2> QED
    BY <2>1, <2>2, <1>3, AskTurns DEF Accepting, Passing, Early, MysqlLogin
<1>11. CASE FastPath
  <2>1. /\ pc = "verdict" /\ pc' = pc /\ down # <<>> /\ down' = Tail(down)
        /\ UNCHANGED <<config, server, up, told>>
    BY <1>11 DEF FastPath, Heard
  <2>2. Told'
    BY <2>1 DEF Told, FirstSound, FinalSound, config, server, Kinds
  <2> QED
    BY <2>1, <2>2, ConsumeTurns DEF Early
<1>12. CASE FullPath /\ ~FailTelling(Denied)
  <2> DEFINE m == Msg("clear", Head(down).seq + 1)
  <2>1. /\ pc = "verdict" /\ down # <<>> /\ Head(down).kind = "full"
        /\ down' = Tail(down) /\ Ask(m, "verdict")
    BY <1>12 DEF FullPath, Heard
  <2>2. m \in Message /\ m.kind = "clear"
    BY <2>1, <1>2 DEF Msg, Message, PluginNames, Credentials
  <2> HIDE DEF m
  <2> QED
    BY <2>1, <2>2, <1>3, AskTurns DEF Accepting, Passing, Early, MysqlLogin
<1>13. CASE Refused
  BY <1>5, <1>13 DEF Refused
<1> QED
  BY <1>4, <1>5, <1>6, <1>7, <1>8, <1>9, <1>10, <1>11, <1>12, <1>13 DEF MysqlProxy

LEMMA PgTurns ==
  ASSUME SInv, LInv', PgProxy
  PROVE  SInv'
<1> USE DEF SInv
<1>1. /\ Pg("N") \in Message /\ Pg("authOk") \in Message /\ Pg("err") \in Message
      /\ Pg("md5") \in Message /\ Pg("clientFirst") \in Message
      /\ Pg("clientFinal") \in Message
      /\ Pg("N").kind = "N" /\ Pg("err").kind = "err" /\ Pg("md5").kind = "md5"
      /\ Pg("clientFirst").kind = "clientFirst"
      /\ Pg("clientFinal").kind = "clientFinal"
  BY DEF Pg, Msg, Message, PluginNames, Credentials
<1>2. CASE FailSilently
  BY <1>2, FailTurnsSilently
<1>3. CASE FailTelling(Pg("err"))
  BY <1>3, <1>1, FailTurnsTelling
<1>4. CASE TakeOpening
  <2>1. /\ pc \in {"startup", "restart"} /\ inbox # <<>>
        /\ UNCHANGED <<config, server, down>>
    BY <1>4 DEF TakeOpening, PassOpening
  <2>2. /\ Head(inbox) \in Message
        /\ Head(inbox).kind \in {"response", "startup", "ssl", "gss"}
    BY <2>1, KindsOfTail DEF LInv, Typed
  <2>3. up = <<>> /\ down = <<>> /\ stage # "accepted"
    BY <2>1 DEF Turns, Early
  <2>4. CASE pc' = "restart" /\ told' = Append(told, Pg("N")) /\ up' = up
    <3>1. Kinds(told') = Kinds(told) \cup {"N"}
      BY <2>4, <1>1, KindsOfAppend DEF LInv, Typed
    <3>2. Turns'
      BY <2>1, <2>3, <2>4 DEF Turns, Early, server, Kinds
    <3>3. Verified'
      BY <2>1, <2>3, <2>4
      DEF Verified, Mysql, FirstSound, config, server, Kinds
    <3>4. Told'
      BY <2>1, <2>3, <2>4, <3>1
      DEF Told, FirstSound, FinalSound, config, server, Accepting
    <3> QED
      BY <3>2, <3>3, <3>4
  <2>5. CASE pc' = "auth" /\ up' = Append(up, Head(inbox)) /\ told' = told
    <3>1. up' = <<Head(inbox)>>
      BY <2>3, <2>5
    <3> QED
      BY <2>1, <2>2, <2>3, <2>5, <3>1, OpenTurns DEF Early
  <2> QED
    BY <1>4, <2>4, <2>5 DEF TakeOpening, PassOpening
<1>5. CASE AuthOk
  BY <1>5, <1>1, SucceedTurns DEF AuthOk, Heard, Accepting
<1>6. CASE AuthMd5 /\ ~FailSilently
  <2>1. /\ pc = "auth" /\ down # <<>> /\ Head(down).kind = "md5" /\ down' = Tail(down)
        /\ Ask(Pg("md5"), "auth")
    BY <1>6 DEF AuthMd5, Heard
  <2>2. upstream.account = "md5"
    BY <2>1, HeadAndTail DEF Verified
  <2> QED
    BY <2>1, <2>2, <1>1, AskTurns DEF Accepting, Passing, Early
<1>7. CASE AuthSasl /\ ~FailSilently
  <2>1. /\ pc = "auth" /\ down # <<>> /\ Head(down).kind = "sasl" /\ down' = Tail(down)
        /\ Ask(Pg("clientFirst"), "scramFirst")
    BY <1>7 DEF AuthSasl, Heard
  <2> QED
    BY <2>1, <1>1, AskTurns DEF Accepting, Passing, Early
<1>8. CASE AuthUnknown
  BY <1>2, <1>8 DEF AuthUnknown
<1>9. CASE AuthError
  BY <1>3, <1>9 DEF AuthError
<1>10. CASE AuthOther
  <2>1. /\ pc = "auth" /\ pc' = pc /\ down # <<>> /\ Head(down).kind = "notice"
        /\ down' = Tail(down) /\ told' = Append(told, Head(down))
        /\ UNCHANGED <<config, server, up>>
    BY <1>10 DEF AuthOther, Heard
  <2>2. Kinds(told') = Kinds(told) \cup {"notice"}
    BY <2>1, HeadAndTail, KindsOfAppend DEF LInv, Typed
  <2>3. Told'
    BY <2>1, <2>2 DEF Told, FirstSound, FinalSound, config, server, Accepting
  <2> QED
    BY <2>1, <2>3, ConsumeTurns DEF Early
<1>11. CASE ScramFirst /\ ~FailSilently
  <2>1. /\ pc = "scramFirst" /\ down # <<>> /\ Head(down).kind = "serverFirst"
        /\ FirstSound /\ down' = Tail(down) /\ Ask(Pg("clientFinal"), "scramFinal")
    BY <1>11 DEF ScramFirst, Heard
  <2> QED
    BY <2>1, <1>1, AskTurns DEF Accepting, Passing, Early
<1>12. CASE ScramFinal /\ ~FailSilently
  <2>1. /\ pc = "scramFinal" /\ pc' = "auth" /\ down # <<>> /\ FinalSound
        /\ down' = Tail(down) /\ UNCHANGED <<config, server, up, told>>
    BY <1>12 DEF ScramFinal
  <2>2. Told'
    BY <2>1 DEF Told, FirstSound, FinalSound, config, server, Kinds
  <2> QED
    BY <2>1, <2>2, ConsumeTurns DEF Early
<1> QED
  BY <1>2, <1>3, <1>4, <1>5, <1>6, <1>7, <1>8, <1>9, <1>10, <1>11, <1>12 DEF PgProxy

LEMMA KindsOfTwo ==
  ASSUME NEW m \in Message, NEW n \in Message
  PROVE  /\ <<m>> \in Seq(Message) /\ Kinds(<<m>>) = {m.kind}
         /\ <<m, n>> \in Seq(Message) /\ Kinds(<<m, n>>) = {m.kind, n.kind}
         /\ \A k \in 1 .. Len(<<m>>) : ~(k < Len(<<m>>))
BY DEF Kinds

LEMMA AnswerNone ==
  ASSUME SInv, LInv', up # <<>>, up' = Tail(up), NEW count, Reply(<<>>, "response", count)
  PROVE  SInv'
<1>1. <<>> \in Seq(Message) /\ Kinds(<<>>) = {} /\ Len(<<>>) = 0
  BY KindsOfNone
<1>2. \A k \in 1 .. Len(<<>>) : k < Len(<<>>) => <<>>[k].kind \in Passing
  BY <1>1
<1> QED
  BY <1>1, <1>2, ReplyTurns

LEMMA AnswerOne ==
  ASSUME SInv, LInv', up # <<>>, up' = Tail(up),
         NEW m \in Message, NEW to, NEW count, Reply(<<m>>, to, count),
         to = "accepted" => /\ m.kind \in Accepting /\ pc \notin Early
                            /\ upstream.account = "scram" => pc = "scramFinal" /\ FirstSound,
         m.kind \in Accepting => to = "accepted",
         to = "refused" \/ pc \notin Early,
         m.kind = "md5" => upstream.account = "md5"
  PROVE  SInv'
<1> DEFINE messages == <<m>>
<1>1. /\ messages \in Seq(Message) /\ Kinds(messages) = {m.kind}
      /\ \A k \in 1 .. Len(messages) : k < Len(messages) => messages[k].kind \in Passing
  BY KindsOfTwo
<1>2. Reply(messages, to, count) /\ (pc = "tls" => to = "refused")
  BY DEF Early
<1> HIDE DEF messages
<1> QED
  BY <1>1, <1>2, ReplyTurns

LEMMA AnswerTwo ==
  ASSUME SInv, LInv', up # <<>>, up' = Tail(up), pc \notin Early,
         NEW m \in Message, NEW n \in Message, NEW to, NEW count,
         Reply(<<m, n>>, to, count), m.kind \in Passing,
         to = "accepted" =>
           /\ n.kind \in Accepting
           /\ upstream.account = "scram" => pc = "scramFinal" /\ FirstSound,
         n.kind \in Accepting => to = "accepted",
         n.kind = "md5" => upstream.account = "md5"
  PROVE  SInv'
<1> DEFINE messages == <<m, n>>
<1>1. /\ messages \in Seq(Message) /\ Kinds(messages) = {m.kind, n.kind}
      /\ \A k \in 1 .. Len(messages) : k < Len(messages) => messages[k].kind \in Passing
  <2>1. Len(messages) = 2 /\ messages[1] = m
    OBVIOUS
  <2>2. messages \in Seq(Message) /\ Kinds(messages) = {m.kind, n.kind}
    BY KindsOfTwo
  <2> HIDE DEF messages
  <2>3. ASSUME NEW k \in 1 .. Len(messages), k < Len(messages)
        PROVE  messages[k].kind \in Passing
    <3>1. k = 1
      BY <2>1, <2>3
    <3> QED
      BY <2>1, <3>1
  <2> QED
    BY <2>2, <2>3
<1>2. Reply(messages, to, count) /\ pc # "tls"
  BY DEF Early
<1> HIDE DEF messages
<1>3. /\ to = "accepted" => /\ Kinds(messages) \subseteq Accepting \cup Passing
                            /\ upstream.account = "scram" => pc = "scramFinal" /\ FirstSound
      /\ Kinds(messages) \cap Accepting # {} => to = "accepted"
      /\ "md5" \in Kinds(messages) => upstream.account = "md5"
  BY <1>1 DEF Accepting, Passing
<1> QED
  BY <1>1, <1>2, <1>3, ReplyTurns

LEMMA MysqlServerTurns ==
  ASSUME SInv, LInv', MysqlGreets \/ MysqlReads
  PROVE  SInv'
<1> USE DEF SInv
<1>1. CASE MysqlGreets
  <2> DEFINE m == Auth("greeting", 0, upstream.announced, 1)
  <2>1. m \in Message /\ m.kind = "greeting"
    BY DEF Auth, Message, PluginNames, LInv, Typed, Upstream
  <2> HIDE DEF m
  <2>2. /\ pc = "greeting" /\ down = <<>> /\ up = <<>> /\ down' = down \o <<m>>
        /\ stage' = "response" /\ stage # "accepted" /\ UNCHANGED <<config, pc, up, told>>
    BY <1>1 DEF MysqlGreets, Reply, Turns, Early, m
  <2>3. down' = <<m>> /\ Kinds(down') = {"greeting"} /\ Len(down') <= 1
        /\ Kinds(up) = {}
    BY <2>1, <2>2, KindsOfOne, KindsOfNone
  <2>4. Turns'
    <3>1. \A k \in 1 .. Len(down') : ~(k < Len(down'))
      BY <2>3, <2>1, KindsOfTwo
    <3> QED
      BY <2>2, <2>3, <3>1 DEF Turns, Early, Kinds, Accepting
  <2>5. Verified'
    BY <2>2, <2>3 DEF Verified, Mysql, FirstSound, config
  <2>6. Told'
    BY <2>2 DEF Told, Kinds
  <2> QED
    BY <2>4, <2>5, <2>6
<1>2. CASE MysqlReads
  <2> DEFINE m == Head(up)
             answer == m.seq + 1
  <2>1. /\ up # <<>> /\ up' = Tail(up) /\ m.kind \in {"sslRequest", "token", "clear"}
        /\ m \in Message /\ m.kind \in Kinds(up)
    BY <1>2, KindsOfTail DEF MysqlReads, Reads, LInv, Typed
  <2>2. upstream.account # "scram"
    BY <2>1 DEF Verified
  <2>3. m.kind # "sslRequest" => pc \notin Early
    BY <2>1 DEF Turns
  <2>4. answer \in Nat /\ answer + 1 \in Nat /\ answer + 2 \in Nat
    BY <2>1 DEF Message
  <2>5. \/ Rejects(answer)
        \/ Reply(<<>>, "response", answer)
        \/ /\ m.kind # "sslRequest"
           /\ \/ Reply(<<Auth("switch", answer, upstream.account, 2)>>, "token", answer + 1)
              \/ Reply(<<Msg("ok", answer)>>, "accepted", answer + 1)
              \/ Reply(<<Msg("fast", answer), Msg("ok", answer + 1)>>, "accepted", answer + 2)
              \/ Reply(<<Msg("full", answer)>>, "clear", answer + 1)
    BY <1>2 DEF MysqlReads
  <2>6. /\ Msg("err", answer) \in Message /\ Msg("ok", answer) \in Message
        /\ Msg("full", answer) \in Message /\ Msg("fast", answer) \in Message
        /\ Msg("ok", answer + 1) \in Message
        /\ Auth("switch", answer, upstream.account, 2) \in Message
        /\ Msg("err", answer).kind = "err" /\ Msg("ok", answer).kind = "ok"
        /\ Msg("full", answer).kind = "full" /\ Msg("fast", answer).kind = "fast"
        /\ Msg("ok", answer + 1).kind = "ok"
        /\ Auth("switch", answer, upstream.account, 2).kind = "switch"
    <3>1. answer \in Nat /\ answer + 1 \in Nat
      BY <2>4
    <3> HIDE DEF answer
    <3> QED
      BY <3>1, AuthIsMessage, MsgIsMessage DEF LInv, Typed
  <2> HIDE DEF m, answer
  <2>7. CASE Rejects(answer)
    BY <2>1, <2>6, <2>7, AnswerOne DEF Rejects, Accepting, Passing
  <2>8. CASE Reply(<<>>, "response", answer)
    BY <2>1, <2>8, AnswerNone
  <2>9. CASE /\ m.kind # "sslRequest"
             /\ Reply(<<Auth("switch", answer, upstream.account, 2)>>, "token", answer + 1)
    BY <2>1, <2>3, <2>6, <2>9, AnswerOne DEF Accepting, Passing, Early
  <2>10. CASE /\ m.kind # "sslRequest"
              /\ Reply(<<Msg("ok", answer)>>, "accepted", answer + 1)
    BY <2>1, <2>2, <2>3, <2>6, <2>10, AnswerOne DEF Accepting, Passing, Early
  <2>11. CASE /\ m.kind # "sslRequest"
              /\ Reply(<<Msg("fast", answer), Msg("ok", answer + 1)>>, "accepted", answer + 2)
    BY <2>1, <2>2, <2>3, <2>6, <2>11, AnswerTwo DEF Accepting, Passing, Early
  <2>12. CASE m.kind # "sslRequest" /\ Reply(<<Msg("full", answer)>>, "clear", answer + 1)
    BY <2>1, <2>3, <2>6, <2>12, AnswerOne DEF Accepting, Passing, Early
  <2> QED
    BY <2>5, <2>7, <2>8, <2>9, <2>10, <2>11, <2>12
<1> QED
  BY <1>1, <1>2

LEMMA PgServerTurns ==
  ASSUME SInv, LInv', PgStarts \/ PgReads
  PROVE  SInv'
<1> USE DEF SInv
<1>1. /\ Pg("byte") \in Message /\ Pg("notice") \in Message /\ Pg("serverFirst") \in Message
      /\ Pg("authOk") \in Message /\ Pg("serverFinal") \in Message /\ Pg("err") \in Message
      /\ Pg("md5") \in Message /\ Pg("sasl") \in Message /\ Pg("unsupported") \in Message
  BY DEF Pg, Msg, Message, PluginNames, Credentials
<1>2. /\ Pg("byte").kind = "byte" /\ Pg("notice").kind = "notice"
      /\ Pg("serverFirst").kind = "serverFirst" /\ Pg("authOk").kind = "authOk"
      /\ Pg("serverFinal").kind = "serverFinal" /\ Pg("err").kind = "err"
  BY DEF Pg, Msg
<1>3. ASSUME NEW kinds, Reads(kinds)
      PROVE  /\ up # <<>> /\ up' = Tail(up) /\ Head(up).kind \in kinds
             /\ Head(up).kind \in Kinds(up)
             /\ Head(up).kind # "sslRequest" => pc \notin Early
  BY <1>3, KindsOfTail DEF Reads, LInv, Typed, Turns
<1>4. CASE PgStarts
  <2>1. up # <<>> /\ up' = Tail(up) /\ pc \notin Early
    BY <1>3, <1>4 DEF PgStarts
  <2> DEFINE ask == Pg(PgAsks)
  <2>2. /\ ask \in Message /\ ask.kind \in {"authOk", "md5", "sasl", "unsupported"}
        /\ ask.kind = PgAsks
        /\ ask.kind = "md5" => upstream.account = "md5"
        /\ ask.kind = "authOk" => upstream.account = "trust"
    BY <1>1 DEF PgAsks, Pg, Msg
  <2> HIDE DEF ask
  <2>3. CASE Reply(<<Pg("byte")>>, "new", 0)
    BY <1>1, <1>2, <2>1, <2>3, AnswerOne DEF Accepting, Passing, Early
  <2>4. CASE Reply(<<ask>>, IF PgAsks = "authOk" THEN "accepted" ELSE "proof", 0)
    BY <2>1, <2>2, <2>4, AnswerOne DEF Accepting, Passing, Early
  <2>5. CASE Reply(<<Pg("notice"), ask>>,
                   IF PgAsks = "authOk" THEN "accepted" ELSE "proof", 0)
    BY <1>1, <1>2, <2>1, <2>2, <2>5, AnswerTwo DEF Accepting, Passing, Early
  <2> QED
    BY <1>4, <2>3, <2>4, <2>5 DEF PgStarts, ask
<1>5. CASE PgReads
  <2>1. up # <<>> /\ up' = Tail(up) /\ pc \notin Early /\ Head(up).kind \in Kinds(up)
    BY <1>3, <1>5 DEF PgReads
  <2>2. \/ Reply(<<Pg("serverFirst")>>, "proof", 0)
        \/ Head(up).kind = "md5" /\ Reply(<<Pg("authOk")>>, "accepted", 0)
        \/ /\ Head(up).kind = "clientFinal"
           /\ Reply(<<Pg("serverFinal"), Pg("authOk")>>, "accepted", 0)
        \/ Reply(<<Pg("err")>>, "refused", 0)
    BY <1>5 DEF PgReads
  <2>3. /\ Head(up).kind = "md5" => upstream.account = "md5"
        /\ Head(up).kind = "clientFinal" => pc = "scramFinal" /\ FirstSound
    BY <2>1 DEF Verified
  <2>4. CASE Reply(<<Pg("serverFirst")>>, "proof", 0)
    BY <1>1, <1>2, <2>1, <2>4, AnswerOne DEF Accepting, Passing, Early
  <2>5. CASE Head(up).kind = "md5" /\ Reply(<<Pg("authOk")>>, "accepted", 0)
    BY <1>1, <1>2, <2>1, <2>3, <2>5, AnswerOne DEF Accepting, Passing, Early
  <2>6. CASE /\ Head(up).kind = "clientFinal"
             /\ Reply(<<Pg("serverFinal"), Pg("authOk")>>, "accepted", 0)
    BY <1>1, <1>2, <2>1, <2>3, <2>6, AnswerTwo DEF Accepting, Passing, Early
  <2>7. CASE Reply(<<Pg("err")>>, "refused", 0)
    BY <1>1, <1>2, <2>1, <2>7, AnswerOne DEF Accepting, Passing, Early
  <2> QED
    BY <2>2, <2>4, <2>5, <2>6, <2>7
<1> QED
  BY <1>4, <1>5

LEMMA EndTurns ==
  ASSUME SInv, LInv', ClientSpeaks \/ ClientLeaves \/ ServerLeaves \/ UNCHANGED vars
  PROVE  SInv'
<1> USE DEF SInv
<1>1. /\ up' = up \/ up' = <<>>
      /\ UNCHANGED <<config, pc, server, down, told>>
  BY DEF ClientSpeaks, Send, ClientLeaves, ServerLeaves, vars
<1>2. Kinds(up') \subseteq Kinds(up) /\ Len(up') <= 1
  BY <1>1, KindsOfNone DEF Turns, Kinds
<1>3. Turns'
  BY <1>1, <1>2 DEF Turns, Early, server, Kinds
<1>4. Verified'
  BY <1>1, <1>2 DEF Verified, Mysql, FirstSound, FinalSound, config, server, Kinds
<1>5. Told'
  BY <1>1 DEF Told, FirstSound, FinalSound, config, server, Kinds
<1> QED
  BY <1>3, <1>4, <1>5

(* The turns of the dialogue, and with them what an accepted login shows.  *)
THEOREM DialogueInvariant == Spec => []SInv
<1>1. Init /\ LInv => SInv
  <2> SUFFICES ASSUME Init, LInv
               PROVE  Turns /\ Verified /\ Told
    BY DEF SInv
  <2>1. Len(<<>>) = 0 /\ Kinds(<<>>) = {}
    BY KindsOfNone
  <2>2. Turns
    BY <2>1 DEF Init, Turns, Early
  <2>3. Verified
    BY <2>1 DEF Init, Verified, Accounts, Plugins
  <2>4. Told
    BY <2>1 DEF Init, Told
  <2> QED
    BY <2>2, <2>3, <2>4
<1>2. SInv /\ [Next]_vars /\ LInv' => SInv'
  BY ConnectTurns, MysqlTurns, PgTurns, MysqlServerTurns, PgServerTurns, EndTurns
  DEF Next, Proxy, Server
<1> QED
  BY <1>1, <1>2, LoginInvariant, PTL DEF Spec

(* _drive_server_auth, the loop of intercept_auth and ScramClient: for     *)
(* every setting, server and client, a session begins, and the client is   *)
(* told so, only when the server has accepted and proved itself.           *)
THEOREM SessionsAreAccepted == Spec => []SessionMeansAccepted
<1>1. SInv => SessionMeansAccepted
  <2> SUFFICES ASSUME SInv
               PROVE  SessionMeansAccepted
    OBVIOUS
  <2>1. (\E k \in 1 .. Len(told) : told[k].kind \in {"ok", "authOk"}) =>
          Kinds(told) \cap Accepting # {}
    BY DEF Kinds, Accepting
  <2>2. upstream.proof \in {"sound", "foreignNonce", "fewIterations", "wrongSignature"}
    BY DEF SInv, LInv, Typed, Upstream
  <2>3. FirstSound /\ FinalSound => upstream.proof = "sound"
    BY <2>2 DEF FirstSound, FinalSound
  <2> QED
    BY <2>1, <2>3 DEF SInv, Told, SessionMeansAccepted
<1> QED
  BY <1>1, DialogueInvariant, PTL

(* A server that refuses has nothing to read, sends nothing but its refusal*)
(* and does so only after the client's first packet: the connection it will*)
(* close is never taken for one that goes on.                              *)
Closing ==
  /\ pc \in Early \ {"tls"} => stage # "refused"
  /\ stage = "refused" => up = <<>> /\ Kinds(down) \subseteq {"err"}

CInv == SInv /\ Closing

InLogin == MysqlLogin \cup PgLogin

(* What a step of the proxy may do as DBProxy sees it.                     *)
LEMMA ProxyMoves ==
  ASSUME Proxy
  PROVE  /\ UNCHANGED <<config, stage, gone>>
         /\ \/ Fail /\ pc \in InLogin \cup {"connect"}
            \/ pc = "load" /\ pc' \in {"connect", "off"}
            \/ pc = "connect" /\ pc' \in {"greeting", "startup"} /\ "server" \notin gone
            \/ pc \in {"verdict", "auth"} /\ pc' = "session"
            \/ pc \in InLogin /\ pc' \in InLogin \ {"greeting", "startup"}
<1> USE DEF InLogin, MysqlLogin, PgLogin, FailSilently, FailTelling, server, Succeed
<1>1. CASE Load \/ ConnectPlain \/ ConnectTls \/ EndOfFile
  BY <1>1 DEF Load, ConnectPlain, ConnectTls, ConnectedAs, EndOfFile, Fail
<1>2. CASE MysqlProxy
  BY <1>2 DEF MysqlProxy, TakeGreeting, TakeResponse, StartTls, Verdict, SwitchPlugin,
              FastPath, FullPath, Refused, Ask, Fail
<1>3. CASE PgProxy
  BY <1>3 DEF PgProxy, TakeOpening, PassOpening, AuthOk, AuthMd5, AuthSasl, AuthUnknown,
              AuthError, AuthOther, ScramFirst, ScramFinal, Ask, Fail
<1> QED
  BY <1>1, <1>2, <1>3 DEF Proxy

(* The server answers only while it is there, and either greets or reads.  *)
LEMMA ServerMoves ==
  ASSUME Server
  PROVE  /\ "server" \notin gone /\ UNCHANGED <<config, pc, gone>>
         /\ \/ pc = "greeting" /\ stage = "new" /\ stage' = "response"
            \/ up # <<>>
BY DEF Server, MysqlGreets, MysqlReads, PgStarts, PgReads, Reads, Reply, Rejects

(* A refused login is closed by the proxy and by nobody else.              *)
LEMMA ClosingStays ==
  ASSUME CInv, LInv', [Next]_vars
  PROVE  Closing'
<1> USE DEF CInv, SInv, Closing
<1>1. CASE Proxy
  <2>1. CASE Fail
    BY <2>1, KindsOfNone DEF Fail, Early, server
  <2>2. CASE ~Fail /\ stage # "refused"
    BY <1>1, <2>2, ProxyMoves
  <2>3. CASE ~Fail /\ stage = "refused"
    <3>1. pc \notin Early \ {"tls"} /\ up = <<>> /\ Kinds(down) \subseteq {"err"}
      BY <2>3
    <3>2. down # <<>> => Head(down).kind = "err"
      BY <3>1, HeadAndTail
    <3>3. CASE Load \/ ConnectPlain \/ ConnectTls \/ EndOfFile
      BY <2>3, <3>1, <3>3 DEF Load, ConnectPlain, ConnectTls, EndOfFile, FailSilently, Early
    <3>4. CASE MysqlProxy
      BY <2>3, <3>1, <3>2, <3>4
      DEF MysqlProxy, TakeGreeting, TakeResponse, StartTls, Verdict, SwitchPlugin,
          FastPath, FullPath, Refused, Succeed, Heard, Early, FailTelling, FailSilently
    <3>5. CASE PgProxy
      <4>1. CASE Succeed(Pg("authOk"))
        BY <2>3, <3>1, <3>2, <3>5, <4>1
        DEF PgProxy, TakeOpening, AuthOk, AuthMd5, AuthSasl, AuthUnknown, AuthError,
            AuthOther, ScramFirst, ScramFinal, Heard, Early, FailTelling, FailSilently,
            Succeed, PassOpening
      <4>2. CASE ~Succeed(Pg("authOk"))
        BY <2>3, <3>1, <3>2, <3>5, <4>2
        DEF PgProxy, TakeOpening, AuthOk, AuthMd5, AuthSasl, AuthUnknown, AuthError,
            AuthOther, ScramFirst, ScramFinal, Heard, Early, FailTelling, FailSilently
      <4> QED
        BY <4>1, <4>2
    <3> QED
      BY <1>1, <3>3, <3>4, <3>5 DEF Proxy
  <2> QED
    BY <2>1, <2>2, <2>3
<1>2. ASSUME Server
      PROVE  Closing'
  <2>1. CASE up = <<>>
    BY <1>2, <2>1, ServerMoves
    DEF Server, MysqlGreets, MysqlReads, PgStarts, PgReads, Reads, Reply, Early
  <2>2. CASE up # <<>>
    <3>1. up' = <<>> /\ down = <<>> /\ (pc \in Early => pc = "tls")
      <4>1. up \in Seq(Message) /\ Len(up) <= 1 /\ down = <<>> /\ (pc \in Early => pc = "tls")
        BY <2>2 DEF Turns, LInv, Typed
      <4>2. up' = Tail(up)
        BY <1>2, <4>1 DEF Server, MysqlGreets, MysqlReads, PgStarts, PgReads, Reads, Early
      <4> QED
        BY <2>2, <4>1, <4>2, TailOfOne
    <3>2. ASSUME stage' = "refused"
          PROVE  \E m \in Message : m.kind = "err" /\ down' = down \o <<m>>
      <4>1. CASE MysqlGreets \/ PgStarts
        BY <2>2, <3>1, <3>2, <4>1 DEF MysqlGreets, PgStarts, Reply, Early
      <4>2. CASE MysqlReads
        <5>1. Head(up).seq \in Nat
          BY <2>2, KindsOfTail DEF LInv, Typed, Message
        <5>2. Rejects(Head(up).seq + 1)
          BY <3>2, <4>2 DEF MysqlReads, Reply
        <5>3. Msg("err", Head(up).seq + 1) \in Message
          BY <5>1 DEF Msg, Message, PluginNames
        <5> QED
          BY <5>2, <5>3 DEF Rejects, Reply, Msg
      <4>3. CASE PgReads
        <5>1. Pg("err") \in Message /\ Pg("err").kind = "err"
          BY DEF Pg, Msg, Message, PluginNames
        <5> QED
          BY <3>2, <4>3, <5>1 DEF PgReads, Reply
      <4> QED
        BY <1>2, <4>1, <4>2, <4>3 DEF Server
    <3>3. ASSUME stage' = "refused"
          PROVE  Kinds(down') = {"err"}
      <4>1. PICK m \in Message : m.kind = "err" /\ down' = down \o <<m>>
        BY <3>2, <3>3
      <4>2. down' = <<m>>
        BY <3>1, <4>1
      <4> QED
        BY <4>1, <4>2, KindsOfOne
    <3> QED
      BY <1>2, <3>1, <3>3, ServerMoves
  <2> QED
    BY <2>1, <2>2
<1>3. CASE ClientSpeaks \/ ClientLeaves \/ ServerLeaves \/ UNCHANGED vars
  BY <1>3 DEF ClientSpeaks, Send, ClientLeaves, ServerLeaves, vars, server
<1> QED
  BY <1>1, <1>2, <1>3 DEF Next

-----------------------------------------------------------------------------
(* The steps of DBProxy that a login takes.                                *)

(* An idle login is an idle handler.                                       *)
LEMMA InitRefinesProxy == ASSUME Init PROVE Proxied!Init
BY LoginAssumption DEF Init, Proxied!Init, Mysql, Connected

(* The server has not closed the connection, as the mapping counts.        *)
ServerThere == Connected /\ "server" \notin gone /\ stage # "refused"

(* The steps DBProxy does not see: from label to label of one login.       *)
LEMMA Unseen ==
  ASSUME UNCHANGED config, ServerThere' = ServerThere,
         pc' = pc \/ {pc, pc'} \subseteq {"load", "off"} \/ {pc, pc'} \subseteq InLogin,
         "client" \in gone' <=> "client" \in gone
  PROVE  UNCHANGED Proxied!vars
BY DEF Proxied!vars, Proxied!proxyVars, Proxied!clientVars, Proxied!upstreamVars,
       config, Mysql, InLogin, MysqlLogin, PgLogin, ServerThere

(* Every way a login is given up closes both connections, as               *)
(* _handle_client does when connect or login raises.                       *)
LEMMA FailRefines ==
  ASSUME Fail, pc \in InLogin \cup {"connect"}
  PROVE  Proxied!ConnectFails("c") \/ Proxied!LoginFails("c")
BY DEF Fail, InLogin, MysqlLogin, PgLogin, Connected, config, Mysql,
       Proxied!ConnectFails, Proxied!LoginFails, Proxied!CloseBoth

LEMMA AcceptRefines ==
  ASSUME pc = "load", pc' = "connect", UNCHANGED <<config, stage, gone>>
  PROVE  Proxied!Accept("c")
BY DEF Proxied!Accept, Proxied!clientVars, Proxied!upstreamVars, config, Mysql, Connected

LEMMA ConnectedRefines ==
  ASSUME pc = "connect", pc' \in {"greeting", "startup"}, UNCHANGED <<config, stage, gone>>,
         "server" \notin gone, stage # "refused"
  PROVE  Proxied!Connected("c")
BY DEF Proxied!Connected, Proxied!clientVars, config, Mysql, Connected

LEMMA SucceedRefines ==
  ASSUME Typed, pc \in {"verdict", "auth"}, pc' = "session", UNCHANGED <<config, stage, gone>>
  PROVE  Proxied!LoginSucceeds("c")
BY
DEF Proxied!LoginSucceeds, Proxied!clientVars, Proxied!upstreamVars, config, Mysql, Connected,
       Proxied!Mysql

LEMMA ClientLeavesRefines ==
  ASSUME ClientLeaves
  PROVE  Proxied!ClientLeaves("c")
BY
DEF Proxied!ClientLeaves, Proxied!proxyVars, Proxied!upstreamVars, config, Mysql, Connected,
       ClientLeaves, server

(* A refusal or a vanished server is the server closing its connection.    *)
LEMMA ServerClosesRefines ==
  ASSUME UNCHANGED <<config, pc>>, "client" \in gone' <=> "client" \in gone,
         ServerThere, ~ServerThere'
  PROVE  Proxied!ServerCloses("c")
BY DEF Proxied!ServerCloses, Proxied!proxyVars, Proxied!clientVars, config, Mysql, Connected,
       ServerThere

(* Every step of a login is a step of DBProxy, or DBProxy does not see it. *)
LEMMA StepRefinesProxy ==
  ASSUME CInv, [Next]_vars
  PROVE  [Proxied!Next]_(Proxied!vars)
<1> DEFINE Step == Proxied!Next \/ UNCHANGED Proxied!vars
<1> SUFFICES Step
  OBVIOUS
<1>1. ASSUME \/ Proxied!Accept("c") \/ Proxied!Connected("c") \/ Proxied!ConnectFails("c")
             \/ Proxied!LoginSucceeds("c") \/ Proxied!LoginFails("c")
             \/ Proxied!ClientLeaves("c") \/ Proxied!ServerCloses("c")
      PROVE  Step
  BY <1>1 DEF Proxied!Next, Proxied!Handle
<1>2. ASSUME UNCHANGED config, ServerThere' = ServerThere,
             pc' = pc \/ {pc, pc'} \subseteq {"load", "off"} \/ {pc, pc'} \subseteq InLogin,
             "client" \in gone' <=> "client" \in gone
      PROVE  Step
  BY <1>2, Unseen
<1>3. ServerThere \in BOOLEAN /\ ServerThere' \in BOOLEAN
  BY DEF ServerThere, Connected
<1> HIDE DEF Step
<1>4. Typed
  BY DEF CInv, SInv, LInv
<1>5. CASE Proxy
  <2>1. CASE Fail /\ pc \in InLogin \cup {"connect"}
    BY <2>1, FailRefines, <1>1
  <2>2. CASE pc = "load" /\ pc' \in {"connect", "off"}
    BY <1>5, <2>2, ProxyMoves, AcceptRefines, <1>1, <1>2 DEF ServerThere, Connected
  <2>3. CASE pc = "connect" /\ pc' \in {"greeting", "startup"} /\ "server" \notin gone
    <3>1. stage # "refused"
      BY <2>3 DEF CInv, Closing, Early
    <3> QED
      BY <1>5, <2>3, <3>1, ProxyMoves, ConnectedRefines, <1>1
  <2>4. CASE pc \in {"verdict", "auth"} /\ pc' = "session"
    BY <1>5, <2>4, ProxyMoves, SucceedRefines, <1>1, <1>4
  <2>5. CASE pc \in InLogin /\ pc' \in InLogin
    BY <1>5, <2>5, ProxyMoves, <1>2
    DEF ServerThere, Connected, InLogin, MysqlLogin, PgLogin
  <2> QED
    BY <1>5, <2>1, <2>2, <2>3, <2>4, <2>5, ProxyMoves
<1>6. CASE Server
  <2>1. /\ UNCHANGED <<config, pc, gone>>
        /\ ServerThere' => ServerThere
    BY <1>6, ServerMoves DEF ServerThere, Connected, CInv, Closing
  <2> QED
    BY <2>1, <1>1, <1>2, <1>3, ServerClosesRefines
<1>7. CASE ClientSpeaks \/ UNCHANGED vars
  BY <1>7, <1>2 DEF ClientSpeaks, Send, vars, server, ServerThere, Connected
<1>8. CASE ClientLeaves
  BY <1>8, ClientLeavesRefines, <1>1
<1>9. CASE ServerLeaves
  <2>1. /\ UNCHANGED <<config, pc>> /\ ~ServerThere'
        /\ "client" \in gone' <=> "client" \in gone
    BY <1>9 DEF ServerLeaves, ServerThere
  <2> QED
    BY <2>1, <1>1, <1>2, <1>3, ServerClosesRefines
<1> QED
  BY <1>5, <1>6, <1>7, <1>8, <1>9 DEF Next

(* The reading order of a login and its end: as DialogueInvariant, and a   *)
(* server that has refused goes on with nothing.                           *)
THEOREM ClosingInvariant == Spec => []CInv
<1>1. Init /\ SInv => CInv
  BY KindsOfNone DEF Init, CInv, Closing
<1>2. CInv /\ [Next]_vars /\ SInv' => CInv'
  BY ClosingStays DEF CInv, SInv
<1> QED
  BY <1>1, <1>2, DialogueInvariant, PTL DEF Spec

(* The detailed logins of both drivers implement the login step of         *)
(* DBProxy: whatever the driver, the server and the client say to each     *)
(* other, the handler of the connection sees one connect, then one login   *)
(* that succeeds or fails, and both connections closed when it fails.      *)
THEOREM LoginImplementsDBProxy == Spec => ImplementsDBProxy
<1>1. Init => Proxied!Init
  BY InitRefinesProxy
<1>2. CInv /\ [Next]_vars => [Proxied!Next]_(Proxied!vars)
  BY StepRefinesProxy
<1> QED
  BY <1>1, <1>2, ClosingInvariant, PTL DEF Spec, ImplementsDBProxy

-----------------------------------------------------------------------------
(* Packet numbers of a MySQL login: the server counts both ways and each   *)
(* end goes by the packet it answers.                                      *)
Numbered ==
  Mysql =>
    /\ up # <<>> => /\ Head(up).seq = next
                    /\ Head(up).kind \in {"sslRequest", "token", "clear"}
                    /\ Head(up).kind = "sslRequest" => pc = "tls"
    /\ down # <<>> /\ Head(down).kind \in {"greeting", "switch", "full"} =>
         Head(down).seq + 1 = next
    /\ "fast" \in Kinds(down) => stage = "accepted"
    /\ pc \in {"load", "off", "connect", "greeting"} =>
         /\ told = <<>> /\ inbox = <<>>
         /\ stage \in {"new"} \/ (pc = "greeting" /\ stage = "response")
         /\ next = IF stage = "new" THEN 0 ELSE 1
    /\ pc \in {"response", "tls", "verdict"} => Len(told) = 1
    /\ pc \in {"response", "tls"} => stage = "response"
    /\ pc = "response" => next = 1 /\ (inbox # <<>> => Head(inbox).seq = 1)
    /\ pc = "tls" => /\ up # <<>> => next = 1
                     /\ up = <<>> /\ "server" \notin gone => next = 2
    /\ \A k \in 1 .. Len(told) : told[k].seq = 2 * (k - 1)

NInv == CInv /\ Numbered

(* No step changes the settings, the server or what the client opens with. *)
LEMMA ConfigStays == ASSUME [Next]_vars PROVE UNCHANGED config
BY ProxyMoves, ServerMoves
DEF Next, vars, ClientSpeaks, Send, ClientLeaves, ServerLeaves

LEMMA AppendToOne ==
  ASSUME NEW s \in Seq(Message), NEW m \in Message,
         (Len(s) = 0 /\ m.seq = 0) \/ (Len(s) = 1 /\ m.seq = 2),
         \A k \in 1 .. Len(s) : s[k].seq = 2 * (k - 1)
  PROVE  /\ Len(Append(s, m)) = Len(s) + 1
         /\ \A k \in 1 .. Len(Append(s, m)) : Append(s, m)[k].seq = 2 * (k - 1)
<1>1. Len(Append(s, m)) = Len(s) + 1 /\ Len(s) \in Nat
  OBVIOUS
<1>2. \A k \in 1 .. Len(s) + 1 : Append(s, m)[k] = IF k = Len(s) + 1 THEN m ELSE s[k]
  OBVIOUS
<1>3. ASSUME NEW k \in 1 .. Len(s) + 1
      PROVE  Append(s, m)[k].seq = 2 * (k - 1)
  <2>1. CASE k \in 1 .. Len(s)
    BY <1>1, <1>2, <2>1
  <2>2. CASE k = Len(s) + 1 /\ Len(s) = 0
    <3>1. m.seq = 2 * (1 - 1)
      BY <2>2
    <3> QED
      BY <1>2, <2>2, <3>1
  <2>3. CASE k = Len(s) + 1 /\ Len(s) = 1
    <3>1. m.seq = 2 * (2 - 1)
      BY <2>3
    <3> QED
      BY <1>2, <2>3, <3>1
  <2> QED
    BY <1>1, <2>1, <2>2, <2>3
<1> QED
  BY <1>1, <1>3

(* A login given up leaves no packet that anybody would number.            *)
LEMMA FailNumbered ==
  ASSUME NInv, LInv', Fail, UNCHANGED told \/ (Len(told) = 1 /\ told' = Append(told, Denied))
  PROVE  Numbered'
<1> SUFFICES ASSUME Mysql
             PROVE  Numbered'
  BY DEF Fail, config, Numbered, Mysql
<1>1. \A k \in 1 .. Len(told') : told'[k].seq = 2 * (k - 1)
  <2>1. Denied \in Message /\ Denied.seq = 2 /\ told \in Seq(Message)
    BY DEF Denied, Msg, Message, PluginNames, NInv, CInv, SInv, LInv, Typed
  <2>2. \A k \in 1 .. Len(told) : told[k].seq = 2 * (k - 1)
    BY DEF NInv, Numbered
  <2> QED
    BY <2>1, <2>2, AppendToOne
<1> QED
  BY <1>1, KindsOfNone DEF Fail, config, Numbered, Mysql

(* The proxy asks for the next answer under the number it is told to.      *)
LEMMA AskNumbered ==
  ASSUME NInv, LInv', NEW m \in Message, NEW then, Ask(m, then),
         down # <<>>, down' = Tail(down), Head(down).kind \in {"switch", "full"},
         m.seq = Head(down).seq + 1, pc = "verdict", then = "verdict",
         m.kind \in {"token", "clear"}
  PROVE  Numbered'
<1> USE DEF NInv, CInv, SInv
<1>1. down' = <<>> /\ up = <<>> /\ Mysql
  BY HeadAndTail DEF Turns, LInv, Typed, MysqlLogin, Passing
<1>2. up' = Append(<<>>, m) /\ Append(<<>>, m) = <<m>>
  BY <1>1 DEF Ask
<1>3. Head(<<m>>) = m /\ <<m>> # <<>>
  OBVIOUS
<1>4. Kinds(down') = {}
  BY <1>1, KindsOfNone
<1> QED
  BY <1>1, <1>2, <1>3, <1>4 DEF Ask, Numbered, Mysql, config, server

(* The proxy numbers every packet by the one it answers, towards the       *)
(* server as towards the client.                                           *)
LEMMA ProxyNumbered ==
  ASSUME NInv, LInv', Mysql, Proxy
  PROVE  Numbered'
<1> USE DEF NInv, CInv, SInv
<1>1. pc \notin PgLogin /\ Mysql'
  BY ProxyMoves DEF LInv, Typed, Mysql, config
<1>2. CASE FailSilently
  BY <1>2, FailNumbered DEF FailSilently
<1>3. CASE FailTelling(Denied) /\ pc = "verdict"
  BY <1>3, FailNumbered DEF FailTelling, Numbered
<1>4. ASSUME down # <<>>
      PROVE  /\ Head(down) \in Message /\ Head(down).seq \in Nat
             /\ Head(down).seq + 1 \in Nat
  <2>1. Head(down) \in Message
    BY <1>4, HeadAndTail
  <2> QED
    BY <2>1 DEF Message
<1>5. told \in Seq(Message) /\ \A k \in 1 .. Len(told) : told[k].seq = 2 * (k - 1)
  BY DEF LInv, Typed, Numbered
<1>6. CASE Load \/ ConnectPlain \/ ConnectTls \/ EndOfFile
  <2>1. CASE Load \/ ConnectPlain
    BY <1>1, <2>1 DEF Load, ConnectPlain, ConnectedAs, Numbered, server, config
  <2> QED
    BY <1>2, <1>6, <2>1 DEF ConnectTls, EndOfFile
<1>7. CASE TakeGreeting
  <2> DEFINE m == Msg("greeting", Head(down).seq)
  <2>1. /\ pc = "greeting" /\ pc' = "response" /\ down # <<>> /\ Head(down).kind = "greeting"
        /\ told' = Append(told, m) /\ down' = Tail(down)
        /\ UNCHANGED <<config, server, up, inbox, gone>>
    BY <1>7 DEF TakeGreeting, Heard
  <2>2. stage = "response" /\ next = 1 /\ told = <<>> /\ inbox = <<>> /\ Head(down).seq = 0
    BY <1>4, <2>1 DEF Numbered, Turns
  <2>3. m \in Message /\ m.seq = 0 /\ Len(told) = 0
    BY <2>2 DEF Msg, Message, PluginNames
  <2> HIDE DEF m
  <2>4. Len(told') = 1 /\ \A k \in 1 .. Len(told') : told'[k].seq = 2 * (k - 1)
    BY <1>5, <2>1, <2>2, <2>3, AppendToOne
  <2>5. down' = <<>> /\ up = <<>>
    BY <2>1, HeadAndTail DEF Turns, Passing
  <2> QED
    BY <2>1, <2>2, <2>4, <2>5, KindsOfNone DEF Numbered, server
<1>8. CASE TakeResponse /\ ~FailSilently
  <2> DEFINE m == IF WantsTls THEN Msg("sslRequest", Head(inbox).seq)
                              ELSE Token(plugin, Head(inbox).seq, 1)
  <2>1. /\ pc = "response" /\ inbox # <<>> /\ UNCHANGED <<config, server, down, told, gone>>
        /\ up' = Append(up, m) /\ pc' = IF WantsTls THEN "tls" ELSE "verdict"
    BY <1>8 DEF TakeResponse
  <2>2. next = 1 /\ Head(inbox).seq = 1 /\ stage = "response" /\ up = <<>> /\ down = <<>>
        /\ Len(told) = 1
    BY <2>1 DEF Numbered, Turns, Early
  <2>3. m.seq = 1 /\ m.kind = IF WantsTls THEN "sslRequest" ELSE "token"
    BY <2>2 DEF Msg, Token, Auth
  <2> HIDE DEF m
  <2>4. up' = <<m>> /\ Head(up') = m
    BY <2>1, <2>2
  <2> QED
    BY <1>1, <2>1, <2>2, <2>3, <2>4, <1>5, KindsOfNone DEF Numbered, server
<1>9. CASE StartTls /\ ~FailSilently
  <2> DEFINE m == Token(plugin, 2, 1)
  <2>1. /\ pc = "tls" /\ up = <<>> /\ "server" \notin gone /\ stage = "response"
        /\ pc' = "verdict" /\ up' = <<m>> /\ UNCHANGED <<config, server, down, told>>
    BY <1>9 DEF StartTls
  <2>2. m.seq = 2 /\ m.kind = "token"
    BY DEF Token, Auth
  <2> HIDE DEF m
  <2>3. down = <<>> /\ next = 2 /\ Len(told) = 1 /\ Head(up') = m
    BY <2>1 DEF Numbered, Turns
  <2> QED
    BY <1>1, <2>1, <2>2, <2>3, <1>5, KindsOfNone DEF Numbered, server
<1>10. CASE Verdict /\ ~FailSilently
  <2> DEFINE m == Msg("ok", 2)
  <2>1. /\ pc = "verdict" /\ pc' = "session" /\ down # <<>> /\ Head(down).kind = "ok"
        /\ told' = Append(told, m) /\ down' = Tail(down)
        /\ UNCHANGED <<config, server, up, inbox, gone>>
    BY <1>10 DEF Verdict, Heard, Succeed
  <2>2. m \in Message /\ m.seq = 2
    BY DEF Msg, Message, PluginNames
  <2> HIDE DEF m
  <2>5. Len(told) = 1
    BY <2>1 DEF Numbered
  <2>3. \A k \in 1 .. Len(told') : told'[k].seq = 2 * (k - 1)
    BY <1>5, <2>1, <2>2, <2>5, AppendToOne
  <2>4. down' = <<>> /\ up = <<>>
    BY <2>1, HeadAndTail DEF Turns, Passing
  <2> QED
    BY <1>1, <2>1, <2>3, <2>4, KindsOfNone DEF Numbered, server
<1>11. CASE SwitchPlugin /\ ~FailTelling(Denied)
  <2> DEFINE m == Token(Head(down).plugin, Head(down).seq + 1, Head(down).seed)
  <2>1. /\ pc = "verdict" /\ down # <<>> /\ Head(down).kind = "switch"
        /\ Head(down).plugin \in Plugins /\ down' = Tail(down) /\ Ask(m, "verdict")
    BY <1>11 DEF SwitchPlugin, Heard
  <2>2. m \in Message /\ m.kind = "token" /\ m.seq = Head(down).seq + 1
    BY <2>1, <1>4 DEF Token, Auth, Message, PluginNames, Credentials
  <2> HIDE DEF m
  <2> QED
    BY <2>1, <2>2, AskNumbered
<1>12. CASE FastPath
  <2>1. /\ pc = "verdict" /\ pc' = pc /\ down # <<>> /\ Head(down).kind = "fast"
        /\ down' = Tail(down) /\ UNCHANGED <<config, server, up, inbox, told, gone>>
    BY <1>12 DEF FastPath, Heard
  <2>2. /\ stage = "accepted" /\ Kinds(down') \subseteq Kinds(down) /\ down' \in Seq(Message)
    BY <1>1, <2>1, HeadAndTail DEF Numbered
  <2>3. down' # <<>> => Head(down').kind \in Accepting \cup Passing
    BY <2>2, KindsOfTail DEF Turns
  <2> QED
    BY <1>1, <2>1, <2>2, <2>3 DEF Numbered, server, Accepting, Passing
<1>13. CASE FullPath /\ ~FailTelling(Denied)
  <2> DEFINE m == Msg("clear", Head(down).seq + 1)
  <2>1. /\ pc = "verdict" /\ down # <<>> /\ Head(down).kind = "full"
        /\ down' = Tail(down) /\ Ask(m, "verdict")
    BY <1>13 DEF FullPath, Heard
  <2>2. m \in Message /\ m.kind = "clear" /\ m.seq = Head(down).seq + 1
    BY <2>1, <1>4 DEF Msg, Message, PluginNames, Credentials
  <2> HIDE DEF m
  <2> QED
    BY <2>1, <2>2, AskNumbered
<1>14. CASE PgProxy
  BY <1>1, <1>14
  DEF PgProxy, PgLogin, TakeOpening, AuthOk, AuthMd5, AuthSasl, AuthUnknown, AuthError,
      AuthOther, ScramFirst, ScramFinal
<1> QED
  BY <1>2, <1>3, <1>6, <1>7, <1>8, <1>9, <1>10, <1>11, <1>12, <1>13, <1>14
  DEF Proxy, MysqlProxy, Refused, SwitchPlugin, FullPath

(* The server goes on with the number after the packet it reads.           *)
LEMMA ServerNumbered ==
  ASSUME NInv, LInv', Mysql, Server
  PROVE  Numbered'
<1> USE DEF NInv, CInv, SInv
<1>1. ASSUME MysqlGreets \/ MysqlReads
      PROVE  /\ UNCHANGED <<config, pc, inbox, told, gone>> /\ "server" \notin gone /\ Mysql'
  BY <1>1 DEF MysqlGreets, MysqlReads, Reply, Rejects, Reads, config, Mysql
<1>2. /\ up \in Seq(Message) /\ down \in Seq(Message) /\ next \in Nat
      /\ \A k \in 1 .. Len(told) : told[k].seq = 2 * (k - 1)
  BY DEF LInv, Typed, Numbered
<1>3. CASE MysqlGreets
  <2> DEFINE m == Auth("greeting", 0, upstream.announced, 1)
  <2>1. /\ m \in Message /\ m.seq = 0 /\ m.kind = "greeting"
    BY DEF Auth, Message, PluginNames, LInv, Typed, Upstream
  <2>2. /\ pc = "greeting" /\ stage = "new" /\ up' = up /\ down' = down \o <<m>>
        /\ stage' = "response" /\ next' = 1
    BY <1>3 DEF MysqlGreets, Reply
  <2> HIDE DEF m
  <2>3. down = <<>> /\ up = <<>>
    BY <2>2 DEF Turns, Early
  <2>4. down' = <<m>> /\ Head(<<m>>) = m /\ Kinds(down') = {"greeting"}
    BY <2>1, <2>2, <2>3, KindsOfOne
  <2> QED
    BY <1>1, <1>2, <1>3, <2>1, <2>2, <2>3, <2>4 DEF Numbered
<1>4. CASE MysqlReads
  <2> DEFINE m == Head(up)
             answer == m.seq + 1
  <2>1. /\ up # <<>> /\ up' = <<>> /\ down = <<>> /\ m \in Message
        /\ m.kind \in {"sslRequest", "token", "clear"}
    BY <1>2, <1>4, KindsOfTail, TailOfOne DEF MysqlReads, Reads, Turns
  <2>2. m.seq = next /\ answer = next + 1 /\ answer \in Nat /\ answer + 1 \in Nat
    BY <1>2, <2>1 DEF Numbered
  <2>3. /\ m.kind = "sslRequest" => pc = "tls" /\ next = 1
        /\ pc \in Early => m.kind = "sslRequest" /\ pc = "tls"
    <3>1. m.kind \in Kinds(up) /\ (m.kind = "sslRequest" => pc = "tls")
      BY <1>2, <2>1, KindsOfTail DEF Numbered
    <3> QED
      BY <2>1, <3>1 DEF Numbered, Turns, Early
  <2>4. CASE m.kind = "sslRequest"
    <3>1. Reply(<<>>, "response", answer)
      BY <1>4, <2>2, <2>4 DEF MysqlReads
    <3>2. down' = <<>> /\ stage' = "response" /\ next' = 2
      <4>1. down' = <<>> \o <<>> /\ stage' = "response" /\ next' = answer
        BY <2>1, <3>1 DEF Reply
      <4> QED
        BY <2>2, <2>3, <2>4, <4>1
    <3> QED
      BY <1>1, <1>2, <1>4, <2>1, <2>3, <2>4, <3>2, KindsOfNone DEF Numbered
  <2>5. CASE m.kind # "sslRequest"
    <3>1. \/ Rejects(answer)
          \/ Reply(<<Auth("switch", answer, upstream.account, 2)>>, "token", answer + 1)
          \/ Reply(<<Msg("ok", answer)>>, "accepted", answer + 1)
          \/ Reply(<<Msg("fast", answer), Msg("ok", answer + 1)>>, "accepted", answer + 2)
          \/ Reply(<<Msg("full", answer)>>, "clear", answer + 1)
      BY <1>4, <2>5 DEF MysqlReads
    <3>2. /\ Msg("err", answer) \in Message /\ Msg("ok", answer) \in Message
          /\ Msg("full", answer) \in Message /\ Msg("fast", answer) \in Message
          /\ Msg("ok", answer + 1) \in Message
          /\ Auth("switch", answer, upstream.account, 2) \in Message
          /\ Msg("full", answer).seq = answer
          /\ Auth("switch", answer, upstream.account, 2).seq = answer
          /\ Msg("err", answer).kind = "err" /\ Msg("ok", answer).kind = "ok"
          /\ Msg("full", answer).kind = "full" /\ Msg("fast", answer).kind = "fast"
          /\ Msg("ok", answer + 1).kind = "ok"
          /\ Auth("switch", answer, upstream.account, 2).kind = "switch"
      BY <2>2 DEF Msg, Auth, Message, PluginNames, LInv, Typed, Upstream
    <3>3. pc \notin Early
      BY <2>3, <2>5
    <3> HIDE DEF m, answer
    <3>4. ASSUME NEW n \in Message, NEW to, NEW count, Reply(<<n>>, to, count),
                 n.kind \in {"switch", "full"} => n.seq + 1 = count,
                 n.kind \notin {"fast", "greeting"}
          PROVE  Numbered'
      <4>1. down' = <<n>> /\ next' = count
        BY <2>1, <3>4 DEF Reply
      <4>2. Head(<<n>>) = n /\ Kinds(<<n>>) = {n.kind}
        BY KindsOfOne
      <4> QED
        BY <1>1, <1>2, <1>4, <2>1, <3>3, <3>4, <4>1, <4>2 DEF Numbered, Early
    <3>5. ASSUME Reply(<<Msg("fast", answer), Msg("ok", answer + 1)>>, "accepted", answer + 2)
          PROVE  Numbered'
      <4>1. down' = <<Msg("fast", answer), Msg("ok", answer + 1)>> /\ stage' = "accepted"
        BY <2>1, <3>5 DEF Reply
      <4>2. Head(down').kind = "fast"
        BY <3>2, <4>1
      <4> QED
        BY <1>1, <1>2, <1>4, <2>1, <3>3, <4>1, <4>2 DEF Numbered, Early
    <3> QED
      BY <2>2, <3>1, <3>2, <3>4, <3>5 DEF Rejects
  <2> QED
    BY <2>4, <2>5
<1>5. CASE PgStarts \/ PgReads
  BY <1>5 DEF PgStarts, PgReads, Reads, Numbered
<1> QED
  BY <1>3, <1>4, <1>5 DEF Server

(* The client numbers its only packet 1, and who leaves says no more.      *)
LEMMA EndNumbered ==
  ASSUME NInv, LInv', Mysql, ClientSpeaks \/ ClientLeaves \/ ServerLeaves \/ UNCHANGED vars
  PROVE  Numbered'
<1> USE DEF NInv, CInv, SInv
<1>1. CASE ClientSpeaks
  <2>1. pc = "response" /\ Send(Msg("response", told[1].seq + 1))
    BY <1>1 DEF ClientSpeaks, LInv, Typed, PgLogin
  <2>2. told[1].seq = 0
    <3>1. Len(told) = 1
      BY <2>1 DEF Numbered
    <3>2. 1 \in 1 .. Len(told) /\ 2 * (1 - 1) = 0
      BY <3>1
    <3> QED
      BY <3>2 DEF Numbered
  <2>3. Msg("response", told[1].seq + 1).seq = 1
    BY <2>2 DEF Msg
  <2> DEFINE m == Msg("response", told[1].seq + 1)
  <2> HIDE DEF m
  <2>4. inbox' = <<m>> /\ Head(<<m>>) = m /\ m.seq = 1
        /\ UNCHANGED <<config, pc, server, up, down, told, gone>>
    BY <2>1, <2>3 DEF Send, m
  <2> QED
    BY <2>1, <2>4 DEF Numbered, Mysql, config, server
<1>2. CASE ClientLeaves \/ ServerLeaves \/ UNCHANGED vars
  BY <1>2 DEF ClientLeaves, ServerLeaves, vars, Numbered, Mysql, config, server
<1> QED
  BY <1>1, <1>2

(* The numbers both ends expect, with what is said at each label.          *)
THEOREM NumberInvariant == Spec => []NInv
<1>1. Init /\ CInv => NInv
  BY KindsOfNone DEF Init, NInv, Numbered
<1>2. NInv /\ [Next]_vars /\ CInv' => NInv'
  <2> SUFFICES ASSUME NInv, [Next]_vars, CInv'
               PROVE  Numbered'
    BY DEF NInv
  <2>1. CASE Mysql
    BY <2>1, ProxyNumbered, ServerNumbered, EndNumbered DEF Next, CInv, SInv
  <2>2. CASE ~Mysql
    BY <2>2, ConfigStays DEF Numbered, Mysql, config
  <2> QED
    BY <2>1, <2>2
<1> QED
  BY <1>1, <1>2, ClosingInvariant, PTL DEF Spec

(* Every packet of a MySQL login on its way to the server carries the      *)
(* number the server expects next, also after the move to TLS, which only  *)
(* the server has, and after a switch of plugin; what the client is told   *)
(* is numbered 0 and 2, which counts the greeting and the verdict and      *)
(* nothing of the talk with the server.                                    *)
THEOREM LoginsInSequence == Spec => []InSequence
<1>1. NInv => InSequence
  <2> SUFFICES ASSUME NInv, Mysql
               PROVE  /\ \A k \in 1 .. Len(up) : up[k].seq = next
                      /\ \A k \in 1 .. Len(told) : told[k].seq = 2 * (k - 1)
    BY DEF InSequence
  <2>1. ASSUME NEW k \in 1 .. Len(up)
        PROVE  up[k].seq = next
    <3>1. up \in Seq(Message) /\ Len(up) <= 1
      BY DEF NInv, CInv, SInv, LInv, Typed, Turns
    <3>2. k = 1 /\ up # <<>> /\ Head(up) = up[1]
      BY <3>1
    <3> QED
      BY <3>2 DEF NInv, Numbered
  <2> QED
    BY <2>1 DEF NInv, Numbered
<1> QED
  BY <1>1, NumberInvariant, PTL

-----------------------------------------------------------------------------
(* Why a login fails: what a refusal of the server, a request for the whole*)
(* password, another plugin or an unknown method says about the login.     *)
Caused ==
  /\ upstream.account \in Accounts
  /\ stage = "refused" => ~CanLogIn
  /\ "err" \in Kinds(down) => stage = "refused"
  /\ pc = "tls" => upstream.tls /\ WantsTls
  /\ pc \in {"scramFirst", "scramFinal"} => upstream.account = "scram"
  /\ Kinds(up) \cap {"clientFirst", "clientFinal"} # {} => upstream.account = "scram"
  /\ "sasl" \in Kinds(down) => upstream.account = "scram"
  /\ "unsupported" \in Kinds(down) => upstream.account = "unsupported"
  /\ up # <<>> /\ Head(up).kind = "token" =>
       \/ stage = "response" /\ Head(up).seed = 1
       \/ stage = "token" /\ Head(up).seed = 2 /\ Head(up).plugin = upstream.account
  /\ "switch" \in Kinds(down) => Mysql
  /\ down # <<>> /\ Head(down).kind = "switch" =>
       stage = "token" /\ Head(down).seed = 2 /\ Head(down).plugin = upstream.account
  /\ "full" \in Kinds(down) => upstream.account = "sha2" /\ (CanLogIn => ~upstream.cached)
  /\ FailsForCause

KInv == NInv /\ Caused

(* The login the settings and the server allow is settled before it        *)
(* starts.                                                                 *)
LEMMA CauseStays ==
  ASSUME UNCHANGED config
  PROVE  /\ CanLogIn' = CanLogIn /\ WantsTls' = WantsTls
         /\ (upstream.account \in Accounts)' = (upstream.account \in Accounts)
BY DEF config, CanLogIn, Complies, DemandsTls, CertificateSuffices, Mysql, WantsTls, Accounts

(* A step that keeps the parts of Caused and ends no login keeps its       *)
(* cause.                                                                  *)
LEMMA MoveCaused ==
  ASSUME KInv, UNCHANGED <<config, stage>>, gone \subseteq gone',
         pc' = "closed" => pc = "closed",
         pc' = "tls" => pc = "tls" \/ (upstream.tls /\ WantsTls),
         pc' \in {"scramFirst", "scramFinal"} => upstream.account = "scram",
         Kinds(down') \subseteq Kinds(down),
         down' # <<>> /\ Head(down').kind = "switch" => down' = down,
         Kinds(up') \cap {"clientFirst", "clientFinal"} # {} => upstream.account = "scram",
         up' # <<>> /\ Head(up').kind = "token" =>
           \/ up' = up
           \/ stage = "response" /\ Head(up').seed = 1
           \/ stage = "token" /\ Head(up').seed = 2 /\ Head(up').plugin = upstream.account
  PROVE  Caused'
<1>1. CanLogIn' = CanLogIn /\ WantsTls' = WantsTls /\ (upstream.account \in Accounts)'
  BY CauseStays DEF KInv, Caused
<1>2. FailsForCause'
  BY <1>1 DEF KInv, Caused, FailsForCause
<1> QED
  BY <1>1, <1>2 DEF KInv, Caused, config, Mysql

(* Where there was a cause to fail, the login may be given up.             *)
LEMMA FailCaused ==
  ASSUME KInv, Fail, ~CanLogIn \/ gone # {}
  PROVE  Caused'
<1>1. CanLogIn' = CanLogIn /\ WantsTls' = WantsTls /\ (upstream.account \in Accounts)'
  BY CauseStays DEF KInv, Caused, Fail
<1>2. FailsForCause'
  BY <1>1 DEF Fail, FailsForCause
<1> QED
  BY <1>1, <1>2, KindsOfNone DEF KInv, Caused, Fail, config, server

(* What the settings and the server may be.                                *)
LEMMA SettingTypes ==
  ASSUME KInv
  PROVE  /\ setting.driver \in {"mysql", "postgres"} /\ setting.mode \in Modes
         /\ setting.required \in BOOLEAN
         /\ setting.password \in {"right", "wrong", "unset"}
         /\ upstream.tls \in BOOLEAN /\ upstream.cached \in BOOLEAN
         /\ setting.user \in BOOLEAN /\ setting.ca \in BOOLEAN
         /\ Mysql => upstream.account \in Plugins \cup {"unsupported"}
         /\ ~Mysql => upstream.account \in {"trust", "md5", "scram", "unsupported"}
BY DEF KInv, NInv, CInv, SInv, LInv, Typed, Setting, Upstream, Caused, Accounts

(* Before the first packet: loading the settings, connecting, TLS at once. *)
LEMMA ConnectCaused ==
  ASSUME KInv, LInv', Load \/ ConnectPlain \/ ConnectTls \/ EndOfFile
  PROVE  Caused'
<1>1. CASE (Load \/ ConnectPlain \/ ConnectTls) /\ ~FailSilently
  <2>1. /\ UNCHANGED <<config, server, gone, up, down>>
        /\ pc' \notin {"closed", "tls", "scramFirst", "scramFinal"}
    BY <1>1 DEF Load, ConnectPlain, ConnectTls, ConnectedAs
  <2> QED
    BY <2>1, MoveCaused DEF server, KInv, Caused
<1>2. CASE ConnectTls /\ FailSilently
  <2>1. ~CanLogIn
    BY <1>2, SettingTypes
    DEF ConnectTls, ConnectedAs, FailSilently, Fail, CanLogIn, DemandsTls, Modes
  <2> QED
    BY <1>2, <2>1, FailCaused DEF FailSilently
<1>3. CASE EndOfFile
  BY <1>3, FailCaused DEF EndOfFile, FailSilently, KInv, Caused
<1> QED
  BY <1>1, <1>2, <1>3 DEF Load, ConnectPlain, ConnectedAs, FailSilently, Fail

(* A question to the server, and reading its answer.                       *)
LEMMA AskCaused ==
  ASSUME KInv, LInv', NEW m \in Message, NEW then, Ask(m, then),
         down # <<>>, down' = Tail(down), Head(down).kind \notin Accepting \cup Passing,
         then \notin {"closed", "tls"},
         then \in {"scramFirst", "scramFinal"} => upstream.account = "scram",
         m.kind \in {"clientFirst", "clientFinal"} => upstream.account = "scram",
         m.kind = "token" => stage = "token" /\ m.seed = 2 /\ m.plugin = upstream.account
  PROVE  Caused'
<1> USE DEF KInv, NInv, CInv, SInv
<1>1. down' = <<>> /\ up = <<>>
  BY HeadAndTail DEF Turns
<1>2. up' = Append(<<>>, m) /\ Append(<<>>, m) = <<m>>
  BY <1>1 DEF Ask
<1>3. Head(<<m>>) = m /\ <<m>> # <<>> /\ Kinds(<<m>>) = {m.kind}
  BY KindsOfOne
<1>4. Kinds(down') = {}
  BY <1>1, KindsOfNone
<1>5. UNCHANGED <<config, stage, gone>> /\ pc' = then
  BY DEF Ask, server
<1>6. /\ Kinds(up') \cap {"clientFirst", "clientFinal"} # {} => upstream.account = "scram"
      /\ up' # <<>> /\ Head(up').kind = "token" =>
           stage = "token" /\ Head(up').seed = 2 /\ Head(up').plugin = upstream.account
  BY <1>2, <1>3
<1> QED
  BY <1>1, <1>4, <1>5, <1>6, MoveCaused

(* An answer of the server read, with nothing asked.                       *)
LEMMA ConsumeCaused ==
  ASSUME KInv, LInv', UNCHANGED <<config, stage, gone, up>>,
         down # <<>>, down' = Tail(down),
         Head(down).kind \notin Passing \/ stage = "accepted" \/ ~Mysql,
         pc' \notin {"closed", "tls"},
         pc' \in {"scramFirst", "scramFinal"} => upstream.account = "scram"
  PROVE  Caused'
<1> USE DEF KInv, NInv, CInv, SInv
<1>1. /\ Kinds(down') \subseteq Kinds(down) /\ down' \in Seq(Message)
      /\ Head(down).kind \notin Passing => down' = <<>>
  BY HeadAndTail
<1>2. down' # <<>> => Head(down').kind \in Kinds(down)
  BY <1>1, KindsOfTail
<1>3. "switch" \in Kinds(down) => Mysql /\ stage # "accepted"
  BY DEF Caused, Turns, Accepting, Passing
<1>4. down' # <<>> => Head(down').kind # "switch"
  BY <1>1, <1>2, <1>3
<1>5. Caused
  OBVIOUS
<1> HIDE DEF KInv, NInv, CInv, SInv
<1> QED
  BY <1>1, <1>4, <1>5, MoveCaused DEF Caused

(* Each step of the MySQL driver that gives up has a cause to.             *)
LEMMA MysqlCaused ==
  ASSUME KInv, LInv', MysqlProxy
  PROVE  Caused'
<1> USE DEF KInv, NInv, CInv, SInv
<1>1. pc \in MysqlLogin /\ Mysql /\ UNCHANGED <<config, stage, gone>>
  <2>1. pc \in MysqlLogin
    BY
    DEF MysqlLogin, MysqlProxy, TakeGreeting, TakeResponse, StartTls, Verdict, SwitchPlugin,
           FastPath, FullPath, Refused
  <2> QED
    BY <2>1, ProxyMoves DEF Proxy, LInv, Typed
<1>2. ASSUME down # <<>>
      PROVE  /\ Head(down) \in Message /\ Head(down).seq \in Nat
             /\ Head(down).kind \in Kinds(down)
             /\ Head(down).seq + 1 \in Nat /\ Head(down).seed \in Nat
  <2>1. Head(down) \in Message /\ Head(down).kind \in Kinds(down)
    BY <1>2, HeadAndTail
  <2> QED
    BY <2>1 DEF Message
<1>3. ASSUME NEW m \in Message, up = <<>>, up' = Append(up, m), UNCHANGED down,
             m.kind \in {"sslRequest", "token"}, stage = "response", pc' \in {"tls",
             "verdict"},
             pc' = "tls" => upstream.tls /\ WantsTls, m.kind = "token" => m.seed = 1
      PROVE  Caused'
  <2>1. up' = <<m>> /\ Head(<<m>>) = m /\ Kinds(<<m>>) = {m.kind}
    BY <1>3, KindsOfOne
  <2> QED
    BY <1>1, <1>3, <2>1, MoveCaused
<1>4. CASE TakeGreeting
  <2>1. /\ pc' = "response" /\ down # <<>> /\ down' = Tail(down) /\ UNCHANGED up
        /\ Head(down).kind = "greeting"
    BY <1>4 DEF TakeGreeting, Heard
  <2> QED
    BY <1>1, <2>1, ConsumeCaused DEF Passing
<1>5. CASE TakeResponse /\ FailSilently
  <2>1. ~CanLogIn
    BY <1>1, <1>5, SettingTypes
    DEF TakeResponse, FailSilently, Fail, CanLogIn, DemandsTls, WantsTls
  <2> QED
    BY <1>5, <2>1, FailCaused DEF FailSilently
<1>6. CASE TakeResponse /\ ~FailSilently
  <2> DEFINE m == IF WantsTls THEN Msg("sslRequest", Head(inbox).seq)
                              ELSE Token(plugin, Head(inbox).seq, 1)
  <2>1. /\ pc = "response" /\ inbox # <<>> /\ UNCHANGED down
        /\ up' = Append(up, m) /\ pc' = IF WantsTls THEN "tls" ELSE "verdict"
        /\ WantsTls => upstream.tls
    BY <1>6 DEF TakeResponse
  <2>2. Head(inbox) \in Message
    BY <2>1, KindsOfTail DEF LInv, Typed
  <2>3. m \in Message /\ m.kind = (IF WantsTls THEN "sslRequest" ELSE "token")
        /\ (~WantsTls => m.seed = 1)
    BY <2>2 DEF Msg, Token, Auth, Message, PluginNames, LInv, Typed, Plugins, Credentials
  <2> HIDE DEF m
  <2>4. up = <<>> /\ stage = "response"
    BY <1>1, <2>1 DEF Turns, Early, Numbered
  <2> QED
    BY <2>1, <2>3, <2>4, <1>3
<1>7. CASE StartTls /\ FailSilently
  <2>1. pc = "tls" /\ ~CertificateSuffices
    BY <1>7 DEF StartTls, FailSilently, Fail
  <2>2. ~CanLogIn
    BY <2>1, SettingTypes DEF CanLogIn, Caused, WantsTls
  <2> QED
    BY <1>7, <2>2, FailCaused DEF FailSilently
<1>8. CASE StartTls /\ ~FailSilently
  <2> DEFINE m == Token(plugin, 2, 1)
  <2>1. /\ pc = "tls" /\ stage = "response" /\ pc' = "verdict" /\ up = <<>>
        /\ up' = Append(up, m) /\ UNCHANGED down
    BY <1>8 DEF StartTls
  <2>2. m \in Message /\ m.kind = "token" /\ m.seed = 1
    BY DEF Token, Auth, Message, PluginNames, LInv, Typed, Plugins, Credentials
  <2> HIDE DEF m
  <2> QED
    BY <2>1, <2>2, <1>3
<1>9. CASE Verdict /\ FailSilently
  BY <1>9, FailCaused DEF Verdict, Succeed, FailSilently, Fail
<1>10. CASE Verdict /\ ~FailSilently
  <2>1. /\ pc' = "session" /\ down # <<>> /\ down' = Tail(down) /\ UNCHANGED up
        /\ Head(down).kind = "ok"
    BY <1>10 DEF Verdict, Succeed, Heard
  <2> QED
    BY <1>1, <2>1, ConsumeCaused DEF Passing
<1>11. CASE SwitchPlugin
  <2> DEFINE m == Token(Head(down).plugin, Head(down).seq + 1, Head(down).seed)
  <2>1. /\ pc = "verdict" /\ down # <<>> /\ Head(down).kind = "switch"
        /\ stage = "token" /\ Head(down).seed = 2 /\ Head(down).plugin = upstream.account
    BY <1>11 DEF SwitchPlugin, Heard, Caused
  <2>2. CASE upstream.account \in Plugins
    <3>1. down' = Tail(down) /\ Ask(m, "verdict")
      BY <1>11, <2>1, <2>2 DEF SwitchPlugin
    <3>2. m \in Message /\ m.kind = "token" /\ m.seed = 2 /\ m.plugin = upstream.account
      BY <2>1, <2>2, <1>2 DEF Token, Auth, Message, PluginNames, Credentials
    <3> HIDE DEF m
    <3> QED
      BY <2>1, <3>1, <3>2, AskCaused DEF Accepting, Passing
  <2>3. CASE upstream.account \notin Plugins
    <3>1. ~CanLogIn
      BY <1>1, <2>3, SettingTypes DEF CanLogIn
    <3>2. Fail
      BY <1>11, <2>1, <2>3 DEF SwitchPlugin, FailTelling
    <3> QED
      BY <3>1, <3>2, FailCaused
  <2> QED
    BY <2>2, <2>3
<1>12. CASE FastPath
  <2>1. /\ pc' = pc /\ pc = "verdict" /\ down # <<>> /\ down' = Tail(down) /\ UNCHANGED up
        /\ Head(down).kind = "fast"
    BY <1>12 DEF FastPath, Heard
  <2>2. stage = "accepted"
    BY <1>1, <1>2, <2>1 DEF Numbered
  <2> QED
    BY <1>1, <2>1, <2>2, ConsumeCaused
<1>13. CASE FullPath
  <2> DEFINE m == Msg("clear", Head(down).seq + 1)
  <2>1. pc = "verdict" /\ down # <<>> /\ Head(down).kind = "full"
    BY <1>13 DEF FullPath, Heard
  <2>2. CASE wire = "tls"
    <3>1. down' = Tail(down) /\ Ask(m, "verdict")
      BY <1>13, <2>2 DEF FullPath
    <3>2. m \in Message /\ m.kind = "clear"
      BY <2>1, <1>2 DEF Msg, Message, PluginNames, Credentials
    <3> HIDE DEF m
    <3> QED
      BY <2>1, <3>1, <3>2, AskCaused DEF Accepting, Passing
  <2>3. CASE wire # "tls"
    <3>1. ~DemandsTls
      BY <2>1, <2>3 DEF LInv, Protected, Secured
    <3>2. upstream.account = "sha2" /\ (CanLogIn => ~upstream.cached)
      BY <1>2, <2>1 DEF Caused
    <3>3. ~CanLogIn
      BY <1>1, <3>1, <3>2, SettingTypes DEF CanLogIn, DemandsTls
    <3>4. Fail
      BY <1>13, <2>1, <2>3 DEF FullPath, FailTelling
    <3> QED
      BY <3>3, <3>4, FailCaused
  <2> QED
    BY <2>2, <2>3
<1>14. CASE Refused
  <2>1. down # <<>> /\ Head(down).kind = "err" /\ Fail
    BY <1>14 DEF Refused, Heard, FailTelling
  <2>2. ~CanLogIn
    BY <1>2, <2>1 DEF Caused
  <2> QED
    BY <2>1, <2>2, FailCaused
<1> QED
  BY <1>4, <1>5, <1>6, <1>7, <1>8, <1>9, <1>10, <1>11, <1>12, <1>13, <1>14 DEF MysqlProxy

(* So has each step of the PostgreSQL driver.                              *)
LEMMA PgCaused ==
  ASSUME KInv, LInv', PgProxy
  PROVE  Caused'
<1> USE DEF KInv, NInv, CInv, SInv
<1>1. pc \in PgLogin /\ ~Mysql /\ UNCHANGED <<config, stage, gone>>
  <2>1. pc \in PgLogin
    BY DEF PgLogin, PgProxy, TakeOpening, AuthOk, AuthMd5, AuthSasl, AuthUnknown, AuthError,
           AuthOther, ScramFirst, ScramFinal
  <2> QED
    BY <2>1, ProxyMoves DEF Proxy, LInv, Typed
<1>2. down # <<>> => Head(down).kind \in Kinds(down)
  BY HeadAndTail
<1>3. /\ Pg("md5") \in Message /\ Pg("clientFirst") \in Message /\ Pg("clientFinal") \in Message
      /\ Pg("md5").kind = "md5" /\ Pg("clientFirst").kind = "clientFirst"
      /\ Pg("clientFinal").kind = "clientFinal"
  BY DEF Pg, Msg, Message, PluginNames, Credentials
<1>4. CASE TakeOpening
  <2>1. /\ pc \in {"startup", "restart"} /\ inbox # <<>> /\ UNCHANGED down
        /\ pc' \in {"restart", "auth"}
    BY <1>4 DEF TakeOpening, PassOpening
  <2>2. CASE up' = up
    BY <1>1, <2>1, <2>2, MoveCaused DEF Caused
  <2>3. CASE up' = Append(up, Head(inbox))
    <3> DEFINE m == Head(inbox)
    <3>1. m \in Message /\ m.kind \in {"response", "startup", "ssl", "gss"}
      BY <2>1, KindsOfTail DEF LInv, Typed
    <3> HIDE DEF m
    <3>2. up' = Append(<<>>, m)
      BY <2>1, <2>3 DEF Turns, Early, m
    <3>3. up' = <<m>> /\ Head(<<m>>) = m /\ Kinds(<<m>>) = {m.kind}
      BY <3>1, <3>2, KindsOfOne
    <3> QED
      BY <1>1, <2>1, <3>1, <3>3, MoveCaused
  <2> QED
    BY <1>4, <2>2, <2>3 DEF TakeOpening, PassOpening
<1>5. CASE AuthOk
  <2>1. CASE FailSilently
    BY <1>5, <2>1, FailCaused DEF AuthOk, Succeed, FailSilently, Fail
  <2>2. CASE ~FailSilently
    BY <1>1, <1>5, <2>2, ConsumeCaused DEF AuthOk, Succeed, Heard
  <2> QED
    BY <2>1, <2>2
<1>6. CASE AuthMd5
  <2>1. pc = "auth" /\ down # <<>> /\ Head(down).kind = "md5"
    BY <1>6 DEF AuthMd5, Heard
  <2>2. upstream.account = "md5"
    BY <1>2, <2>1 DEF Verified
  <2>3. CASE setting.password # "unset"
    BY <1>6, <2>1, <2>3, <1>3, AskCaused DEF AuthMd5, Accepting, Passing
  <2>4. CASE setting.password = "unset"
    BY <1>6, <2>2, <2>4, FailCaused DEF AuthMd5, CanLogIn, FailSilently
  <2> QED
    BY <2>3, <2>4
<1>7. CASE AuthSasl
  <2>1. pc = "auth" /\ down # <<>> /\ Head(down).kind = "sasl"
    BY <1>7 DEF AuthSasl, Heard
  <2>2. upstream.account = "scram"
    BY <1>2, <2>1 DEF Caused
  <2>3. CASE setting.password # "unset"
    BY <1>7, <2>1, <2>2, <2>3, <1>3, AskCaused DEF AuthSasl, Accepting, Passing
  <2>4. CASE setting.password = "unset"
    BY <1>7, <2>2, <2>4, FailCaused DEF AuthSasl, CanLogIn, FailSilently
  <2> QED
    BY <2>3, <2>4
<1>8. CASE AuthUnknown
  <2>1. upstream.account = "unsupported"
    BY <1>2, <1>8 DEF AuthUnknown, Heard, Caused
  <2> QED
    BY <1>8, <2>1, FailCaused DEF AuthUnknown, FailSilently, CanLogIn
<1>9. CASE AuthError
  BY <1>2, <1>9, FailCaused DEF AuthError, Heard, FailTelling, Caused
<1>10. CASE AuthOther
  <2>1. /\ pc = "auth" /\ pc' = pc /\ down # <<>> /\ down' = Tail(down) /\ UNCHANGED up
    BY <1>10 DEF AuthOther, Heard
  <2> QED
    BY <1>1, <2>1, ConsumeCaused
<1>11. CASE ScramFirst
  <2>1. /\ pc = "scramFirst" /\ down # <<>> /\ upstream.account = "scram"
    BY <1>11 DEF ScramFirst, Caused
  <2>2. CASE FailSilently
    <3>1. ~CanLogIn
      BY <1>11, <2>1, <2>2, <1>2
      DEF ScramFirst, Heard, Caused, CanLogIn, FirstSound, Ask, FailSilently, Fail
    <3> QED
      BY <2>2, <3>1, FailCaused DEF FailSilently
  <2>3. CASE ~FailSilently
    <3>1. /\ Head(down).kind = "serverFirst" /\ down' = Tail(down)
          /\ Ask(Pg("clientFinal"), "scramFinal")
      BY <1>11, <2>3 DEF ScramFirst, Heard
    <3> QED
      BY <2>1, <3>1, <1>3, AskCaused DEF Accepting, Passing
  <2> QED
    BY <2>2, <2>3
<1>12. CASE ScramFinal
  <2>1. /\ pc = "scramFinal" /\ down # <<>> /\ upstream.account = "scram"
    BY <1>12 DEF ScramFinal, Caused
  <2>2. CASE FailSilently
    <3>1. ~CanLogIn
      BY <1>12, <2>1, <2>2, <1>2
      DEF ScramFinal, Heard, Caused, CanLogIn, FinalSound, FailSilently, Fail
    <3> QED
      BY <2>2, <3>1, FailCaused DEF FailSilently
  <2>3. CASE ~FailSilently
    <3>1. /\ pc' = "auth" /\ down' = Tail(down) /\ UNCHANGED up
      BY <1>12, <2>3 DEF ScramFinal
    <3> QED
      BY <1>1, <2>1, <3>1, ConsumeCaused
  <2> QED
    BY <2>2, <2>3
<1> QED
  BY <1>4, <1>5, <1>6, <1>7, <1>8, <1>9, <1>10, <1>11, <1>12 DEF PgProxy

(* An answer of the server.                                                *)
LEMMA AnswerCaused ==
  ASSUME KInv, NEW messages \in Seq(Message), NEW to, NEW count,
         Reply(messages, to, count), up # <<>>, up' = Tail(up),
         to = "refused" => ~CanLogIn,
         "err" \in Kinds(messages) => to = "refused",
         "sasl" \in Kinds(messages) => upstream.account = "scram",
         "unsupported" \in Kinds(messages) => upstream.account = "unsupported",
         "switch" \in Kinds(messages) => Mysql,
         messages # <<>> /\ Head(messages).kind = "switch" =>
           /\ to = "token" /\ Head(messages).seed = 2
           /\ Head(messages).plugin = upstream.account,
         "full" \in Kinds(messages) =>
           upstream.account = "sha2" /\ (CanLogIn => ~upstream.cached)
  PROVE  Caused'
<1> USE DEF KInv, NInv, CInv, SInv
<1>1. UNCHANGED <<config, pc, gone>> /\ stage' = to
  BY DEF Reply
<1>2. /\ CanLogIn' = CanLogIn /\ WantsTls' = WantsTls /\ (upstream.account \in Accounts)'
      /\ Mysql' = Mysql
  BY <1>1, CauseStays DEF Caused, config, Mysql
<1>3. up' = <<>> /\ down' = messages
  <2>1. up \in Seq(Message) /\ Len(up) <= 1 /\ down = <<>>
    BY DEF LInv, Typed, Turns
  <2>2. <<>> \o messages = messages
    OBVIOUS
  <2> QED
    BY <2>1, <2>2, TailOfOne DEF Reply
<1>4. Kinds(up') = {}
  BY <1>3, KindsOfNone
<1>5. FailsForCause'
  BY <1>1, <1>2 DEF Caused, FailsForCause
<1> QED
  BY <1>1, <1>2, <1>3, <1>4, <1>5 DEF Caused, config

(* A MySQL server refuses, switches or wants the whole password for a      *)
(* cause.                                                                  *)
LEMMA MysqlReadsCaused ==
  ASSUME KInv, LInv', MysqlReads
  PROVE  Caused'
<1> USE DEF KInv, NInv, CInv, SInv
<1> DEFINE m == Head(up)
           answer == m.seq + 1
<1>1. /\ up # <<>> /\ up' = Tail(up) /\ m \in Message /\ m.kind \in Kinds(up)
      /\ m.kind \in {"sslRequest", "token", "clear"}
  BY KindsOfTail DEF MysqlReads, Reads, LInv, Typed
<1>2. Mysql /\ m.seq = next /\ answer \in Nat /\ answer + 1 \in Nat
  BY <1>1 DEF Verified, Numbered, Message
<1>3. CanLogIn => /\ setting.password = "right" /\ upstream.account \in Plugins
  BY <1>2, SettingTypes DEF CanLogIn, Plugins
<1>4. /\ Msg("err", answer) \in Message /\ Msg("ok", answer) \in Message
      /\ Msg("full", answer) \in Message /\ Msg("fast", answer) \in Message
      /\ Msg("ok", answer + 1) \in Message
      /\ Auth("switch", answer, upstream.account, 2) \in Message
      /\ Auth("switch", answer, upstream.account, 2).plugin = upstream.account
      /\ Auth("switch", answer, upstream.account, 2).seed = 2
      /\ Msg("err", answer).kind = "err" /\ Msg("ok", answer).kind = "ok"
      /\ Msg("full", answer).kind = "full" /\ Msg("fast", answer).kind = "fast"
      /\ Msg("ok", answer + 1).kind = "ok"
      /\ Auth("switch", answer, upstream.account, 2).kind = "switch"
  BY <1>2 DEF Msg, Auth, Message, PluginNames, LInv, Typed, Upstream
<1>5. m.kind = "token" => /\ stage # "response" => m.plugin = upstream.account
                          /\ m.seed = IF stage = "token" THEN 2 ELSE 1
  BY <1>1 DEF Caused
<1>6. \/ ~CanLogIn /\ Rejects(answer)
      \/ Reply(<<>>, "response", answer)
      \/ Reply(<<Auth("switch", answer, upstream.account, 2)>>, "token", answer + 1)
      \/ Reply(<<Msg("ok", answer)>>, "accepted", answer + 1)
      \/ Reply(<<Msg("fast", answer), Msg("ok", answer + 1)>>, "accepted", answer + 2)
      \/ /\ Reply(<<Msg("full", answer)>>, "clear", answer + 1)
         /\ upstream.account = "sha2" /\ (CanLogIn => ~upstream.cached)
  <2>1. CASE m.kind = "sslRequest"
    BY <1>2, <2>1 DEF MysqlReads
  <2>2. CASE m.kind = "clear"
    BY <1>2, <1>3, <2>2 DEF MysqlReads
  <2>3. CASE m.kind = "token" /\ m.plugin # upstream.account
    BY <1>2, <1>5, <2>3 DEF MysqlReads
  <2>4. CASE m.kind = "token" /\ m.plugin = upstream.account
    <3> DEFINE matches == /\ m.plugin = upstream.account /\ setting.password = "right"
                          /\ m.seed = IF stage = "token" THEN 2 ELSE 1
    <3>1. CanLogIn => matches
      BY <1>3, <1>5, <2>4
    <3>2. \/ Reply(<<Msg("ok", answer)>>, "accepted", answer + 1)
          \/ Reply(<<Msg("fast", answer), Msg("ok", answer + 1)>>, "accepted", answer + 2)
          \/ /\ Reply(<<Msg("full", answer)>>, "clear", answer + 1)
             /\ m.plugin = "sha2" /\ ~(matches /\ upstream.cached)
          \/ ~matches /\ Rejects(answer)
      BY <1>2, <2>4 DEF MysqlReads
    <3> QED
      BY <2>4, <3>1, <3>2
  <2> QED
    BY <1>1, <2>1, <2>2, <2>3, <2>4
<1> HIDE DEF m, answer
<1>7. ASSUME NEW n \in Message, NEW to, NEW count, Reply(<<n>>, to, count),
             n.kind \in {"err", "ok", "full", "switch"},
             to = "refused" => ~CanLogIn, n.kind = "err" => to = "refused",
             n.kind = "switch" => to = "token" /\ n.seed = 2 /\ n.plugin = upstream.account,
             n.kind = "full" => upstream.account = "sha2" /\ (CanLogIn => ~upstream.cached)
      PROVE  Caused'
  <2> DEFINE messages == <<n>>
  <2>1. messages \in Seq(Message) /\ Kinds(messages) = {n.kind} /\ Head(messages) = n
    BY KindsOfOne
  <2>2. Reply(messages, to, count)
    BY <1>7
  <2> HIDE DEF messages
  <2> QED
    BY <1>1, <1>2, <1>7, <2>1, <2>2, AnswerCaused
<1>8. CASE Reply(<<>>, "response", answer)
  <2>1. Kinds(<<>>) = {} /\ <<>> \in Seq(Message)
    BY KindsOfNone
  <2> QED
    BY <1>1, <1>8, <2>1, AnswerCaused
<1>9. CASE Reply(<<Msg("fast", answer), Msg("ok", answer + 1)>>, "accepted", answer + 2)
  <2> DEFINE messages == <<Msg("fast", answer), Msg("ok", answer + 1)>>
  <2>1. messages \in Seq(Message) /\ Kinds(messages) = {"fast", "ok"}
    BY <1>4, KindsOfTwo
  <2>3. Head(messages) = Msg("fast", answer)
    OBVIOUS
  <2>2. Reply(messages, "accepted", answer + 2)
    BY <1>9
  <2> HIDE DEF messages
  <2> QED
    BY <1>1, <1>4, <2>1, <2>2, <2>3, AnswerCaused
<1> QED
  BY <1>4, <1>6, <1>7, <1>8, <1>9 DEF Rejects

(* A PostgreSQL server asks for what its account needs, and refuses for    *)
(* cause.                                                                  *)
LEMMA PgServerCaused ==
  ASSUME KInv, LInv', PgStarts \/ PgReads
  PROVE  Caused'
<1> USE DEF KInv, NInv, CInv, SInv
<1>1. /\ up # <<>> /\ up' = Tail(up) /\ Head(up).kind \in Kinds(up) /\ ~Mysql
  <2>1. up # <<>> /\ up' = Tail(up) /\ ~Mysql
    BY DEF PgStarts, PgReads, Reads, Numbered
  <2> QED
    BY <2>1, KindsOfTail DEF LInv, Typed
<1>2. ASSUME NEW k \in {"byte", "notice", "serverFirst", "serverFinal", "authOk", "err",
         "md5",
                        "sasl", "unsupported"}
      PROVE  Pg(k) \in Message /\ Pg(k).kind = k
  BY <1>2 DEF Pg, Msg, Message, PluginNames, Credentials
<1>3. PgAsks \in {"authOk", "md5", "sasl", "unsupported"}
      /\ (PgAsks = "sasl" => upstream.account = "scram")
      /\ (PgAsks = "unsupported" => upstream.account = "unsupported")
  BY <1>1, SettingTypes DEF PgAsks
<1>4. ASSUME NEW n \in Message, NEW to, NEW count, Reply(<<n>>, to, count),
             to = "refused" => ~CanLogIn, n.kind = "err" => to = "refused",
             n.kind \notin {"switch", "full"},
             n.kind = "sasl" => upstream.account = "scram",
             n.kind = "unsupported" => upstream.account = "unsupported"
      PROVE  Caused'
  <2> DEFINE messages == <<n>>
  <2>1. messages \in Seq(Message) /\ Kinds(messages) = {n.kind} /\ Head(messages) = n
    BY KindsOfOne
  <2>2. Reply(messages, to, count)
    BY <1>4
  <2> HIDE DEF messages
  <2> QED
    BY <1>1, <1>4, <2>1, <2>2, AnswerCaused
<1>5. ASSUME NEW n \in Message, NEW o \in Message, NEW to, NEW count, Reply(<<n, o>>, to,
             count),
             to # "refused", n.kind \in {"notice", "serverFinal"},
             o.kind \notin {"switch", "full", "err"},
             o.kind = "sasl" => upstream.account = "scram",
             o.kind = "unsupported" => upstream.account = "unsupported"
      PROVE  Caused'
  <2> DEFINE messages == <<n, o>>
  <2>1. messages \in Seq(Message) /\ Kinds(messages) = {n.kind, o.kind}
    BY KindsOfTwo
  <2>3. Head(messages) = n
    OBVIOUS
  <2>2. Reply(messages, to, count)
    BY <1>5
  <2> HIDE DEF messages
  <2> QED
    BY <1>1, <1>5, <2>1, <2>2, <2>3, AnswerCaused
<1>6. CASE PgStarts
  <2>1. Pg(PgAsks) \in Message /\ Pg(PgAsks).kind = PgAsks
    BY <1>2, <1>3
  <2> DEFINE ask == Pg(PgAsks)
             to == IF PgAsks = "authOk" THEN "accepted" ELSE "proof"
  <2>2. \/ Reply(<<ask>>, to, 0) \/ Reply(<<Pg("notice"), ask>>, to, 0)
        \/ Reply(<<Pg("byte")>>, "new", 0)
    BY <1>6 DEF PgStarts
  <2>3. to # "refused" /\ ask \in Message /\ ask.kind = PgAsks
    BY <2>1
  <2> HIDE DEF ask, to
  <2> QED
    BY <1>2, <1>3, <1>4, <1>5, <2>2, <2>3
<1>7. CASE PgReads
  <2>1. \/ Reply(<<Pg("serverFirst")>>, "proof", 0)
        \/ Reply(<<Pg("authOk")>>, "accepted", 0)
        \/ Reply(<<Pg("serverFinal"), Pg("authOk")>>, "accepted", 0)
        \/ /\ Head(up).kind \in {"md5", "clientFinal"} /\ setting.password # "right"
           /\ Reply(<<Pg("err")>>, "refused", 0)
    BY <1>7 DEF PgReads, Reads
  <2>2. Head(up).kind \in {"md5", "clientFinal"} => upstream.account # "trust"
    BY <1>1 DEF Verified, Caused
  <2>3. setting.password # "right" /\ upstream.account # "trust" => ~CanLogIn
    BY DEF CanLogIn
  <2> QED
    BY <1>2, <1>4, <1>5, <2>1, <2>2, <2>3
<1> QED
  BY <1>6, <1>7

(* Leaving is a cause, and speaking needs none.                            *)
LEMMA EndCaused ==
  ASSUME KInv, LInv',
         MysqlGreets \/ ClientSpeaks \/ ClientLeaves \/ ServerLeaves \/ UNCHANGED vars
  PROVE  Caused'
<1> USE DEF KInv, NInv, CInv, SInv
<1>1. CASE MysqlGreets
  <2> DEFINE m == Auth("greeting", 0, upstream.announced, 1)
  <2>1. /\ m \in Message /\ m.kind = "greeting"
    BY DEF Auth, Message, PluginNames, LInv, Typed, Upstream
  <2>2. /\ pc = "greeting" /\ stage = "new" /\ up' = up /\ down' = down \o <<m>>
        /\ stage' = "response" /\ UNCHANGED <<config, pc, gone>>
    BY <1>1 DEF MysqlGreets, Reply
  <2> HIDE DEF m
  <2>3. down = <<>> /\ up = <<>>
    BY <2>2 DEF Turns, Early
  <2>4. down' = <<m>> /\ Head(<<m>>) = m /\ Kinds(<<m>>) = {"greeting"}
    BY <2>1, <2>2, <2>3, KindsOfOne
  <2>5. (upstream.account \in Accounts)'
    BY <2>2, CauseStays DEF Caused
  <2>6. FailsForCause'
    BY <2>2 DEF FailsForCause
  <2> QED
    BY <2>1, <2>2, <2>3, <2>4, <2>5, <2>6, KindsOfNone DEF Caused
<1>2. CASE ClientSpeaks \/ ClientLeaves \/ UNCHANGED vars
  <2>1. UNCHANGED <<config, pc, stage, up, down>> /\ gone \subseteq gone'
    BY <1>2 DEF ClientSpeaks, Send, ClientLeaves, vars, server
  <2> QED
    BY <2>1, MoveCaused DEF Caused
<1>3. CASE ServerLeaves
  <2>1. UNCHANGED <<config, pc, stage, down>> /\ gone \subseteq gone' /\ up' = <<>>
    BY <1>3 DEF ServerLeaves, server
  <2> QED
    BY <2>1, MoveCaused, KindsOfNone DEF Caused
<1> QED
  BY <1>1, <1>2, <1>3

(* Every refusal, switch and request on its way has a cause in the         *)
(* settings, and every login that failed had one.                          *)
THEOREM CauseInvariant == Spec => []KInv
<1>1. Init /\ NInv => KInv
  BY KindsOfNone DEF Init, KInv, Caused, FailsForCause
<1>2. KInv /\ [Next]_vars /\ NInv' => KInv'
  <2> SUFFICES ASSUME KInv, [Next]_vars, NInv'
               PROVE  Caused'
    BY DEF KInv
  <2>1. LInv'
    BY DEF NInv, CInv, SInv
  <2> QED
    BY <2>1, ConnectCaused, MysqlCaused, PgCaused, MysqlReadsCaused, PgServerCaused, EndCaused
    DEF Next, Proxy, Server
<1> QED
  BY <1>1, <1>2, NumberInvariant, PTL DEF Spec

(* A login ends without a session only when the settings or the server     *)
(* forbid one, or when somebody left: no order of the messages, no switch  *)
(* of plugin and no retry makes either driver give up a login that the     *)
(* server would have accepted.                                             *)
THEOREM LoginsFailForCause == Spec => []FailsForCause
BY CauseInvariant, PTL DEF KInv, Caused

-----------------------------------------------------------------------------
(* The bounds of a login. Of the numbers: two exchanges before the first   *)
(* answer of the server at most, then a switch, then full authentication.  *)
Limit == CASE ~Mysql \/ stage = "new" -> 0
           [] stage = "response"      -> 2
           [] stage = "token"         -> 4
           [] stage = "clear"         -> 6
           [] OTHER                   -> 8

Sized ==
  /\ stage \in {"new", "response", "token", "clear", "proof", "accepted", "refused"}
  /\ wire \in {"none", "plain", "tls"} /\ plugin \in Plugins
  /\ gone \subseteq {"client", "server"}
  /\ next <= Limit /\ Len(down) <= 2 /\ Len(inbox) <= 1
  /\ up # <<>> /\ Head(up).kind = "clear" => stage = "clear"
  /\ "full" \in Kinds(down) => stage = "clear"
  /\ "greeting" \in Kinds(down) => Mysql /\ stage = "response" /\ Head(down).plugin \in Plugins

ZInv == KInv /\ Sized

LEMMA LimitStays == ASSUME UNCHANGED <<config, stage>> PROVE Limit' = Limit
BY DEF Limit, Mysql, config

(* What the proxy takes from each end: at most the first message, and what *)
(* it reads of the server is never followed by another unless it may be    *)
(* passed.                                                                 *)
LEMMA ProxyReads ==
  ASSUME KInv, LInv', Proxy
  PROVE  /\ inbox' = inbox \/ inbox' = <<>>
         /\ down' = down \/ down' = <<>> \/
              (/\ down # <<>> /\ down' = Tail(down)
               /\ Head(down).kind \notin Passing \/ stage = "accepted" \/ ~Mysql)
<1> USE DEF KInv, NInv, CInv, SInv
<1>1. CASE Load \/ ConnectPlain \/ ConnectTls \/ EndOfFile
  BY <1>1 DEF Load, ConnectPlain, ConnectTls, ConnectedAs, EndOfFile, FailSilently, Fail
<1>2. CASE MysqlProxy
  <2>1. CASE FastPath
    <3>1. down # <<>> /\ Head(down).kind = "fast" /\ Head(down).kind \in Kinds(down) /\ Mysql
      BY <2>1, HeadAndTail DEF FastPath, Heard, LInv, Typed, MysqlLogin
    <3> QED
      BY <2>1, <3>1 DEF FastPath, Numbered
  <2>2. CASE ~FastPath
    BY <1>2, <2>2
    DEF MysqlProxy, TakeGreeting, TakeResponse, StartTls, Verdict, SwitchPlugin, FullPath,
        Refused, Ask, Succeed, Fail, FailSilently, FailTelling, Heard, Passing
  <2> QED
    BY <2>1, <2>2
<1>3. CASE PgProxy
  <2>1. ~Mysql
    BY <1>3 DEF LInv, Typed, PgLogin, PgProxy, TakeOpening, AuthOk, AuthMd5, AuthSasl,
                AuthUnknown, AuthError, AuthOther, ScramFirst, ScramFinal
  <2> QED
    BY <1>3, <2>1
    DEF PgProxy, TakeOpening, PassOpening, AuthOk, AuthMd5, AuthSasl, AuthUnknown, AuthError,
        AuthOther, ScramFirst, ScramFinal, Ask, Succeed, Fail, FailSilently, FailTelling, Heard
<1> QED
  BY <1>1, <1>2, <1>3 DEF Proxy

(* The clear password goes out only to a server that asked for it.         *)
LEMMA ProxySends ==
  ASSUME ZInv, Proxy, up' # <<>>, Head(up').kind = "clear"
  PROVE  stage = "clear"
<1> USE DEF ZInv, KInv, NInv, CInv, SInv
<1>1. CASE up' = up \/ up' = <<>>
  BY <1>1 DEF Sized
<1>2. ASSUME NEW m, up = <<>>, up' = Append(up, m) \/ up' = <<m>>, m.kind # "clear"
      PROVE  FALSE
  <2>1. Head(up') = m
    BY <1>2
  <2> QED
    BY <1>2, <2>1
<1>3. ASSUME NEW k, NEW p, NEW n, NEW d
      PROVE  Msg(k, n).kind = k /\ Token(p, n, d).kind = "token" /\ Pg(k).kind = k
  BY DEF Msg, Token, Auth, Pg
<1>4. down # <<>> => Head(down).kind \in Kinds(down) /\ up = <<>>
  BY HeadAndTail DEF Turns
<1>5. pc \in {"response", "startup", "restart"} => up = <<>>
  BY DEF Turns, Early
<1>6. CASE TakeResponse
  BY <1>1, <1>2, <1>3, <1>5, <1>6 DEF TakeResponse, FailSilently, Fail
<1>7. CASE StartTls
  BY <1>1, <1>2, <1>3, <1>7 DEF StartTls, FailSilently, Fail
<1>8. CASE SwitchPlugin
  <2> DEFINE m == Token(Head(down).plugin, Head(down).seq + 1, Head(down).seed)
  <2>1. m.kind # "clear"
    BY <1>3
  <2>2. up' = <<>> \/ (down # <<>> /\ up' = Append(up, m))
    BY <1>8 DEF SwitchPlugin, FailTelling, Fail, Ask, Heard
  <2> HIDE DEF m
  <2> QED
    BY <1>1, <1>2, <1>4, <2>1, <2>2
<1>9. CASE FullPath
  <2>1. down # <<>> /\ Head(down).kind = "full"
    BY <1>9 DEF FullPath, Heard
  <2>2. "full" \in Kinds(down)
    BY <1>4, <2>1
  <2> QED
    BY <2>2 DEF Sized
<1>10. CASE AuthMd5 \/ AuthSasl \/ ScramFirst
  <2>1. /\ Pg("md5").kind # "clear" /\ Pg("clientFirst").kind # "clear"
        /\ Pg("clientFinal").kind # "clear"
    BY <1>3
  <2>2. up' = <<>> \/ (down # <<>>
                        /\ \E m \in {Pg("md5"), Pg("clientFirst"), Pg("clientFinal")} :
                             up' = Append(up, m))
    BY <1>10 DEF AuthMd5, AuthSasl, ScramFirst, FailSilently, Fail, Ask, Heard
  <2> QED
    BY <1>1, <1>2, <1>4, <2>1, <2>2
<1>11. CASE TakeOpening
  <2>1. CASE up' = Append(up, Head(inbox)) /\ inbox # <<>> /\ pc \in {"startup", "restart"}
    <3>1. Head(inbox).kind # "clear"
      BY <2>1, KindsOfTail DEF LInv, Typed
    <3> QED
      BY <1>2, <1>5, <2>1, <3>1
  <2> QED
    BY <1>1, <1>11, <2>1 DEF TakeOpening, PassOpening
<1> QED
  BY <1>1, <1>6, <1>7, <1>8, <1>9, <1>10, <1>11
  DEF Proxy, Load, ConnectPlain, ConnectTls, ConnectedAs, EndOfFile, MysqlProxy, PgProxy,
      TakeGreeting, Verdict, FastPath, Refused, AuthOk, AuthUnknown, AuthError, AuthOther,
      ScramFinal, Succeed, FailSilently, FailTelling, Fail

(* No step of the proxy leaves more in flight than the bounds.             *)
LEMMA ProxySized ==
  ASSUME ZInv, LInv', Proxy
  PROVE  Sized'
<1> USE DEF ZInv, KInv, NInv, CInv, SInv
<1>1. UNCHANGED <<config, stage, next, gone>>
  <2>1. next' = next
    BY DEF Proxy, Load, ConnectPlain, ConnectTls, ConnectedAs, EndOfFile, MysqlProxy, PgProxy,
      TakeGreeting, TakeResponse, StartTls, Verdict, SwitchPlugin, FastPath, FullPath,
      Refused,
      TakeOpening, PassOpening, AuthOk, AuthMd5, AuthSasl, AuthUnknown, AuthError, AuthOther,
      ScramFirst, ScramFinal, Ask, Succeed, FailSilently, FailTelling, Fail, server
  <2> QED
    BY <2>1, ProxyMoves
<1>2. Limit' = Limit /\ Mysql' = Mysql
  BY <1>1, LimitStays DEF config, Mysql
<1>3. wire' \in {"none", "plain", "tls"}
  BY DEF Sized, Proxy, Load, ConnectPlain, ConnectTls, ConnectedAs, EndOfFile, MysqlProxy,
      PgProxy, TakeGreeting, TakeResponse, StartTls, Verdict, SwitchPlugin, FastPath,
      FullPath,
      Refused, TakeOpening, PassOpening, AuthOk, AuthMd5, AuthSasl, AuthUnknown, AuthError,
      AuthOther, ScramFirst, ScramFinal, Ask, Succeed, FailSilently, FailTelling, Fail
<1>4. plugin' \in Plugins
  <2>1. CASE TakeGreeting
    BY <2>1, HeadAndTail DEF TakeGreeting, Heard, Sized
  <2>2. CASE SwitchPlugin
    BY <2>2 DEF SwitchPlugin, FailTelling, Fail, Sized
  <2> QED
    BY <2>1, <2>2
    DEF Sized, Proxy, Load, ConnectPlain, ConnectTls, ConnectedAs, EndOfFile, MysqlProxy,
      PgProxy, TakeResponse, StartTls, Verdict, FastPath, FullPath,
      Refused, TakeOpening, PassOpening, AuthOk, AuthMd5, AuthSasl, AuthUnknown, AuthError,
      AuthOther, ScramFirst, ScramFinal, Ask, Succeed, FailSilently, FailTelling, Fail
<1>5. Len(inbox') <= 1
  BY ProxyReads DEF Sized
<1>6. /\ Len(down') <= 2 /\ Kinds(down') \subseteq Kinds(down)
      /\ "greeting" \in Kinds(down') => Head(down').plugin \in Plugins
  <2>1. CASE down' = down
    BY <2>1 DEF Sized
  <2>2. CASE down' = <<>>
    BY <2>2, KindsOfNone
  <2>3. CASE /\ down # <<>> /\ down' = Tail(down)
             /\ Head(down).kind \notin Passing \/ stage = "accepted" \/ ~Mysql
    <3>1. Len(down') <= 2
      <4>1. down \in Seq(Message)
        BY DEF LInv, Typed
      <4>2. Len(Tail(down)) = Len(down) - 1 /\ Len(down) \in Nat
        BY <2>3, <4>1
      <4> QED
        BY <2>3, <4>2 DEF Sized
    <3>2. Kinds(down') \subseteq Kinds(down) /\ (Head(down).kind \notin Passing => down' = <<>>)
      BY <2>3, HeadAndTail
    <3>3. "greeting" \notin Kinds(down')
      BY <2>3, <3>2, KindsOfNone DEF Sized
    <3> QED
      BY <3>1, <3>2, <3>3
  <2> QED
    BY <2>1, <2>2, <2>3, ProxyReads
<1>7. up' # <<>> /\ Head(up').kind = "clear" => stage = "clear"
  BY ProxySends
<1> QED
  BY <1>1, <1>2, <1>3, <1>4, <1>5, <1>6, <1>7 DEF Sized

(* An answer of the server under the numbers its stage allows.             *)
LEMMA AnswerSized ==
  ASSUME ZInv, LInv', NEW messages \in Seq(Message), NEW to, NEW count \in Nat,
         Reply(messages, to, count), UNCHANGED <<wire, plugin, gone>>, up' = <<>>,
         Len(messages) <= 2, down = <<>>,
         to \in {"new", "response", "token", "clear", "proof", "accepted", "refused"},
         count <= CASE ~Mysql \/ to = "new" -> 0
                    [] to = "response" -> 2
                    [] to = "token" -> 4
                    [] to = "clear" -> 6
                    [] OTHER -> 8,
         "full" \in Kinds(messages) => to = "clear",
         "greeting" \in Kinds(messages) =>
           Mysql /\ to = "response" /\ Head(messages).plugin \in Plugins
  PROVE  Sized'
<1>1. down' = messages /\ stage' = to /\ next' = count /\ UNCHANGED <<config, inbox>>
  <2>1. <<>> \o messages = messages
    OBVIOUS
  <2> QED
    BY <2>1 DEF Reply
<1>2. Mysql' = Mysql
  BY <1>1 DEF Mysql, config
<1>3. next' <= Limit'
  BY <1>1, <1>2 DEF Limit
<1> QED
  BY <1>1, <1>2, <1>3 DEF ZInv, Sized

(* A MySQL server: one switch, one full authentication, in that order.     *)
LEMMA MysqlServerSized ==
  ASSUME ZInv, LInv', MysqlGreets \/ MysqlReads
  PROVE  Sized'
<1> USE DEF ZInv, KInv, NInv, CInv, SInv
<1>1. CASE MysqlGreets
  <2> DEFINE m == Auth("greeting", 0, upstream.announced, 1)
             messages == <<m>>
  <2>1. m \in Message /\ m.plugin \in Plugins
    BY DEF Auth, Message, PluginNames, LInv, Typed, Upstream
  <2>2. pc = "greeting" /\ stage = "new" /\ UNCHANGED up /\ Reply(messages, "response", 1)
    BY <1>1 DEF MysqlGreets
  <2>3. UNCHANGED <<wire, plugin, gone>>
    BY <1>1 DEF MysqlGreets, Reply
  <2> HIDE DEF m
  <2>4. messages \in Seq(Message) /\ Kinds(messages) = {m.kind}
    BY <2>1, KindsOfOne
  <2>5. Len(messages) <= 2 /\ Head(messages) = m
    OBVIOUS
  <2>6. down = <<>> /\ up = <<>> /\ Mysql /\ m.kind = "greeting"
    BY <2>2 DEF Turns, Early, LInv, Typed, MysqlLogin, m, Auth
  <2> HIDE DEF messages
  <2> QED
    BY <2>1, <2>2, <2>3, <2>4, <2>5, <2>6, AnswerSized
<1>2. CASE MysqlReads
  <2> DEFINE m == Head(up)
             answer == m.seq + 1
  <2>1. /\ up # <<>> /\ up' = Tail(up) /\ m \in Message /\ m.kind \in Kinds(up)
        /\ m.kind \in {"sslRequest", "token", "clear"}
    BY <1>2, KindsOfTail DEF MysqlReads, Reads, LInv, Typed
  <2>2. /\ up' = <<>> /\ down = <<>>
    BY <2>1, TailOfOne DEF LInv, Typed, Turns
  <2>3. UNCHANGED <<wire, plugin, gone>>
    BY <1>2 DEF MysqlReads, Reply, Rejects
  <2>4. Mysql /\ m.seq = next /\ answer = next + 1 /\ next \in Nat
    BY <2>1 DEF Verified, Numbered, LInv, Typed
  <2>5. /\ m.kind = "sslRequest" => next = 1
        /\ m.kind = "token" => stage \in {"response", "token"}
        /\ m.kind = "clear" => stage = "clear"
    BY <2>1, <2>4 DEF Numbered, Caused, Sized
  <2>6. /\ stage = "response" => next <= 2
        /\ stage = "token" => next <= 4
        /\ stage = "clear" => next <= 6
    BY <2>4 DEF Sized, Limit
  <2>7. /\ Msg("err", answer) \in Message /\ Msg("ok", answer) \in Message
        /\ Msg("full", answer) \in Message /\ Msg("fast", answer) \in Message
        /\ Msg("ok", answer + 1) \in Message
        /\ Auth("switch", answer, upstream.account, 2) \in Message
        /\ Msg("err", answer).kind = "err" /\ Msg("ok", answer).kind = "ok"
        /\ Msg("full", answer).kind = "full" /\ Msg("fast", answer).kind = "fast"
        /\ Msg("ok", answer + 1).kind = "ok"
        /\ Auth("switch", answer, upstream.account, 2).kind = "switch"
    <3>1. answer \in Nat /\ answer + 1 \in Nat
      BY <2>4
    <3> HIDE DEF answer
    <3> QED
      BY <3>1, AuthIsMessage, MsgIsMessage DEF LInv, Typed
  <2>8. \/ m.kind = "sslRequest" /\ Reply(<<>>, "response", answer)
        \/ m.kind # "sslRequest" /\ Rejects(answer)
        \/ /\ stage = "response"
           /\ Reply(<<Auth("switch", answer, upstream.account, 2)>>, "token", answer + 1)
        \/ m.kind # "sslRequest" /\ Reply(<<Msg("ok", answer)>>, "accepted", answer + 1)
        \/ /\ m.kind = "token"
           /\ Reply(<<Msg("fast", answer), Msg("ok", answer + 1)>>, "accepted", answer + 2)
        \/ m.kind = "token" /\ Reply(<<Msg("full", answer)>>, "clear", answer + 1)
    BY <1>2, <2>1, <2>4 DEF MysqlReads
  <2>9. m.kind # "sslRequest" => next <= 6
    BY <2>1, <2>5, <2>6, <2>4
  <2>10. m.kind = "token" => next <= 4
    BY <2>1, <2>5, <2>6, <2>4
  <2> HIDE DEF m, answer
  <2>11. ASSUME NEW n \in Message, NEW to, Reply(<<n>>, to, answer + 1),
                n.kind # "greeting", n.kind = "full" => to = "clear",
                \/ to = "token" /\ next <= 2
                \/ to = "clear" /\ next <= 4
                \/ to \in {"accepted", "refused"} /\ next <= 6
         PROVE  Sized'
    <3> DEFINE messages == <<n>>
    <3>1. messages \in Seq(Message) /\ Kinds(messages) = {n.kind} /\ Len(messages) <= 2
      BY KindsOfOne
    <3>2. Reply(messages, to, answer + 1) /\ answer + 1 = next + 2 /\ answer + 1 \in Nat
      BY <2>4, <2>11
    <3> HIDE DEF messages
    <3> QED
      BY <2>2, <2>3, <2>4, <2>11, <3>1, <3>2, AnswerSized
  <2>12. CASE m.kind = "sslRequest" /\ Reply(<<>>, "response", answer)
    <3> DEFINE messages == <<>>
    <3>1. Kinds(messages) = {} /\ messages \in Seq(Message) /\ Len(messages) <= 2
      BY KindsOfNone
    <3>2. answer = 2
      BY <2>4, <2>5, <2>12
    <3>3. Reply(messages, "response", 2)
      BY <2>12, <3>2
    <3> HIDE DEF messages
    <3> QED
      BY <2>2, <2>3, <2>4, <3>1, <3>3, AnswerSized
  <2>13. CASE /\ m.kind = "token"
              /\ Reply(<<Msg("fast", answer), Msg("ok", answer + 1)>>, "accepted", answer + 2)
    <3> DEFINE messages == <<Msg("fast", answer), Msg("ok", answer + 1)>>
    <3>1. messages \in Seq(Message) /\ Kinds(messages) = {"fast", "ok"}
      BY <2>7, KindsOfTwo
    <3>2. Reply(messages, "accepted", answer + 2) /\ answer + 2 \in Nat /\ answer + 2 <= 8
      BY <2>4, <2>10, <2>13
    <3>3. Len(messages) <= 2
      OBVIOUS
    <3> HIDE DEF messages
    <3> QED
      BY <2>2, <2>3, <2>4, <3>1, <3>2, <3>3, AnswerSized
  <2>14. CASE /\ stage = "response"
              /\ Reply(<<Auth("switch", answer, upstream.account, 2)>>, "token", answer + 1)
    <3> DEFINE n == Auth("switch", answer, upstream.account, 2)
    <3>1. next <= 2 /\ n \in Message /\ n.kind = "switch"
      BY <2>6, <2>7, <2>14
    <3>2. Reply(<<n>>, "token", answer + 1)
      BY <2>14
    <3> HIDE DEF n
    <3> DEFINE messages == <<n>>
    <3>3. messages \in Seq(Message) /\ Kinds(messages) = {"switch"} /\ Len(messages) <= 2
      BY <3>1, KindsOfOne
    <3>4. /\ Reply(messages, "token", answer + 1) /\ answer + 1 = next + 2
          /\ answer + 1 \in Nat /\ answer + 1 <= 4
      BY <2>4, <3>1, <3>2
    <3> HIDE DEF messages
    <3> QED
      BY <2>2, <2>3, <2>4, <3>3, <3>4, AnswerSized
  <2>15. CASE m.kind = "token" /\ Reply(<<Msg("full", answer)>>, "clear", answer + 1)
    BY <2>7, <2>10, <2>11, <2>15
  <2>16. CASE m.kind # "sslRequest" /\ Rejects(answer)
    BY <2>7, <2>9, <2>11, <2>16 DEF Rejects
  <2>17. CASE m.kind # "sslRequest" /\ Reply(<<Msg("ok", answer)>>, "accepted", answer + 1)
    BY <2>7, <2>9, <2>11, <2>17
  <2> QED
    BY <2>8, <2>12, <2>13, <2>14, <2>15, <2>16, <2>17
<1> QED
  BY <1>1, <1>2

(* A PostgreSQL server numbers nothing and says two things at most.        *)
LEMMA PgServerSized ==
  ASSUME ZInv, LInv', PgStarts \/ PgReads
  PROVE  Sized'
<1> USE DEF ZInv, KInv, NInv, CInv, SInv
<1>1. /\ up' = <<>> /\ down = <<>> /\ ~Mysql /\ UNCHANGED <<wire, plugin, gone>>
  <2>1. up # <<>> /\ up' = Tail(up) /\ ~Mysql
    BY DEF PgStarts, PgReads, Reads, Numbered
  <2>2. UNCHANGED <<wire, plugin, gone>>
    BY DEF PgStarts, PgReads, Reply
  <2> QED
    BY <2>1, <2>2, TailOfOne DEF LInv, Typed, Turns
<1>2. ASSUME NEW k \in {"byte", "notice", "serverFirst", "serverFinal", "authOk", "err",
         "md5",
                        "sasl", "unsupported"}
      PROVE  Pg(k) \in Message /\ Pg(k).kind = k
  BY <1>2 DEF Pg, Msg, Message, PluginNames, Credentials
<1>3. PgAsks \in {"authOk", "md5", "sasl", "unsupported"}
  BY DEF PgAsks
<1>4. ASSUME NEW n \in Message, NEW o \in Message,
             n.kind \notin {"full", "greeting"}, o.kind \notin {"full", "greeting"},
             NEW to \in {"new", "proof", "accepted", "refused"},
             NEW messages \in {<<n>>, <<n, o>>}, Reply(messages, to, 0)
      PROVE  Sized'
  <2>1. messages \in Seq(Message) /\ Kinds(messages) \subseteq {n.kind, o.kind}
    BY <1>4, KindsOfTwo
  <2>2. Len(<<n>>) <= 2 /\ Len(<<n, o>>) <= 2
    OBVIOUS
  <2>3. Len(messages) <= 2
    BY <1>4, <2>2
  <2> QED
    BY <1>1, <1>4, <2>1, <2>3, AnswerSized
<1>5. CASE PgStarts
  <2> DEFINE ask == Pg(PgAsks)
             to == IF PgAsks = "authOk" THEN "accepted" ELSE "proof"
  <2>1. ask \in Message /\ ask.kind = PgAsks
    BY <1>2, <1>3
  <2>2. \/ Reply(<<ask>>, to, 0) \/ Reply(<<Pg("notice"), ask>>, to, 0)
        \/ Reply(<<Pg("byte")>>, "new", 0)
    BY <1>5 DEF PgStarts
  <2>3. to \in {"new", "proof", "accepted", "refused"}
    OBVIOUS
  <2> HIDE DEF ask, to
  <2> QED
    BY <1>2, <1>3, <1>4, <2>1, <2>2, <2>3
<1>6. CASE PgReads
  <2>1. \/ Reply(<<Pg("serverFirst")>>, "proof", 0)
        \/ Reply(<<Pg("authOk")>>, "accepted", 0)
        \/ Reply(<<Pg("serverFinal"), Pg("authOk")>>, "accepted", 0)
        \/ Reply(<<Pg("err")>>, "refused", 0)
    BY <1>6 DEF PgReads, Reads
  <2> QED
    BY <1>2, <1>4, <2>1
<1> QED
  BY <1>5, <1>6

(* The client says one thing at a time.                                    *)
LEMMA EndSized ==
  ASSUME ZInv, LInv', ClientSpeaks \/ ClientLeaves \/ ServerLeaves \/ UNCHANGED vars
  PROVE  Sized'
<1> USE DEF ZInv
<1>1. CASE ClientSpeaks
  <2>1. \E m : inbox' = <<m>>
    BY <1>1 DEF ClientSpeaks, Send
  <2>2. UNCHANGED <<config, pc, wire, plugin, stage, next, up, down, gone>>
    BY <1>1 DEF ClientSpeaks, Send, server
  <2>3. Len(inbox') <= 1
    BY <2>1
  <2> QED
    BY <2>2, <2>3, LimitStays DEF Sized, Mysql, config
<1>2. CASE ClientLeaves \/ ServerLeaves \/ UNCHANGED vars
  <2>1. /\ UNCHANGED <<config, pc, wire, plugin, stage, next, down, inbox>>
        /\ up' = up \/ up' = <<>>
        /\ gone' \subseteq gone \cup {"client", "server"}
    BY <1>2 DEF ClientLeaves, ServerLeaves, vars, server
  <2> QED
    BY <2>1, LimitStays DEF Sized, Mysql, config
<1> QED
  BY <1>1, <1>2

(* What the client of a PostgreSQL login is told: the N that declines TLS, *)
(* one notice, the outcome.                                                *)
Opening == {"startup", "ssl", "gss"}

Said ==
  /\ ~Mysql =>
       /\ pc \in {"load", "off", "connect", "startup"} => told = <<>>
       /\ pc = "restart" => Len(told) <= 1
       /\ up # <<>> /\ Head(up).kind \in Opening => Len(told) <= 1
       /\ "notice" \in Kinds(down) => Len(told) <= 1
       /\ pc \notin {"session", "closed"} => Len(told) <= 2
  /\ \A k \in 1 .. Len(down) : k > 1 => down[k].kind # "notice"
  /\ Len(told) <= 3

TInv == ZInv /\ Said

LEMMA LenOfAppend ==
  ASSUME NEW s \in Seq(Message), NEW m
  PROVE  Len(Append(s, m)) = Len(s) + 1 /\ Len(s) \in Nat
OBVIOUS

(* Nothing but the first of an answer is a notice.                         *)
LEMMA NoLaterNotice ==
  ASSUME TInv, LInv', Proxy
  PROVE  /\ \A k \in 1 .. Len(down') : k > 1 => down'[k].kind # "notice"
         /\ "notice" \in Kinds(down') => down' = down
<1> USE DEF TInv, ZInv, KInv, NInv, CInv, SInv
<1>1. CASE down' = down
  BY <1>1 DEF Said
<1>2. CASE down' = <<>>
  BY <1>2 DEF Kinds
<1>3. CASE down # <<>> /\ down' = Tail(down)
  <2>1. down \in Seq(Message)
    BY DEF LInv, Typed
  <2>2. Len(Tail(down)) = Len(down) - 1 /\ Len(down) \in Nat
        /\ \A k \in 1 .. Len(down) - 1 : Tail(down)[k] = down[k + 1]
    BY <1>3, <2>1
  <2>3. \A k \in 1 .. Len(down') : down'[k].kind # "notice"
    BY <1>3, <2>2 DEF Said
  <2> QED
    BY <2>3 DEF Kinds
<1> QED
  BY <1>1, <1>2, <1>3, ProxyReads

(* What each step of the proxy adds to what the client was told.           *)
LEMMA ProxySaid ==
  ASSUME TInv, LInv', Proxy
  PROVE  Said'
<1> USE DEF TInv, ZInv, KInv, NInv, CInv, SInv
<1>1. /\ \A k \in 1 .. Len(down') : k > 1 => down'[k].kind # "notice"
      /\ "notice" \in Kinds(down') => down' = down
  BY NoLaterNotice
<1>2. Mysql' = Mysql
  BY ProxyMoves DEF Mysql, config
<1>3. told \in Seq(Message) /\ Len(told) \in Nat
  BY DEF LInv, Typed
<1>4. CASE Mysql
  <2>1. \/ told' = told
        \/ /\ pc \in {"greeting", "response", "tls", "verdict"}
           /\ \E m : told' = Append(told, m)
    BY <1>4
    DEF Proxy, Load, ConnectPlain, ConnectTls, ConnectedAs, EndOfFile, MysqlProxy, PgProxy,
      TakeGreeting, TakeResponse, StartTls, Verdict, SwitchPlugin, FastPath, FullPath,
      Refused,
      TakeOpening, AuthOk, AuthMd5, AuthSasl, AuthUnknown, AuthError, AuthOther,
      ScramFirst, ScramFinal, Ask, Succeed, FailSilently, FailTelling, Fail, LInv, Typed,
      PgLogin
  <2>2. pc \in {"greeting", "response", "tls", "verdict"} => Len(told) <= 1
    BY <1>4 DEF Numbered
  <2>3. Len(told') <= 3
    BY <1>3, <2>1, <2>2, LenOfAppend DEF Said
  <2> QED
    BY <1>1, <1>2, <1>4, <2>3 DEF Said
<1>5. CASE ~Mysql
  <2>1. pc \notin MysqlLogin
    BY <1>5 DEF LInv, Typed
  <2>2. CASE Fail /\ told' = told
    BY <1>1, <1>2, <2>2 DEF Said, Fail
  <2>3. CASE Load \/ ConnectPlain \/ ConnectTls \/ EndOfFile
    <3>1. CASE ~Fail
      BY <1>1, <1>2, <1>5, <2>3, <3>1
      DEF Said, Load, ConnectPlain, ConnectTls, ConnectedAs, EndOfFile, FailSilently
    <3> QED
      BY <2>2, <2>3, <3>1
      DEF Load, ConnectPlain, ConnectTls, ConnectedAs, EndOfFile, FailSilently, Fail
  <2>4. CASE TakeOpening
    <3>1. CASE pc' = "restart" /\ told' = Append(told, Pg("N")) /\ UNCHANGED <<up, down>>
               /\ pc = "startup"
      <4>1. Len(told) = 0 /\ Len(told') = 1 /\ up = <<>>
        BY <1>3, <1>5, <3>1, LenOfAppend DEF Said, Turns, Early
      <4> QED
        BY <1>1, <1>2, <3>1, <4>1 DEF Said
    <3>2. CASE pc \in {"startup", "restart"} /\ pc' = "auth" /\ UNCHANGED <<told, down>>
      BY <1>1, <1>2, <1>5, <3>2 DEF Said
    <3> QED
      BY <2>4, <3>1, <3>2 DEF TakeOpening, PassOpening
  <2>5. down # <<>> => /\ up = <<>> /\ Head(down).kind \in Kinds(down)
                       /\ Head(down).kind \notin Passing => Tail(down) = <<>>
    BY HeadAndTail DEF Turns
  <2>6. ASSUME NEW m, told' = Append(told, m), pc = "auth", up' = <<>>, down' = <<>>,
               pc' \in {"session", "closed"}
        PROVE  Said'
    <3>1. Len(told') <= 3
      BY <1>3, <1>5, <2>6, LenOfAppend DEF Said
    <3> QED
      BY <1>1, <1>2, <2>6, <3>1, KindsOfNone DEF Said
  <2>7. CASE AuthOk
    <3>1. pc = "auth" /\ down # <<>> /\ Head(down).kind = "authOk" /\ Succeed(Pg("authOk"))
      BY <2>7 DEF AuthOk, Heard
    <3>2. CASE FailSilently
      BY <2>2, <3>2 DEF FailSilently
    <3>3. CASE ~FailSilently
      BY <2>5, <2>6, <3>1, <3>3 DEF Succeed, Passing
    <3> QED
      BY <3>2, <3>3
  <2>8. CASE AuthError
    BY <2>6, <2>8 DEF AuthError, FailTelling, Fail
  <2>9. CASE AuthOther
    <3>1. /\ pc = "auth" /\ pc' = pc /\ down # <<>> /\ Head(down).kind = "notice"
          /\ down' = Tail(down) /\ told' = Append(told, Head(down)) /\ up' = up
      BY <2>9 DEF AuthOther, Heard
    <3>2. Len(told') <= 2 /\ up' = <<>>
      BY <1>3, <1>5, <2>5, <3>1, LenOfAppend DEF Said
    <3>3. down' # down
      BY <3>1 DEF LInv, Typed
    <3> QED
      BY <1>1, <1>2, <3>1, <3>2, <3>3 DEF Said
  <2>10. CASE ScramFinal
    <3>1. CASE ~Fail
      <4>1. /\ pc = "scramFinal" /\ pc' = "auth" /\ up' = up /\ told' = told
        BY <2>10, <3>1 DEF ScramFinal, FailSilently
      <4> QED
        BY <1>1, <1>2, <1>5, <4>1 DEF Said
    <3> QED
      BY <2>2, <2>10, <3>1 DEF ScramFinal, FailSilently, Fail
  <2>11. ASSUME NEW m, NEW then, Ask(m, then), m.kind \notin Opening, down # <<>>,
                pc \in {"auth", "scramFirst"}, then \in {"auth", "scramFirst", "scramFinal"}
         PROVE  Said'
    <3>1. up' = Append(<<>>, m) /\ pc' = then /\ told' = told
      BY <2>5, <2>11 DEF Ask
    <3>2. Head(up') = m
      BY <3>1
    <3> QED
      BY <1>1, <1>2, <1>5, <2>11, <3>1, <3>2 DEF Said
  <2>12. CASE AuthMd5 \/ AuthSasl \/ ScramFirst
    <3>1. /\ Pg("md5").kind \notin Opening /\ Pg("clientFirst").kind \notin Opening
          /\ Pg("clientFinal").kind \notin Opening
      BY DEF Pg, Msg, Opening
    <3>2. CASE FailSilently
      BY <2>2, <3>2 DEF FailSilently
    <3>3. CASE ~FailSilently
      BY <2>11, <2>12, <3>1, <3>3 DEF AuthMd5, AuthSasl, ScramFirst, Heard
    <3> QED
      BY <3>2, <3>3
  <2>13. CASE AuthUnknown
    BY <2>2, <2>13 DEF AuthUnknown, FailSilently
  <2>14. CASE MysqlProxy
    BY <2>1, <2>14
    DEF MysqlProxy, MysqlLogin, TakeGreeting, TakeResponse, StartTls, Verdict, SwitchPlugin,
        FastPath, FullPath, Refused
  <2> QED
    BY <2>3, <2>4, <2>7, <2>8, <2>9, <2>10, <2>12, <2>13, <2>14 DEF Proxy, PgProxy
<1> QED
  BY <1>4, <1>5

(* A notice comes with the answer to the opening of a PostgreSQL login.    *)
LEMMA AnswerSaid ==
  ASSUME TInv, LInv', NEW messages \in Seq(Message), NEW to, NEW count,
         Reply(messages, to, count), up # <<>>, up' = Tail(up),
         \A k \in 1 .. Len(messages) : k > 1 => messages[k].kind # "notice",
         "notice" \in Kinds(messages) => Mysql \/ Head(up).kind \in Opening
  PROVE  Said'
<1> USE DEF TInv, ZInv, KInv, NInv, CInv, SInv
<1>1. UNCHANGED <<config, pc, told>> /\ up' = <<>> /\ down' = messages
  <2>1. up \in Seq(Message) /\ Len(up) <= 1 /\ down = <<>>
    BY DEF LInv, Typed, Turns
  <2>2. <<>> \o messages = messages
    OBVIOUS
  <2> QED
    BY <2>1, <2>2, TailOfOne DEF Reply
<1>2. Mysql' = Mysql
  BY <1>1 DEF Mysql, config
<1> QED
  BY <1>1, <1>2 DEF Said

(* A server sends a notice first or not at all.                            *)
LEMMA ServerSaid ==
  ASSUME TInv, LInv', Server
  PROVE  Said'
<1> USE DEF TInv, ZInv, KInv, NInv, CInv, SInv
<1>1. CASE MysqlGreets
  <2>1. Mysql /\ pc = "greeting" /\ down = <<>>
    BY <1>1 DEF MysqlGreets, LInv, Typed, MysqlLogin, Turns
  <2> DEFINE m == Auth("greeting", 0, upstream.announced, 1)
  <2>2. down' = <<m>> /\ UNCHANGED <<config, pc, told>>
    BY <1>1, <2>1 DEF MysqlGreets, Reply
  <2> HIDE DEF m
  <2>3. Mysql' /\ Len(down') = 1
    BY <2>1, <2>2 DEF Mysql, config
  <2> QED
    BY <2>2, <2>3 DEF Said
<1>2. CASE MysqlReads
  <2>1. Mysql /\ UNCHANGED <<config, pc, told>> /\ down = <<>>
    <3>1. up # <<>> /\ Head(up).kind \in {"sslRequest", "token", "clear"}
      BY <1>2 DEF MysqlReads, Reads
    <3>2. Head(up).kind \in Kinds(up)
      BY <3>1, KindsOfTail DEF LInv, Typed
    <3> QED
      BY <1>2, <3>1, <3>2 DEF MysqlReads, Reply, Rejects, Verified, Turns
  <2>2. ASSUME NEW messages, NEW to, NEW count, Reply(messages, to, count)
        PROVE  down' = messages
    <3>1. down' = <<>> \o messages
      BY <2>1, <2>2 DEF Reply
    <3> QED
      BY <2>1, <2>2 DEF Reply
  <2> DEFINE answer == Head(up).seq + 1
  <2>4. \/ Reply(<<>>, "response", answer)
        \/ Rejects(answer)
        \/ Reply(<<Auth("switch", answer, upstream.account, 2)>>, "token", answer + 1)
        \/ Reply(<<Msg("ok", answer)>>, "accepted", answer + 1)
        \/ Reply(<<Msg("fast", answer), Msg("ok", answer + 1)>>, "accepted", answer + 2)
        \/ Reply(<<Msg("full", answer)>>, "clear", answer + 1)
    BY <1>2 DEF MysqlReads
  <2>5. ASSUME NEW m
        PROVE  Len(<<>>) = 0 /\ Len(<<m>>) = 1
    OBVIOUS
  <2>6. \/ Len(down') \in {0, 1}
        \/ down' = <<Msg("fast", answer), Msg("ok", answer + 1)>>
    <3> HIDE DEF answer
    <3> QED
      BY <2>2, <2>4, <2>5 DEF Rejects
  <2>7. \A k \in 1 .. Len(down') : k > 1 => down'[k].kind # "notice"
    BY <2>6 DEF Msg
  <2>3. Mysql'
    BY <2>1 DEF Mysql, config
  <2> QED
    BY <2>1, <2>3, <2>7 DEF Said
<1>3. CASE PgStarts
  <2>1. up # <<>> /\ up' = Tail(up) /\ Head(up).kind \in Opening
    BY <1>3 DEF PgStarts, Reads, Opening
  <2> DEFINE ask == Pg(PgAsks)
             to == IF PgAsks = "authOk" THEN "accepted" ELSE "proof"
  <2>2. \/ Reply(<<ask>>, to, 0) \/ Reply(<<Pg("notice"), ask>>, to, 0)
        \/ Reply(<<Pg("byte")>>, "new", 0)
    BY <1>3 DEF PgStarts
  <2>3. ask.kind # "notice" /\ ask \in Message
    BY DEF PgAsks, Pg, Msg, Message, PluginNames, Credentials
  <2> DEFINE notice == Pg("notice")
             byte == Pg("byte")
  <2>5. notice \in Message /\ byte \in Message
    BY DEF Pg, Msg, Message, PluginNames, Credentials
  <2> HIDE DEF ask, to, notice, byte
  <2>4. ASSUME NEW s \in {"new", to},
               NEW messages \in {<<ask>>, <<notice, ask>>, <<byte>>}, Reply(messages, s, 0)
        PROVE  Said'
    <3>1. messages \in Seq(Message)
      <4>1. /\ <<ask>> \in Seq(Message) /\ <<byte>> \in Seq(Message)
            /\ <<notice, ask>> \in Seq(Message)
        BY <2>3, <2>5, KindsOfOne, KindsOfTwo
      <4> QED
        BY <2>4, <4>1
    <3>2. \A k \in 1 .. Len(messages) : k > 1 => messages[k].kind # "notice"
      BY <2>3, <2>4
    <3> QED
      BY <2>1, <2>4, <3>1, <3>2, AnswerSaid
  <2> QED
    BY <2>2, <2>4 DEF notice, byte
<1>4. CASE PgReads
  <2>1. up # <<>> /\ up' = Tail(up)
    BY <1>4 DEF PgReads, Reads
  <2>2. /\ Pg("serverFirst") \in Message /\ Pg("authOk") \in Message
        /\ Pg("serverFinal") \in Message /\ Pg("err") \in Message
        /\ Pg("serverFirst").kind # "notice" /\ Pg("authOk").kind # "notice"
        /\ Pg("serverFinal").kind # "notice" /\ Pg("err").kind # "notice"
    BY DEF Pg, Msg, Message, PluginNames, Credentials
  <2>3. ASSUME NEW n \in Message, NEW o \in Message, n.kind # "notice", o.kind # "notice",
               NEW to, NEW messages \in {<<n>>, <<n, o>>}, Reply(messages, to, 0)
        PROVE  Said'
    <3>1. messages \in Seq(Message) /\ Kinds(messages) \subseteq {n.kind, o.kind}
      BY <2>3, KindsOfTwo
    <3>2. \A k \in 1 .. Len(messages) : messages[k].kind # "notice"
      BY <2>3, <3>1 DEF Kinds
    <3> QED
      BY <2>1, <2>3, <3>1, <3>2, AnswerSaid
  <2>4. \/ Reply(<<Pg("serverFirst")>>, "proof", 0)
        \/ Reply(<<Pg("authOk")>>, "accepted", 0)
        \/ Reply(<<Pg("serverFinal"), Pg("authOk")>>, "accepted", 0)
        \/ Reply(<<Pg("err")>>, "refused", 0)
    BY <1>4 DEF PgReads, Reads
  <2> QED
    BY <2>2, <2>3, <2>4
<1> QED
  BY <1>1, <1>2, <1>3, <1>4 DEF Server

LEMMA EndSaid ==
  ASSUME TInv, LInv', ClientSpeaks \/ ClientLeaves \/ ServerLeaves \/ UNCHANGED vars
  PROVE  Said'
<1>1. /\ UNCHANGED <<config, pc, down, told>>
      /\ up' = up \/ up' = <<>>
  BY DEF ClientSpeaks, Send, ClientLeaves, ServerLeaves, vars
<1> QED
  BY <1>1 DEF TInv, Said, Mysql, config

(* A login is bounded: its packet numbers, the messages in flight and what *)
(* the client is told, whatever either end does.                           *)
THEOREM BoundInvariant == Spec => []TInv
<1>1. Init /\ KInv => TInv
  BY KindsOfNone DEF Init, TInv, ZInv, Sized, Said, Limit, Plugins
<1>2. TInv /\ [Next]_vars /\ KInv' => TInv'
  <2> SUFFICES ASSUME TInv, [Next]_vars, KInv'
               PROVE  Sized' /\ Said'
    BY DEF TInv, ZInv
  <2>1. LInv' /\ ZInv
    BY DEF KInv, NInv, CInv, SInv, TInv
  <2>2. Sized'
    BY <2>1, ProxySized, MysqlServerSized, PgServerSized, EndSized DEF Next, Server
  <2>3. Said'
    BY <2>1, ProxySaid, ServerSaid, EndSaid DEF Next
  <2> QED
    BY <2>2, <2>3
<1> QED
  BY <1>1, <1>2, CauseInvariant, PTL DEF Spec

(* The type invariant of DBLogin, with the bounds it gives: packet numbers *)
(* up to 8, two messages of the server in flight and three told to the     *)
(* client at most.                                                         *)
THEOREM LoginTypes == Spec => []TypeOK
<1>1. TInv => TypeOK
  <2> SUFFICES ASSUME TInv
               PROVE  TypeOK
    OBVIOUS
  <2> USE DEF TInv, ZInv, KInv, NInv, CInv, SInv
  <2>1. next \in 0 .. 8
    BY DEF Sized, Limit, LInv, Typed
  <2>2. pc \in MysqlLogin \cup PgLogin \cup {"load", "off", "connect", "session", "closed"}
    BY DEF LInv, Typed
  <2> QED
    BY <2>1, <2>2 DEF TypeOK, LInv, Typed, Turns, Sized, Said, MysqlLogin, PgLogin
<1> QED
  BY <1>1, BoundInvariant, PTL

=============================================================================
