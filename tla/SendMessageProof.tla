-------------------------- MODULE SendMessageProof --------------------------
(***************************************************************************)
(* Theorems about SendMessage and the loadConf it starts from, for every   *)
(* configuration file, every size of the buffer and every length of the    *)
(* messages, and without the bound on the calls.                           *)
(***************************************************************************)
EXTENDS SendMessage, TLAPS

-----------------------------------------------------------------------------
(* loadConf *)

\* What a file must give for the load to succeed.
Complete(f) == f.readable /\ f.probe_id.ok /\ f.token.ok

\* A state of the load in which nothing has failed.
Fine(c, past) == State(c, FALSE, Loading, past)

\* One integer field of Conf is set.
Sets(c, field, v) == [c EXCEPT ![field] = v]

\* A failed load stays as it is.
LEMMA FailedStays ==
    ASSUME NEW s, s.status # Loading, NEW e, NEW field, NEW v
    PROVE  /\ RequiredInteger(s, e, field) = s /\ RequiredText(s, e, field) = s
           /\ Text(s, e, field) = s /\ Integer(s, e, field, v) = s
<1>1. RequiredInteger(s, e, field) = s
  BY DEF RequiredInteger
<1>2. RequiredText(s, e, field) = s
  BY DEF RequiredText
<1>3. Text(s, e, field) = s
  BY DEF Text
<1>4. Integer(s, e, field, v) = s
  BY DEF Integer
<1> QED
  BY <1>1, <1>2, <1>3, <1>4

\* What an integer key gives.
Narrowed(e, field, default) == IF e.ok THEN e.val % Width(field) ELSE default

\* One key read while nothing has failed: an identifier,
LEMMA RequiredIntegerStep ==
    ASSUME NEW c, NEW o, NEW e, e.ok, NEW field
    PROVE  RequiredInteger(Fine(c, o), e, field) = Fine(Sets(c, field, e.val), o)
<1> DEFINE s == Fine(c, o)
<1>1. s.conf = c /\ ~ s.error /\ s.status = Loading /\ s.past = o
  BY DEF Fine, State
<1> HIDE DEF s
<1>2. RequiredInteger(s, e, field) = State([c EXCEPT ![field] = e.val], FALSE, Loading, o)
  BY <1>1 DEF RequiredInteger
<1> QED
  BY <1>2 DEF Fine, Sets, s

LEMMA RequiredIntegerFails ==
    ASSUME NEW c, NEW o, NEW e, ~ e.ok, NEW field
    PROVE  RequiredInteger(Fine(c, o), e, field)
              = State(Sets(c, field, e.val), TRUE, EXIT_FAILURE, o)
<1> DEFINE s == Fine(c, o)
<1>1. s.conf = c /\ ~ s.error /\ s.status = Loading /\ s.past = o
  BY DEF Fine, State
<1> HIDE DEF s
<1>2. RequiredInteger(s, e, field) = State([c EXCEPT ![field] = e.val], TRUE, EXIT_FAILURE, o)
  BY <1>1 DEF RequiredInteger
<1> QED
  BY <1>2 DEF Sets, s

\* a token,
LEMMA RequiredTextStep ==
    ASSUME NEW c, NEW o, NEW e, e.ok, NEW field
    PROVE  RequiredText(Fine(c, o), e, field)
              = Fine(strcpy(c, field, e.val), o \cup PastEnd(field, e.val))
<1> DEFINE s == Fine(c, o)
<1>1. s.conf = c /\ s.error = FALSE /\ s.status = Loading /\ s.past = o
  BY DEF Fine, State
<1> HIDE DEF s
<1>2. RequiredText(s, e, field)
         = State(strcpy(c, field, e.val), FALSE, Loading, o \cup PastEnd(field, e.val))
  BY <1>1 DEF RequiredText
<1> QED
  BY <1>2 DEF Fine, s

LEMMA RequiredTextFails ==
    ASSUME NEW c, NEW o, NEW e, ~ e.ok, NEW field
    PROVE  RequiredText(Fine(c, o), e, field) = State(c, TRUE, EXIT_FAILURE, o)
<1> DEFINE s == Fine(c, o)
<1>1. s.conf = c /\ s.status = Loading /\ s.past = o
  BY DEF Fine, State
<1> HIDE DEF s
<1>2. RequiredText(s, e, field) = State(c, TRUE, EXIT_FAILURE, o)
  BY <1>1 DEF RequiredText
<1> QED
  BY <1>2 DEF s

\* a text,
LEMMA TextStep ==
    ASSUME NEW c, NEW o, NEW e, NEW field
    PROVE  Text(Fine(c, o), e, field)
              = Fine(strcpy(c, field, TextOf(e)), o \cup PastEnd(field, TextOf(e)))
<1> DEFINE s == Fine(c, o)
<1>1. s.conf = c /\ ~ s.error /\ s.status = Loading /\ s.past = o
  BY DEF Fine, State
<1> HIDE DEF s
<1>2. (IF e.ok THEN s.error ELSE FALSE) = FALSE
  BY <1>1
<1>3. Text(s, e, field)
         = State(strcpy(c, field, TextOf(e)), FALSE, Loading, o \cup PastEnd(field, TextOf(e)))
  BY <1>1, <1>2 DEF Text
<1> QED
  BY <1>3 DEF Fine, s

\* and an integer.
LEMMA IntegerStep ==
    ASSUME NEW c, NEW o, NEW e, NEW field, NEW v
    PROVE  Integer(Fine(c, o), e, field, v) = Fine(Sets(c, field, Narrowed(e, field, v)), o)
<1> DEFINE s == Fine(c, o)
<1>1. s.conf = c /\ ~ s.error /\ s.status = Loading /\ s.past = o
  BY DEF Fine, State
<1> HIDE DEF s
<1>2. (IF s.error \/ ~ e.ok THEN v ELSE e.val % Width(field)) = Narrowed(e, field, v)
  BY <1>1 DEF Narrowed
<1>3. Integer(s, e, field, v)
         = State([c EXCEPT ![field] = Narrowed(e, field, v)], FALSE, Loading, o)
  BY <1>1, <1>2 DEF Integer
<1> QED
  BY <1>3 DEF Fine, Sets, s

\* The structure as seven values.
Values(id, port, proto, version, dir, fqdn, token) ==
    [probeID |-> id, enginePort |-> port, transportProto |-> proto, transportMsgVersion |-> version,
     probePluginDir |-> dir, engineFQDN |-> fqdn, token |-> token]

\* What an array holds when a text was copied to another.
Left(f, old, field, text) ==
    IF f = field THEN text
    ELSE IF Bytes(f, old) \cap Bytes(field, text) # {} THEN Spoiled ELSE old

\* strcpy does not touch the integers.
LEMMA CopyStep ==
    ASSUME NEW id, NEW port, NEW proto, NEW version, NEW dir, NEW fqdn, NEW token,
           NEW field \in DOMAIN Offset, NEW text
    PROVE  strcpy(Values(id, port, proto, version, dir, fqdn, token), field, text)
              = Values(id, port, proto, version, Left("probePluginDir", dir, field, text),
                       Left("engineFQDN", fqdn, field, text), Left("token", token, field, text))
<1>1. DOMAIN Offset = {"probePluginDir", "engineFQDN", "token"}
  BY DEF Offset
<1> QED
  BY <1>1 DEF strcpy, Values, Left

LEMMA SetStep ==
    ASSUME NEW id, NEW port, NEW proto, NEW version, NEW dir, NEW fqdn, NEW token, NEW v
    PROVE  /\ Sets(Values(id, port, proto, version, dir, fqdn, token), "probeID", v)
                 = Values(v, port, proto, version, dir, fqdn, token)
           /\ Sets(Values(id, port, proto, version, dir, fqdn, token), "transportProto", v)
                 = Values(id, port, v, version, dir, fqdn, token)
           /\ Sets(Values(id, port, proto, version, dir, fqdn, token), "transportMsgVersion", v)
                 = Values(id, port, proto, v, dir, fqdn, token)
           /\ Sets(Values(id, port, proto, version, dir, fqdn, token), "enginePort", v)
                 = Values(id, v, proto, version, dir, fqdn, token)
<1> DEFINE c == Values(id, port, proto, version, dir, fqdn, token)
<1>1. Sets(c, "probeID", v) = Values(v, port, proto, version, dir, fqdn, token)
  BY DEF Sets, Values
<1>2. Sets(c, "transportProto", v) = Values(id, port, v, version, dir, fqdn, token)
  BY DEF Sets, Values
<1>3. Sets(c, "transportMsgVersion", v) = Values(id, port, proto, v, dir, fqdn, token)
  BY DEF Sets, Values
<1>4. Sets(c, "enginePort", v) = Values(id, v, proto, version, dir, fqdn, token)
  BY DEF Sets, Values
<1> QED
  BY <1>1, <1>2, <1>3, <1>4

\* The three texts after each copy: token, plug-in directory, engine.
Dir1(f) == Left("probePluginDir", NoText, "token", f.token.val)
Fqdn1(f) == Left("engineFQDN", NoText, "token", f.token.val)
Dir2(f) == TextOf(f.probe_plugin_dir)
Fqdn2(f) == Left("engineFQDN", Fqdn1(f), "probePluginDir", Dir2(f))
Token2(f) == Left("token", f.token.val, "probePluginDir", Dir2(f))
Fqdn3(f) == TextOf(f.engine_fqdn)
Dir3(f) == Left("probePluginDir", Dir2(f), "engineFQDN", Fqdn3(f))
Token3(f) == Left("token", Token2(f), "engineFQDN", Fqdn3(f))

Past(f) ==
    (PastEnd("token", f.token.val) \cup PastEnd("probePluginDir", Dir2(f)))
        \cup PastEnd("engineFQDN", Fqdn3(f))

\* What a complete file is loaded as.
Loaded(f) ==
    Values(f.probe_id.val, Narrowed(f.engine_port, "enginePort", 443),
           Narrowed(f.transport_proto, "transportProto", 0),
           Narrowed(f.transport_message_version, "transportMsgVersion", 2),
           Dir3(f), Fqdn3(f), Token3(f))

\* Texts that fit leave each other alone.
LEMMA FittingTexts ==
    ASSUME NEW f \in Files, Complete(f), Fits(f)
    PROVE  /\ Dir3(f) = TextOf(f.probe_plugin_dir) /\ Token3(f) = f.token.val
           /\ Past(f) = {}
<1>1. /\ f.token.val \in Nat /\ f.token.val < 26
      /\ Dir2(f) \in Nat /\ Dir2(f) < 255
      /\ Fqdn3(f) \in Nat /\ Fqdn3(f) < 255
  <2>1. ASSUME NEW e \in Entries(Texts) PROVE e.val \in Nat
    <3>1. CASE e = None
      BY <3>1 DEF None
    <3>2. CASE e \in [ok : {TRUE}, val : Texts]
      BY <3>2, ConfAssumption
    <3> QED
      BY <3>1, <3>2 DEF Entries
  <2>2. f.token \in Entries(Texts) /\ f.probe_plugin_dir \in Entries(Texts) /\ f.engine_fqdn \in Entries(Texts)
    BY DEF Files
  <2>3. TextOf(f.probe_plugin_dir) \in Nat /\ TextOf(f.engine_fqdn) \in Nat
    BY <2>1, <2>2 DEF TextOf, DefaultText
  <2>4. f.token.val < 26 /\ f.probe_plugin_dir.val < 255 /\ f.engine_fqdn.val < 255
    BY DEF Fits, End, Offset
  <2>5. TextOf(f.probe_plugin_dir) < 255 /\ TextOf(f.engine_fqdn) < 255
    BY <2>1, <2>2, <2>4 DEF TextOf, DefaultText
  <2> QED
    BY <2>1, <2>2, <2>3, <2>4, <2>5 DEF Dir2, Fqdn3
<1>2. Offset["probePluginDir"] = 0 /\ Offset["engineFQDN"] = 255 /\ Offset["token"] = 510
  BY DEF Offset
<1> HIDE DEF Dir2, Fqdn3
<1>3. Token2(f) = f.token.val
  BY <1>1, <1>2 DEF Token2, Left, Bytes
<1>4. Token3(f) = f.token.val
  BY <1>1, <1>2, <1>3 DEF Token3, Left, Bytes
<1>5. Dir3(f) = Dir2(f)
  BY <1>1, <1>2 DEF Dir3, Left, Bytes
<1>6. Past(f) = {}
  <2>1. PastEnd("token", f.token.val) = {}
    BY <1>1, <1>2 DEF PastEnd, Bytes, End
  <2>2. PastEnd("probePluginDir", Dir2(f)) = {}
    BY <1>1, <1>2 DEF PastEnd, Bytes, End
  <2>3. PastEnd("engineFQDN", Fqdn3(f)) = {}
    BY <1>1, <1>2 DEF PastEnd, Bytes, End
  <2> QED
    BY <2>1, <2>2, <2>3 DEF Past
<1> QED
  BY <1>4, <1>5, <1>6 DEF Dir2

\* loadConf succeeds exactly for a complete file; each integer is then what its
\* key means, and so are the texts when they fit.
LEMMA LoadConf ==
    ASSUME NEW f \in Files
    PROVE  /\ loadConf(f).status \in {EXIT_SUCCESS, EXIT_FAILURE}
           /\ loadConf(f).status = EXIT_SUCCESS <=> Complete(f)
           /\ Complete(f) => loadConf(f).conf = Loaded(f) /\ (loadConf(f).overrun <=> Past(f) # {})
           /\ ~ Complete(f) => loadConf(f).conf.transportProto = 0 /\ ~ loadConf(f).overrun
<1> DEFINE s1 == RequiredInteger(Opened(f), f.probe_id, "probeID")
           s2 == RequiredText(s1, f.token, "token")
           s3 == Text(s2, f.probe_plugin_dir, "probePluginDir")
           s4 == Integer(s3, f.transport_proto, "transportProto", 0)
           s5 == Integer(s4, f.transport_message_version, "transportMsgVersion", 2)
           s6 == Text(s5, f.engine_fqdn, "engineFQDN")
           s7 == Integer(s6, f.engine_port, "enginePort", 443)
<1>1. /\ loadConf(f).conf = s7.conf /\ (loadConf(f).overrun <=> s7.past # {})
      /\ loadConf(f).status \in {EXIT_SUCCESS, EXIT_FAILURE}
      /\ loadConf(f).status = EXIT_SUCCESS <=> s7.status = Loading
  <2> DEFINE overrun == s7.past # {}
             status == IF s7.status = Loading THEN EXIT_SUCCESS ELSE EXIT_FAILURE
  <2>1. loadConf(f) = [conf |-> s7.conf, overrun |-> overrun, status |-> status]
    BY DEF loadConf
  <2> HIDE DEF s1, s2, s3, s4, s5, s6, s7
  <2>2. status \in {EXIT_SUCCESS, EXIT_FAILURE} /\ (status = EXIT_SUCCESS <=> s7.status = Loading)
    BY DEF EXIT_SUCCESS, EXIT_FAILURE
  <2> HIDE DEF overrun, status
  <2>3. /\ loadConf(f).conf = s7.conf /\ loadConf(f).overrun = overrun
        /\ loadConf(f).status = status
    BY <2>1
  <2> QED
    BY <2>2, <2>3 DEF overrun
<1>2. f.readable \in BOOLEAN
  BY DEF Files
<1>3. /\ Opened(f).conf = CONF_INITIALIZER /\ Opened(f).past = {}
      /\ f.readable => Opened(f) = Fine(CONF_INITIALIZER, {})
  BY <1>2 DEF Opened, Fine, State
<1>i. CONF_INITIALIZER = Values(0, 0, 0, 0, NoText, NoText, NoText)
  BY DEF CONF_INITIALIZER, Values
<1> DEFINE c1 == Values(f.probe_id.val, 0, 0, 0, NoText, NoText, NoText)
<1>j. Sets(CONF_INITIALIZER, "probeID", f.probe_id.val) = c1
  BY <1>i, SetStep
<1>4. ASSUME Complete(f)
      PROVE  s7.status = Loading /\ s7.conf = Loaded(f) /\ s7.past = Past(f)
  <2> DEFINE proto == Narrowed(f.transport_proto, "transportProto", 0)
             version == Narrowed(f.transport_message_version, "transportMsgVersion", 2)
             o2 == {} \cup PastEnd("token", f.token.val)
             o3 == o2 \cup PastEnd("probePluginDir", Dir2(f))
             o6 == o3 \cup PastEnd("engineFQDN", Fqdn3(f))
             c2 == Values(f.probe_id.val, 0, 0, 0, Dir1(f), Fqdn1(f), f.token.val)
             c3 == Values(f.probe_id.val, 0, 0, 0, Dir2(f), Fqdn2(f), Token2(f))
             c4 == Values(f.probe_id.val, 0, proto, 0, Dir2(f), Fqdn2(f), Token2(f))
             c5 == Values(f.probe_id.val, 0, proto, version, Dir2(f), Fqdn2(f), Token2(f))
             c6 == Values(f.probe_id.val, 0, proto, version, Dir3(f), Fqdn3(f), Token3(f))
  <2>0. {"token", "probePluginDir", "engineFQDN"} \subseteq DOMAIN Offset
    BY DEF Offset
  <2>1. s1 = Fine(c1, {})
    BY <1>3, <1>4, <1>j, RequiredIntegerStep DEF Complete
  <2>2. strcpy(c1, "token", f.token.val) = c2
    BY <2>0, CopyStep DEF Dir1, Fqdn1, Left
  <2>3. strcpy(c2, "probePluginDir", Dir2(f)) = c3
    BY <2>0, CopyStep DEF Fqdn2, Token2, Left
  <2>4. Sets(c3, "transportProto", proto) = c4
    BY SetStep
  <2>5. Sets(c4, "transportMsgVersion", version) = c5
    BY SetStep
  <2>6. strcpy(c5, "engineFQDN", Fqdn3(f)) = c6
    BY <2>0, CopyStep DEF Dir3, Token3, Left
  <2>7. Sets(c6, "enginePort", Narrowed(f.engine_port, "enginePort", 443)) = Loaded(f)
    BY SetStep DEF Loaded
  <2>8. o6 = Past(f)
    BY DEF Past
  <2> HIDE DEF c1, c2, c3, c4, c5, c6, proto, version, o2, o3, o6
  <2>9. RequiredText(Fine(c1, {}), f.token, "token") = Fine(c2, o2)
    <3>1. f.token.ok
      BY <1>4 DEF Complete
    <3>2. \A c, e : e.ok => RequiredText(Fine(c, {}), e, "token")
                             = Fine(strcpy(c, "token", e.val), {} \cup PastEnd("token", e.val))
      BY RequiredTextStep
    <3> QED
      BY <2>2, <3>1, <3>2, Zenon DEF o2
  <2>10. Text(Fine(c2, o2), f.probe_plugin_dir, "probePluginDir") = Fine(c3, o3)
    BY <2>3, TextStep DEF o3, Dir2
  <2>11. Integer(Fine(c3, o3), f.transport_proto, "transportProto", 0) = Fine(c4, o3)
    BY <2>4, IntegerStep DEF proto
  <2>12. Integer(Fine(c4, o3), f.transport_message_version, "transportMsgVersion", 2) = Fine(c5, o3)
    BY <2>5, IntegerStep DEF version
  <2>13. Text(Fine(c5, o3), f.engine_fqdn, "engineFQDN") = Fine(c6, o6)
    BY <2>6, TextStep DEF o6, Fqdn3
  <2>14. Integer(Fine(c6, o6), f.engine_port, "enginePort", 443) = Fine(Loaded(f), o6)
    BY <2>7, IntegerStep
  <2>15. s7 = Fine(Loaded(f), o6)
    BY <2>1, <2>9, <2>10, <2>11, <2>12, <2>13, <2>14
  <2> QED
    BY <2>8, <2>15 DEF Fine, State
<1>5. ASSUME ~ Complete(f)
      PROVE  s7.status # Loading /\ s7.conf.transportProto = 0 /\ s7.past = {}
  <2>1. s2.status # Loading /\ s2.conf.transportProto = 0 /\ s2.past = {}
    <3>1. CASE ~ f.readable
      <4>1. Opened(f).status # Loading /\ Opened(f).conf.transportProto = 0
        BY <3>1 DEF Opened, State, CONF_INITIALIZER, Loading, EXIT_FAILURE
      <4> QED
        BY <1>3, <4>1, FailedStays
    <3>2. CASE f.readable /\ ~ f.probe_id.ok
      <4>1. s1 = State(c1, TRUE, EXIT_FAILURE, {})
        <5>1. Opened(f) = Fine(CONF_INITIALIZER, {}) /\ ~ f.probe_id.ok
          BY <1>3, <3>2
        <5>2. RequiredInteger(Fine(CONF_INITIALIZER, {}), f.probe_id, "probeID")
                 = State(Sets(CONF_INITIALIZER, "probeID", f.probe_id.val), TRUE, EXIT_FAILURE, {})
          BY <5>1, RequiredIntegerFails
        <5> QED
          BY <1>j, <5>1, <5>2
      <4>2. s1.status # Loading /\ s1.conf = c1 /\ s1.past = {}
        BY <4>1 DEF State, Loading, EXIT_FAILURE
      <4> QED
        BY <4>2, FailedStays DEF Values
    <3>3. CASE f.readable /\ f.probe_id.ok /\ ~ f.token.ok
      <4>1. s1 = Fine(c1, {})
        BY <1>3, <1>j, <3>3, RequiredIntegerStep
      <4>2. s2 = State(c1, TRUE, EXIT_FAILURE, {})
        BY <3>3, <4>1, RequiredTextFails
      <4> QED
        BY <4>2 DEF State, Values, Loading, EXIT_FAILURE
    <3> QED
      BY <1>5, <3>1, <3>2, <3>3 DEF Complete
  <2> HIDE DEF s2
  <2>2. s7 = s2
    BY <2>1, FailedStays
  <2> QED
    BY <2>1, <2>2
<1> HIDE DEF s1, s2, s3, s4, s5, s6, s7
<1> QED
  BY <1>1, <1>4, <1>5

\* Each key read on its own gives the same.
LEMMA LoadedAsReference ==
    ASSUME NEW f \in Files, Complete(f)
    PROVE  /\ \A field \in IntegerFields : Loaded(f)[field] = Reference(f)[field]
           /\ Fits(f) => Loaded(f) = Reference(f)
<1>1. /\ Narrowed(f.transport_proto, "transportProto", 0) = Meant(f.transport_proto, 0) % 256
      /\ Narrowed(f.transport_message_version, "transportMsgVersion", 2)
            = Meant(f.transport_message_version, 2) % 256
      /\ Narrowed(f.engine_port, "enginePort", 443) = Meant(f.engine_port, 443) % 65536
  BY DEF Narrowed, Meant, Width
<1>2. TextOf(f.probe_plugin_dir) = Meant(f.probe_plugin_dir, DefaultText)
      /\ Fqdn3(f) = Meant(f.engine_fqdn, DefaultText)
  BY DEF TextOf, Meant, Fqdn3
<1>3. \A field \in IntegerFields : Loaded(f)[field] = Reference(f)[field]
  BY <1>1 DEF Loaded, Values, Reference, IntegerFields
<1>4. ASSUME Fits(f) PROVE Loaded(f) = Reference(f)
  <2>1. Dir3(f) = TextOf(f.probe_plugin_dir) /\ Token3(f) = f.token.val
    BY <1>4, FittingTexts
  <2> QED
    BY <1>1, <1>2, <2>1 DEF Loaded, Values, Reference
<1> QED
  BY <1>3, <1>4

-----------------------------------------------------------------------------
(* The inductive invariant *)

\* What the configuration made of the protocol, and where it leads.
ConfInv ==
    /\ protocol = loadConf(file).conf.transportProto
    /\ pc # "ended" => Complete(file)
    /\ pc \in {"tlsConnect", "tlsWrite"} => protocol = 0
    /\ pc \in PlainPC => protocol # 0
    /\ pc = "close" => protocol = 1
    /\ pc = "aborted" => protocol # 1

Before == {"compose", "tlsConnect", "resolve", "socket"}
Connected == {"tlsWrite", "sendto", "close", "aborted"}

\* The sockets, and what was taken of the message, during a call.
CallInv ==
    /\ pc = "compose" => length > 0
    /\ pc \in Before => openSockets = openBefore
    /\ pc \in Connected => openSockets = openBefore + 1
    /\ pc \in Before \cup {"tlsWrite", "sendto"} => taken = Nothing
    /\ pc \in {"tlsWrite", "sendto"} => completMsg.len > 0
    /\ pc \in {"tlsConnect", "resolve", "socket"} => completMsg.len > 0
    /\ pc = "close" => taken # Nothing
    /\ pc \in Before \cup Connected => (errnoBefore # 0 => errno # 0)

\* What a call that returned leaves.
ReturnInv ==
    /\ LeakOnlyOnFailedSend
    /\ TlsStatusTruthful
    /\ UdpStatusTruthfulAfterFirstError

SendInv == TypeOK /\ ConfInv /\ CallInv /\ ReturnInv

\* What a text of the buffer is.
LEMMA BufferFact ==
    ASSUME NEW m, NEW n \in 0 .. BufSize - 1,
           m = [len |-> n, lf |-> TRUE] \/ m = [len |-> n, lf |-> FALSE]
    PROVE  m \in Buffers /\ m.len = n
<1>1. CASE m = [len |-> n, lf |-> TRUE]
  BY <1>1 DEF Buffers
<1>2. CASE m = [len |-> n, lf |-> FALSE]
  BY <1>2 DEF Buffers
<1> QED
  BY <1>1, <1>2

LEMMA InitSendInv == Init => SendInv
<1> SUFFICES ASSUME Init PROVE SendInv
  OBVIOUS
<1>1. file \in Files
  BY DEF Init
<1>2. protocol \in 0 .. 255
  <2>1. CASE Complete(file)
    <3>1. Meant(file.transport_proto, 0) \in Int
      <4>1. file.transport_proto \in Entries(Protos)
        BY <1>1 DEF Files
      <4>2. \A e \in Entries(Protos) : e.val \in Int
        <5>1. None.val \in Int
          BY DEF None
        <5>2. \A e \in [ok : {TRUE}, val : Protos] : e.val \in Int
          BY ConfAssumption
        <5> QED
          BY <5>1, <5>2 DEF Entries
      <4> QED
        BY <4>1, <4>2 DEF Meant
    <3>2. Reference(file).transportProto \in 0 .. 255
      BY <3>1 DEF Reference
    <3>3. loadConf(file).conf.transportProto = Reference(file).transportProto
      BY <1>1, <2>1, LoadConf, LoadedAsReference DEF IntegerFields
    <3> QED
      BY <3>2, <3>3 DEF Init
  <2>2. CASE ~ Complete(file)
    BY <1>1, <2>2, LoadConf DEF Init
  <2> QED
    BY <2>1, <2>2
<1>3. pc \in {"idle", "ended"} /\ (pc = "idle" => Complete(file))
  BY <1>1, LoadConf DEF Init, EXIT_SUCCESS, EXIT_FAILURE
<1>4. Nothing \in Buffers
  BY SendMessageAssumption DEF Nothing, Buffers
<1>5. TypeOK
  BY <1>1, <1>2, <1>3, <1>4 DEF Init, TypeOK, EXIT_FAILURE
<1>6. ConfInv
  BY <1>3 DEF Init, ConfInv, PlainPC
<1>7. CallInv
  BY <1>3 DEF CallInv, Before, Connected
<1>8. ReturnInv
  BY DEF Init, ReturnInv, LeakOnlyOnFailedSend, TlsStatusTruthful,
         UdpStatusTruthfulAfterFirstError, Returned
<1> QED
  BY <1>5, <1>6, <1>7, <1>8 DEF SendInv

-----------------------------------------------------------------------------
(* Each action keeps the invariant. *)

LEMMA CallKeeps ==
    ASSUME SendInv, Call PROVE SendInv'
<1> USE DEF SendInv, Call, Goto
<1>1. TypeOK'
  <2>1. Nothing \in Buffers /\ length' \in Nat
    BY SendMessageAssumption DEF Nothing, Buffers
  <2> QED
    BY <2>1 DEF TypeOK, confVars
<1>2. ConfInv'
  BY DEF ConfInv, confVars, PlainPC
<1>3. CallInv'
  <2>1. length' > 0
    BY SendMessageAssumption
  <2> QED
    BY <2>1 DEF CallInv, Before, Connected
<1>4. ReturnInv'
  BY DEF ReturnInv, LeakOnlyOnFailedSend, TlsStatusTruthful,
         UdpStatusTruthfulAfterFirstError, Returned
<1> QED
  BY <1>1, <1>2, <1>3, <1>4

LEMMA ComposeKeeps ==
    ASSUME SendInv, Compose, UNCHANGED <<confVars, callVars>> PROVE SendInv'
<1> USE DEF SendInv, Compose, Goto, confVars, callVars
<1>1. TypeOK' /\ completMsg'.len > 0
  <2>1. completMsg' \in Buffers /\ completMsg'.len > 0
    <3>1. length \in Nat \ {0} /\ BufSize - 1 \in Nat \ {0}
      BY SendMessageAssumption DEF TypeOK, CallInv
    <3>2. PICK n \in 1 .. BufSize - 1 :
             completMsg' = [len |-> n, lf |-> TRUE] \/ completMsg' = [len |-> n, lf |-> FALSE]
      <4>1. CASE length <= BufSize - 1
        <5>1. completMsg' = [len |-> length, lf |-> TRUE] /\ length \in 1 .. BufSize - 1
          BY <3>1, <4>1
        <5> QED
          BY ONLY <5>1
      <4>2. CASE ~ (length <= BufSize - 1)
        <5>1. completMsg' = [len |-> BufSize - 1, lf |-> FALSE]
          BY <4>2
        <5>2. BufSize - 1 \in 1 .. BufSize - 1
          BY ONLY <3>1, SendMessageAssumption
        <5> QED
          BY ONLY <5>1, <5>2
      <4> QED
        BY <4>1, <4>2
    <3> QED
      BY ONLY <3>1, <3>2, BufferFact
  <2> QED
    BY <2>1 DEF TypeOK, PlainPC
<1>2. ConfInv'
  BY DEF ConfInv, PlainPC
<1>3. CallInv'
  BY <1>1 DEF CallInv, Before, Connected
<1>4. ReturnInv'
  BY DEF ReturnInv, LeakOnlyOnFailedSend, TlsStatusTruthful,
         UdpStatusTruthfulAfterFirstError, Returned
<1> QED
  BY <1>1, <1>2, <1>3, <1>4

LEMMA TlsConnectKeeps ==
    ASSUME SendInv, TlsConnect, UNCHANGED <<confVars, callVars>> PROVE SendInv'
<1> USE DEF SendInv, TlsConnect, Goto, Returns, confVars, callVars
<1>1. TypeOK'
  BY DEF TypeOK, PlainPC
<1>2. ConfInv'
  BY DEF ConfInv, PlainPC
<1>3. CallInv'
  BY DEF TypeOK, CallInv, Before, Connected
<1>4. ReturnInv'
  BY DEF TypeOK, ConfInv, CallInv, ReturnInv, LeakOnlyOnFailedSend, TlsStatusTruthful,
         UdpStatusTruthfulAfterFirstError, Returned, Before, Connected, PlainPC,
         EXIT_SUCCESS, EXIT_FAILURE, EIO
<1> QED
  BY <1>1, <1>2, <1>3, <1>4

LEMMA TlsWriteKeeps ==
    ASSUME SendInv, TlsWrite, UNCHANGED <<confVars, callVars>> PROVE SendInv'
<1> USE DEF SendInv, TlsWrite, Goto, Returns, confVars, callVars
<1>1. taken' \in Buffers /\ (taken' # Nothing <=> result' = EXIT_SUCCESS)
  <2>1. CASE \E n \in 1 .. completMsg.len : Takes(n) /\ result' = EXIT_SUCCESS
    <3>1. PICK n \in 1 .. completMsg.len : Takes(n) /\ result' = EXIT_SUCCESS
      BY <2>1
    <3>2. n \in 0 .. BufSize - 1 /\ n > 0
      BY SendMessageAssumption DEF TypeOK, Buffers
    <3>3. taken' = [len |-> n, lf |-> TRUE] \/ taken' = [len |-> n, lf |-> FALSE]
      BY <3>1, Zenon DEF Takes
    <3>4. taken' \in Buffers /\ taken'.len = n
      BY ONLY <3>2, <3>3, BufferFact
    <3> QED
      BY <3>1, <3>2, <3>4 DEF Nothing
  <2>2. CASE taken' = taken /\ result' = EXIT_FAILURE
    BY <2>2 DEF TypeOK, CallInv, EXIT_SUCCESS, EXIT_FAILURE
  <2> QED
    BY <2>1, <2>2
<1>2. TypeOK'
  BY <1>1 DEF TypeOK, CallInv, Connected
<1>3. ConfInv'
  BY DEF ConfInv, PlainPC
<1>4. CallInv'
  BY DEF TypeOK, CallInv, Before, Connected
<1>5. ReturnInv'
  BY <1>1 DEF TypeOK, ConfInv, CallInv, ReturnInv, LeakOnlyOnFailedSend, TlsStatusTruthful,
         UdpStatusTruthfulAfterFirstError, Returned, Before, Connected, PlainPC,
         EXIT_SUCCESS, EXIT_FAILURE, EIO
<1> QED
  BY <1>2, <1>3, <1>4, <1>5

LEMMA ResolveKeeps ==
    ASSUME SendInv, Resolve, UNCHANGED <<confVars, callVars>> PROVE SendInv'
<1> USE DEF SendInv, Resolve, Goto, Returns, confVars, callVars
<1>1. TypeOK'
  BY DEF TypeOK, PlainPC, EXIT_SUCCESS
<1>2. ConfInv'
  BY DEF ConfInv, PlainPC
<1>3. CallInv'
  BY DEF TypeOK, CallInv, Before, Connected
<1>4. ReturnInv'
  BY DEF TypeOK, ConfInv, CallInv, ReturnInv, LeakOnlyOnFailedSend, TlsStatusTruthful,
         UdpStatusTruthfulAfterFirstError, Returned, Before, Connected, PlainPC,
         EXIT_SUCCESS, EXIT_FAILURE, EIO
<1> QED
  BY <1>1, <1>2, <1>3, <1>4

LEMMA SocketKeeps ==
    ASSUME SendInv, Socket, UNCHANGED <<confVars, callVars>> PROVE SendInv'
<1> USE DEF SendInv, Socket, Goto, Returns, confVars, callVars
<1>1. TypeOK'
  BY DEF TypeOK, PlainPC
<1>2. ConfInv'
  BY DEF ConfInv, PlainPC
<1>3. CallInv'
  BY DEF TypeOK, CallInv, Before, Connected
<1>4. ReturnInv'
  BY DEF TypeOK, ConfInv, CallInv, ReturnInv, LeakOnlyOnFailedSend, TlsStatusTruthful,
         UdpStatusTruthfulAfterFirstError, Returned, Before, Connected, PlainPC,
         EXIT_SUCCESS, EXIT_FAILURE, EIO
<1> QED
  BY <1>1, <1>2, <1>3, <1>4

LEMMA SendToKeeps ==
    ASSUME SendInv, SendTo, UNCHANGED <<confVars, callVars>> PROVE SendInv'
<1> USE DEF SendInv, SendTo, Goto, Returns, confVars, callVars
<1>1. TypeOK'
  BY DEF TypeOK, PlainPC
<1>2. ConfInv'
  BY DEF ConfInv, PlainPC
<1>3. CallInv'
  BY DEF TypeOK, CallInv, Before, Connected, Nothing
<1>4. ReturnInv'
  BY DEF TypeOK, ConfInv, CallInv, ReturnInv, LeakOnlyOnFailedSend, TlsStatusTruthful,
         UdpStatusTruthfulAfterFirstError, Returned, Before, Connected, PlainPC,
         EXIT_SUCCESS, EXIT_FAILURE, EIO
<1> QED
  BY <1>1, <1>2, <1>3, <1>4

LEMMA CloseKeeps ==
    ASSUME SendInv, Close, UNCHANGED <<confVars, callVars>> PROVE SendInv'
<1> USE DEF SendInv, Close, Goto, Returns, confVars, callVars
<1>1. TypeOK'
  BY DEF TypeOK, CallInv, Connected, PlainPC
<1>2. ConfInv'
  BY DEF ConfInv, PlainPC
<1>3. CallInv'
  BY DEF TypeOK, CallInv, Before, Connected
<1>4. ReturnInv'
  BY DEF TypeOK, ConfInv, CallInv, ReturnInv, LeakOnlyOnFailedSend, TlsStatusTruthful,
         UdpStatusTruthfulAfterFirstError, Returned, Before, Connected, PlainPC,
         EXIT_SUCCESS, EXIT_FAILURE, EIO
<1> QED
  BY <1>1, <1>2, <1>3, <1>4

-----------------------------------------------------------------------------
(* Theorems *)

\* The inductive invariant.
THEOREM SendInvariant == Spec => []SendInv
<1>1. ASSUME SendInv, [Next]_vars
      PROVE  SendInv'
  <2>1. CASE Call
    BY <1>1, <2>1, CallKeeps
  <2>2. CASE SendStep /\ UNCHANGED <<confVars, callVars>>
    BY <1>1, <2>2, ComposeKeeps, TlsConnectKeeps, TlsWriteKeeps, ResolveKeeps, SocketKeeps,
       SendToKeeps, CloseKeeps DEF SendStep
  <2>3. CASE UNCHANGED vars
    BY <1>1, <2>3 DEF vars, confVars, callVars, SendInv, TypeOK, ConfInv, CallInv, ReturnInv,
       LeakOnlyOnFailedSend, TlsStatusTruthful, UdpStatusTruthfulAfterFirstError, Returned
  <2> QED
    BY <1>1, <2>1, <2>2, <2>3 DEF Next, Stopped
<1> QED
  BY <1>1, InitSendInv, PTL DEF Spec

\* Each variable keeps its type, whatever the configuration holds.
THEOREM SendTypeCorrect == Spec => []TypeOK
BY SendInvariant, PTL DEF SendInv

\* loadConf gives every integer of every file its meaning, although one error is
\* shared by all the keys, and every text of a file whose texts fit.
THEOREM FileLoadedAsMeant == Spec => []LoadedAsMeant
<1>1. SendInv => LoadedAsMeant
  <2> SUFFICES ASSUME file \in Files PROVE LoadedAsMeant
    BY DEF SendInv, TypeOK
  <2>1. loadConf(file).status = EXIT_SUCCESS <=> Complete(file)
    BY LoadConf
  <2>2. ASSUME Complete(file)
        PROVE  /\ \A field \in IntegerFields : loadConf(file).conf[field] = Reference(file)[field]
               /\ Fits(file) => loadConf(file).conf = Reference(file) /\ ~ loadConf(file).overrun
    BY <2>2, LoadConf, LoadedAsReference, FittingTexts
  <2> QED
    BY <2>1, <2>2 DEF LoadedAsMeant, Complete
<1> QED
  BY <1>1, SendInvariant, PTL

\* The probe never sends in the clear by a default.
THEOREM ClearOnlyOnRequest == Spec => []ClearOnlyIfAsked
<1>1. SendInv => ClearOnlyIfAsked
  <2> SUFFICES ASSUME SendInv, pc \in PlainPC PROVE ClearOnlyIfAsked
    BY DEF ClearOnlyIfAsked, PlainPC
  <2>1. protocol = Meant(file.transport_proto, 0) % 256
    <3>1. file \in Files /\ Complete(file) /\ protocol = loadConf(file).conf.transportProto
      BY DEF SendInv, TypeOK, ConfInv, PlainPC
    <3>2. loadConf(file).conf.transportProto = Reference(file).transportProto
      BY <3>1, LoadConf, LoadedAsReference DEF IntegerFields
    <3> QED
      BY <3>1, <3>2 DEF Reference
  <2> QED
    BY <2>1 DEF SendInv, ConfInv, ClearOnlyIfAsked, Meant
<1> QED
  BY <1>1, SendInvariant, PTL

\* A socket is left open by a failed sendto and by nothing else.
THEOREM OnlyFailedSendLeaks == Spec => []LeakOnlyOnFailedSend
BY SendInvariant, PTL DEF SendInv, ReturnInv

\* Over TLS a call reports success exactly when the stream took at least a part of
\* the message; not that it took the rest, nor that the Engine received it.
THEOREM TlsStatusIsTrue == Spec => []TlsStatusTruthful
BY SendInvariant, PTL DEF SendInv, ReturnInv

\* Over UDP the status of a call can lie only before the first error.
THEOREM UdpStatusIsTrueAfterError == Spec => []UdpStatusTruthfulAfterFirstError
BY SendInvariant, PTL DEF SendInv, ReturnInv
=============================================================================
