-------------------------------- MODULE Conf --------------------------------
(***************************************************************************)
(* loadConf (src/src/conf.c): from the configuration file to the fields of *)
(* Conf.  The file is what GKeyFile gives for each key: a value, or none   *)
(* (the key is missing, or its value does not parse).  A text is its       *)
(* length: strcpy copies it whole, whatever the array it is copied to      *)
(* holds, so what decides is how far it reaches.                           *)
(*                                                                         *)
(* GKeyFile reports a failure through error, and leaves alone an error     *)
(* that is already set: what a key does depends on whether the keys before *)
(* it reset error.  Two integers are narrowed to eight bits and one to 16; *)
(* probe_id keeps the 32 bits it was read with.                            *)
(***************************************************************************)
EXTENDS Integers

CONSTANTS
    Protos,      \* integers the file may hold for transport_proto
    Numbers,     \* integers it may hold for the other keys
    Texts        \* lengths of the texts it may hold

ASSUME ConfAssumption ==
    /\ Protos \subseteq Int /\ Numbers \subseteq Int
    /\ Texts \subseteq Nat \ {0}

EXIT_SUCCESS == 0
EXIT_FAILURE == 1
Loading == 2            \* loadConf has not returned yet

DefaultText == 0        \* the text the source gives a key that is missing; it fits
NoText == -1            \* the empty text of CONF_INITIALIZER
Spoiled == -2           \* what is left of a text that another was copied over

None == [ok |-> FALSE, val |-> 0]
Entries(values) == {None} \cup [ok : {TRUE}, val : values]

Files ==
    [readable : BOOLEAN,
     probe_id : Entries(Numbers), token : Entries(Texts), probe_plugin_dir : Entries(Texts),
     transport_proto : Entries(Protos), transport_message_version : Entries(Numbers),
     engine_fqdn : Entries(Texts), engine_port : Entries(Numbers)]

CONF_INITIALIZER ==
    [probeID |-> 0, enginePort |-> 0, transportProto |-> 0, transportMsgVersion |-> 0,
     probePluginDir |-> NoText, engineFQDN |-> NoText, token |-> NoText]

Width(field) == IF field = "enginePort" THEN 65536 ELSE 256

\* Where the three arrays lie, from the first of them, and the end of the
\* structure, which has one byte of padding.
Offset == [probePluginDir |-> 0, engineFQDN |-> 255, token |-> 510]
End == 536

\* The bytes of a text with its final zero, from the start of a field's array.
Bytes(field, text) == Offset[field] .. Offset[field] + text

\* A text is read back from the start of its array to its zero: it is spoiled by
\* a later text that is copied over a part of it.
strcpy(conf, field, text) ==
    [f \in DOMAIN conf |->
        IF f = field THEN text
        ELSE IF f \in DOMAIN Offset /\ Bytes(f, conf[f]) \cap Bytes(field, text) # {} THEN Spoiled
        ELSE conf[f]]

PastEnd(field, text) == {b \in Bytes(field, text) : b >= End}

\* A state of the load; past are the bytes written past the structure.
State(conf, error, status, past) ==
    [conf |-> conf, error |-> error, status |-> status, past |-> past]

Opened(f) ==
    IF f.readable THEN State(CONF_INITIALIZER, FALSE, Loading, {})
    ELSE State(CONF_INITIALIZER, TRUE, EXIT_FAILURE, {})

\* probe_id: a failure ends the load.
RequiredInteger(s, entry, field) ==
    IF s.status # Loading THEN s
    ELSE LET conf == [s.conf EXCEPT ![field] = entry.val]
         IN  IF s.error \/ ~ entry.ok THEN State(conf, TRUE, EXIT_FAILURE, s.past)
             ELSE State(conf, FALSE, Loading, s.past)

\* token: a failure ends the load.
RequiredText(s, entry, field) ==
    IF s.status # Loading THEN s
    ELSE IF ~ entry.ok THEN State(s.conf, TRUE, EXIT_FAILURE, s.past)
    ELSE State(strcpy(s.conf, field, entry.val), s.error, Loading,
               s.past \cup PastEnd(field, entry.val))

TextOf(entry) == IF entry.ok THEN entry.val ELSE DefaultText

\* Fault: error is not reset after a text with a default.
TextNoReset(s, entry, field) ==
    IF s.status # Loading THEN s
    ELSE State(strcpy(s.conf, field, TextOf(entry)), IF entry.ok THEN s.error ELSE TRUE, Loading,
               s.past \cup PastEnd(field, TextOf(entry)))

\* A text with a default: the result is looked at, not error.
Text(s, entry, field) ==
    IF s.status # Loading THEN s
    ELSE State(strcpy(s.conf, field, TextOf(entry)), IF entry.ok THEN s.error ELSE FALSE, Loading,
               s.past \cup PastEnd(field, TextOf(entry)))

\* An integer with a default: error is looked at, then reset.
Integer(s, entry, field, default) ==
    IF s.status # Loading THEN s
    ELSE State([s.conf EXCEPT ![field] = IF s.error \/ ~ entry.ok THEN default
                                         ELSE entry.val % Width(field)],
               FALSE, Loading, s.past)

loadConf(f) ==
    LET s1 == RequiredInteger(Opened(f), f.probe_id, "probeID")
        s2 == RequiredText(s1, f.token, "token")
        s3 == Text(s2, f.probe_plugin_dir, "probePluginDir")
        s4 == Integer(s3, f.transport_proto, "transportProto", 0)
        s5 == Integer(s4, f.transport_message_version, "transportMsgVersion", 2)
        s6 == Text(s5, f.engine_fqdn, "engineFQDN")
        s7 == Integer(s6, f.engine_port, "enginePort", 443)
    IN  [conf |-> s7.conf, overrun |-> s7.past # {},
         status |-> IF s7.status = Loading THEN EXIT_SUCCESS ELSE EXIT_FAILURE]

-----------------------------------------------------------------------------
(* What each key means, whatever the other keys are. *)

Meant(entry, default) == IF entry.ok THEN entry.val ELSE default

Reference(f) ==
    [probeID |-> f.probe_id.val,
     token |-> f.token.val,
     probePluginDir |-> Meant(f.probe_plugin_dir, DefaultText),
     transportProto |-> Meant(f.transport_proto, 0) % 256,
     transportMsgVersion |-> Meant(f.transport_message_version, 2) % 256,
     engineFQDN |-> Meant(f.engine_fqdn, DefaultText),
     enginePort |-> Meant(f.engine_port, 443) % 65536]

IntegerFields == {"probeID", "transportProto", "transportMsgVersion", "enginePort"}

\* Each text ends before the array that follows its own, the token's before the
\* end of the structure.
Fits(f) ==
    /\ f.token.val < End - Offset["token"]
    /\ f.probe_plugin_dir.val < Offset["engineFQDN"]
    /\ f.engine_fqdn.val < Offset["token"] - Offset["engineFQDN"]
=============================================================================
