------------------------------ MODULE TokenClaims ------------------------------
(***************************************************************************)
(* What an access token says.  An application builds it, in C++ with the   *)
(* AccessToken itself (src/access_token.cpp) or with the builder of a      *)
(* binding, whose fields go as the options of "token" through the C ABI    *)
(* (Sign of src/c_api.cpp and src/detail/grants.inc) to the AccessToken.   *)
(* Java has names of its own, which its JNI code translates.               *)
(*                                                                         *)
(* What need not be there is a set of at most one value.  A text is a      *)
(* sequence of characters, some of which JSON has to escape.  The times of *)
(* a token are in TokenLifetime.                                           *)
(***************************************************************************)
EXTENDS Naturals, SequencesExt

CONSTANTS MaxSets,   \* how often a builder is set before it signs
          MaxText    \* the length of a text

VARIABLES binding, \* whose builder it is
          asked,   \* what it was set to, by field
          sets,    \* how often
          stage,   \* where the token is
          options, \* the JSON object the C ABI gets
          token,   \* the AccessToken
          claims   \* the JSON object it signs

vars == <<binding, asked, sets, stage, options, token, claims>>

Hosts == {"cpp", "python", "rust", "zig", "dotnet", "php", "ruby", "java"}

-------------------------------------------------------------------------------
\* The fields of the grants, by what they hold.
Flags == {"room_create", "room_list", "room_record", "room_admin", "room_join",
          "ingress_admin", "hidden", "recorder", "agent"}
Optionals == {"can_publish", "can_subscribe", "can_publish_data", "can_update_own_metadata"}
Lists == {"can_publish_sources"}
Rooms == {"room", "destination_room"}
VideoGrant == Flags \cup Optionals \cup Lists \cup Rooms
SipGrant == {"admin", "call"}
AgentGrant == {"admin", "simulation_admin"}

Fields(section) == CASE section = "video" -> VideoGrant
                     [] section = "sip" -> SipGrant
                     [] section = "agent" -> AgentGrant

\* Names of two words and more, as the claims and Java spell them.
CamelCase(f) ==
  CASE f = "room_create" -> "roomCreate" [] f = "room_list" -> "roomList"
    [] f = "room_record" -> "roomRecord" [] f = "room_admin" -> "roomAdmin"
    [] f = "room_join" -> "roomJoin" [] f = "ingress_admin" -> "ingressAdmin"
    [] f = "destination_room" -> "destinationRoom" [] f = "can_publish" -> "canPublish"
    [] f = "can_subscribe" -> "canSubscribe" [] f = "can_publish_data" -> "canPublishData"
    [] f = "can_update_own_metadata" -> "canUpdateOwnMetadata"
    [] f = "can_publish_sources" -> "canPublishSources"
    [] f = "simulation_admin" -> "simulationAdmin" [] OTHER -> f

GrantFields == VideoGrant \cup SipGrant \cup AgentGrant

SnakeCase(name) == IF \E f \in GrantFields : CamelCase(f) = name
                   THEN CHOOSE f \in GrantFields : CamelCase(f) = name ELSE name

Characters == {"a", "quote", "backslash", "newline", "control"}
Identities == UNION {[1 .. n -> Characters] : n \in 0 .. MaxText}

\* What a field of a grant may be set to, the value it has unset first.
Values(f) == IF f \in Rooms THEN <<{<<>>}, {<<"quote">>}>>
             ELSE IF f \in Lists THEN <<{<<>>}, {<< <<"quote">>, <<"a">> >>}>>
             ELSE IF f \in Optionals THEN <<{}, {TRUE}, {FALSE}>>
             ELSE <<{FALSE}, {TRUE}>>

\* A field of a grant is set, or none, or all of them.
Grants(section) ==
  LET blank == [f \in Fields(section) |-> Values(f)[1]]
  IN {[f \in Fields(section) |-> Last(Values(f))]} \cup
     UNION {{[blank EXCEPT ![f] = v] : v \in Range(Values(f))} : f \in Fields(section)}

\* An attribute may have a name that is a field of Java.
Settings(field) ==
  CASE field = "identity" -> Identities
    [] field \in {"name", "metadata"} -> {<<>>, <<"quote">>}
    [] field = "attributes" ->
         {<<>>, [k \in {"roomJoin"} |-> <<"a">>], [k \in {"video"} |-> <<"backslash">>]}
    [] OTHER -> Grants(field)

Sections == {"video", "sip", "agent"}
TokenFields == {"identity", "name", "metadata", "attributes"} \cup Sections

Init == /\ binding \in Hosts
        /\ asked = <<>> /\ sets = 0 /\ stage = "builder"
        /\ options = <<>> /\ token = <<>> /\ claims = <<>>

-------------------------------------------------------------------------------
\* A field is set, whatever it was before.
Set ==
  /\ stage = "builder" /\ sets < MaxSets /\ sets' = sets + 1
  /\ \E f \in TokenFields : \E v \in Settings(f) :
       asked' = [g \in DOMAIN asked \cup {f} |-> IF g = f THEN v ELSE asked[g]]
  /\ UNCHANGED <<binding, stage, options, token, claims>>

Goto(from, to) == stage = from /\ stage' = to /\ UNCHANGED <<binding, asked, sets>>

\* The object a binding makes of a grant: an optional field that is unset is
\* left out.
Object(grant) == [f \in {f \in DOMAIN grant : grant[f] # {}} |-> CHOOSE v \in grant[f] : TRUE]

Encoded == [f \in DOMAIN asked |-> IF f \in Sections THEN Object(asked[f]) ELSE asked[f]]

\* An object with other names for its fields.
Renamed(object, Spell(_)) ==
  [name \in {Spell(f) : f \in DOMAIN object} |->
     object[CHOOSE f \in DOMAIN object : Spell(f) = name]]

Builder == /\ binding \notin {"cpp", "java"}
           /\ Goto("builder", "native")
           /\ options' = Encoded
           /\ UNCHANGED <<token, claims>>

JavaObject(grant) == Renamed(Object(grant), CamelCase)

JavaBuilder ==
  /\ binding = "java"
  /\ Goto("builder", "jni")
  /\ options' = [f \in DOMAIN asked |-> IF f \in Sections THEN JavaObject(asked[f]) ELSE asked[f]]
  /\ UNCHANGED <<token, claims>>

\* Options of the JNI code: the names of Java become those of C++, within the
\* grants too, while the keys of the attributes stay what they are.
Options(source) ==
  [f \in DOMAIN source |-> IF f \in Sections THEN Renamed(source[f], SnakeCase) ELSE source[f]]

Jni == /\ Goto("jni", "native")
       /\ options' = Options(options)
       /\ UNCHANGED <<token, claims>>

-------------------------------------------------------------------------------
\* What Sign reads: nothing where there is no field, or false.
Has(object, f) == f \in DOMAIN object
Field(object, f) == IF Has(object, f) THEN object[f] ELSE <<>>
Boolean(object, f) == Has(object, f) /\ object[f]

\* grants.inc
Grant(section, object) ==
  [f \in Fields(section) |->
     IF f \in Flags \cup SipGrant \cup AgentGrant THEN {Boolean(object, f)}
     ELSE IF f \in Optionals THEN IF Has(object, f) THEN {Boolean(object, f)} ELSE {}
     ELSE {Field(object, f)}]

Sign ==
  /\ Goto("native", "token")
  /\ token' = [f \in TokenFields |->
                 IF f \in Sections THEN IF Has(options, f) THEN {Grant(f, options[f])} ELSE {}
                 ELSE Field(options, f)]
  /\ UNCHANGED <<options, claims>>

\* The setters, as an application in C++ calls them.
Setters ==
  /\ binding = "cpp"
  /\ Goto("builder", "token")
  /\ token' = [f \in TokenFields |->
                 IF f \in Sections THEN IF Has(asked, f) THEN {asked[f]} ELSE {}
                 ELSE Field(asked, f)]
  /\ UNCHANGED <<options, claims>>

-------------------------------------------------------------------------------
\* ToJwt

Escape(ch) == CASE ch \in {"quote", "backslash"} -> <<"backslash", ch>>
                [] ch = "newline" -> <<"backslash", "n">>
                [] ch = "control" -> <<"backslash", "u", "0", "0", "1", "f">>
                [] OTHER -> <<ch>>

EscapeJson(text) == FlattenSeq([i \in DOMAIN text |-> Escape(text[i])])

\* The fields of a grant that are claims: a flag that is set, an optional that
\* has a value, a text or a list that is not empty.
\* Mutant: an optional that is false is no claim.
StatedIfTrue(f, v) == IF f \in Rooms \cup Lists THEN v # {<<>>} ELSE v = {TRUE}

Stated(f, v) == IF f \in Rooms \cup Lists THEN v # {<<>>}
                ELSE IF f \in Optionals THEN v # {} ELSE v = {TRUE}

Json(f, v) == IF f \in Rooms THEN EscapeJson(v)
              ELSE IF f \in Lists THEN [i \in DOMAIN v |-> EscapeJson(v[i])] ELSE v

GrantJson(grant) ==
  LET stated == {f \in DOMAIN grant : Stated(f, grant[f])}
  IN Renamed([f \in stated |-> Json(f, CHOOSE v \in grant[f] : TRUE)], CamelCase)

\* The identity is the subject of the token.
ToJwt ==
  /\ Goto("token", "signed")
  /\ claims' = [f \in {f \in TokenFields :
                        IF f \in Sections THEN token[f] # {} ELSE token[f] # <<>>} |->
                  IF f \in Sections THEN GrantJson(CHOOSE g \in token[f] : TRUE)
                  ELSE IF f = "attributes" THEN [k \in DOMAIN token[f] |-> EscapeJson(token[f][k])]
                  ELSE EscapeJson(token[f])]
  /\ UNCHANGED <<options, token>>

Signed == stage = "signed" /\ UNCHANGED vars

Next == Set \/ Builder \/ JavaBuilder \/ Jni \/ Sign \/ Setters \/ ToJwt \/ Signed

Spec == Init /\ [][Next]_vars

-------------------------------------------------------------------------------
\* How JSON is read: up to a quote that is not escaped, and no raw control
\* character.
Read(text) ==
  LET from[i \in 1 .. Len(text) + 6] ==
        IF i > Len(text) THEN <<>>
        ELSE IF text[i] \in {"quote", "newline", "control"} THEN <<"malformed">>
        ELSE IF text[i] # "backslash" THEN <<text[i]>> \o from[i + 1]
        ELSE IF i = Len(text) THEN <<"malformed">>
        ELSE IF text[i + 1] = "u" THEN <<"control">> \o from[i + 6]
        ELSE <<IF text[i + 1] = "n" THEN "newline" ELSE text[i + 1]>> \o from[i + 2]
  IN from[1]

\* What a server finds in a grant, and takes an absent claim for.
Told(section, f) ==
  IF CamelCase(f) \notin DOMAIN claims[section] THEN Values(f)[1]
  ELSE LET claim == claims[section][CamelCase(f)]
       IN IF f \in Rooms THEN {Read(claim)}
          ELSE IF f \in Lists THEN {[i \in DOMAIN claim |-> Read(claim[i])]}
          ELSE {claim}

\* A token says what its builder was set to and nothing else, whatever the
\* binding: every right that was given and every right that was refused
\* ("omitted optional booleans preserve server defaults", c-abi.md), and every
\* text and attribute, which come back from their escaping.
ClaimsAsAsked == stage = "signed" =>
  /\ \A f \in {"identity", "name", "metadata"} :
       (IF f \in DOMAIN claims THEN Read(claims[f]) ELSE <<>>) = Field(asked, f)
  /\ (IF "attributes" \in DOMAIN claims
      THEN [k \in DOMAIN claims["attributes"] |-> Read(claims["attributes"][k])]
      ELSE <<>>) = Field(asked, "attributes")
  /\ \A section \in Sections :
       /\ section \in DOMAIN claims <=> section \in DOMAIN asked
       /\ section \in DOMAIN claims =>
            asked[section] = [f \in Fields(section) |-> Told(section, f)]
================================================================================
