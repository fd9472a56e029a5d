---------------------------- MODULE NacosSource ----------------------------
(***************************************************************************)
(* What a NacosConfig is built from (nacos/config.rs, format.rs): which    *)
(* sources validate accepts, what the SDK is given of them, and which      *)
(* format a content is parsed in, when it is loaded and when it is pushed. *)
(*                                                                         *)
(* An optional string is "none", "blank" (nothing but spaces), or "set";   *)
(* a data-id is "blank" or a name.                                         *)
(***************************************************************************)
EXTENDS Integers, Sequences, SequencesExt

CONSTANTS Extension   \* of each data-id; "none" without one

Filled(text) == text = "set"

Given(text) == text # "none"

-----------------------------------------------------------------------------
(* NacosSource::validate                                                   *)

ValidateDataIdList(ids) ==
  /\ ids # <<>> /\ "blank" \notin ToSet(ids)
  /\ IsInjective(ids)

AddressOK(s) ==
  /\ Filled(s.endpoint) \/ \E i \in DOMAIN s.server_addr : Filled(s.server_addr[i])
  /\ "blank" \notin ToSet(s.server_addr)

HasHttpAuth(s) == Given(s.username) \/ Given(s.password)

HasAliyunAuth(s) == Filled(s.access_key) \/ Filled(s.secret_key) \/ Filled(s.region_id)

(* Mutant of AuthOK: both ways of authentication at once.                  *)
AuthOKBoth(s) ==
  \/ Filled(s.username) /\ Filled(s.password)
  \/ /\ ~HasHttpAuth(s)
     /\ Filled(s.access_key) <=> Filled(s.secret_key)
     /\ Filled(s.region_id) => Filled(s.access_key)

(* A user that is complete ends the checks; the keys are looked at without. *)
AuthOK(s) ==
  /\ ~(HasHttpAuth(s) /\ HasAliyunAuth(s))
  /\ \/ Filled(s.username) /\ Filled(s.password)
     \/ /\ ~HasHttpAuth(s)
        /\ ~(Filled(s.region_id) /\ ~Filled(s.access_key) /\ ~Filled(s.secret_key))
        /\ Filled(s.access_key) <=> Filled(s.secret_key)

Validate(s) ==
  /\ ValidateDataIdList(s.data_id) /\ Filled(s.group)
  /\ AddressOK(s)
  /\ s.startup_timeout # 0
  /\ AuthOK(s)

-----------------------------------------------------------------------------
(* build, and what build_remote gives to the SDK                           *)

Both(x, y) == IF Given(x) /\ Given(y) THEN <<x, y>> ELSE <<>>

ClientProps(s) ==
  [endpoint |-> Filled(s.endpoint), server_addr |-> s.server_addr,
   http |-> Both(s.username, s.password), aliyun |-> Both(s.access_key, s.secret_key),
   region |-> s.region_id]

Plugins(s) ==
  {p \in {"http", "aliyun"} : Given(IF p = "http" THEN s.username ELSE s.access_key)}

(* A local environment never looks at the source of Nacos, which is <<>>   *)
(* if nacos was not called.                                                *)
Build(env, local, source) ==
  CASE env = "local" -> IF local = "none" THEN "missing" ELSE "local"
    [] env # "local" /\ source = <<>> -> "missing"
    [] OTHER -> IF Validate(source[1]) THEN "remote" ELSE "invalid"

-----------------------------------------------------------------------------
(* Formats                                                                 *)

FromContentType(type) ==
  CASE type \in {"yaml", "toml", "json", "json5", "ron"} -> type
    [] type = "properties" -> "ini"
    [] OTHER -> "none"

FromExtension(ext) ==
  CASE ext = "yml" -> "yaml"
    [] ext = "ini" -> "ini"
    [] OTHER -> FromContentType(ext)

Or(format, other) == IF format = "none" THEN other ELSE format

ResolveFormatForEntry(explicit, id, type) ==
  Or(explicit, Or(FromContentType(type), FromExtension(Extension[id])))

ExplicitFormatFor(s, id) ==
  Or(IF id \in DOMAIN s.data_id_formats THEN s.data_id_formats[id] ELSE "none", s.format)

ResolveFormat(s, id, type) == ResolveFormatForEntry(ExplicitFormatFor(s, id), id, type)

(* The formats that the listener takes along.                              *)
Listener(s) == [default_format |-> s.format, data_id_formats |-> s.data_id_formats]

NotifyFormat(l, id, type) ==
  ResolveFormatForEntry(
    Or(IF id \in DOMAIN l.data_id_formats THEN l.data_id_formats[id] ELSE "none",
       l.default_format), id, type)

-----------------------------------------------------------------------------
(* A source with an address, data-ids of its own and one way to            *)
(* authenticate, or none.                                                  *)
Usable(s) ==
  /\ s.data_id # <<>> /\ \A i, j \in DOMAIN s.data_id : s.data_id[i] = s.data_id[j] => i = j
  /\ "blank" \notin ToSet(s.data_id) \cup ToSet(s.server_addr) \cup {s.username, s.password}
  /\ s.server_addr # <<>> \/ s.endpoint = "set"
  /\ s.group = "set" /\ s.startup_timeout > 0
  /\ {f \in {"username", "password", "access_key", "secret_key", "region_id"} : s[f] = "set"}
       \in {{}, {"username", "password"}, {"access_key", "secret_key"},
            {"access_key", "secret_key", "region_id"}}

(* The credentials that a plugin of the SDK finds.                         *)
Credentials(s, p) == IF p = "http" THEN ClientProps(s).http ELSE ClientProps(s).aliyun

(* A remote environment is built from the usable sources and no others, a  *)
(* local one whatever the source is; the SDK is then given an              *)
(* address and at most one plugin, with credentials for it (but for a      *)
(* blank access_key, which validate counts as none and build_remote does   *)
(* not); and a content that is pushed is parsed as when it is loaded.      *)
SourceIsUsable(s, types) ==
  /\ \A local \in {"none", "inline", "file"} :
       /\ Build("remote", local, <<s>>) = "remote" <=> Usable(s)
       /\ Build("local", local, <<s>>) = "local" <=> local # "none"
  /\ Validate(s) =>
       /\ ClientProps(s).endpoint \/ ClientProps(s).server_addr # <<>>
       /\ s.access_key # "blank" =>
            /\ \A p, q \in Plugins(s) : p = q
            /\ \A p \in Plugins(s) : Credentials(s, p) = <<"set", "set">>
       /\ \A i \in DOMAIN s.data_id, type \in types :
            ResolveFormat(s, s.data_id[i], type) = NotifyFormat(Listener(s), s.data_id[i], type)
=============================================================================
