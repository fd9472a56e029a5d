----------------------------- MODULE MCHelpers -----------------------------
(* Helpers that share no state, in one run: an application either opens a  *)
(* remote archive, decrypts a buffer, gives a source to the configuration  *)
(* or works on a table.                                                    *)
EXTENDS HttpZip, Ciphers, NacosSource, Sql

CONSTANTS Paddings, Buffers, Bytes

ASSUME BufferAssumption == Paddings \subseteq Nat /\ Buffers \subseteq Seq(Byte)

VARIABLES call,   \* the call of a cipher, or the source of a configuration
          data,   \* its ciphertext, or the text for GCM
          part

vars == <<zipVars, call, data, sqlVars, part>>

Packed(method, packed, plain, note, before, after) ==
  [method |-> method, packed |-> packed, plain |-> plain, name |-> 5, local |-> 7,
   note |-> note, before |-> before, after |-> after]

(* Small and with sizes at and above the sentinel, 100; with and without a *)
(* comment of the file and other extra blocks.                             *)
Files == {Packed("store", 0, 0, 0, <<>>, <<>>),
          Packed("store", 101, 101, 3, <<4>>, <<>>),
          Packed("deflate", 120, 100, 0, <<>>, <<9>>),
          Packed("other", 99, 99, 2, <<>>, <<>>)}

MCArchives ==
  [files : {<<>>} \cup {<<f, g>> : f, g \in Files} \cup {<<f>> : f \in Files},
   comment : {0, 24, 25, 44, 45}, trailer : {0, 6}, force : {{}, {"size"}, {"offset"}}]

(* Without and with a LIMIT and an OFFSET that count and paginate drop.    *)
MCSelect ==
  {[names |-> Name, limit |-> Unset, offset |-> Unset],
   [names |-> {"a", "b"}, limit |-> 1, offset |-> 1]}

MCBuffers == UNION {[1..n -> Bytes] : n \in 0..4}

(* All sizes in range, just outside and zero; then keys of all lengths, and *)
(* two keys, nonces and aads of a length.                                  *)
MCGcmCalls ==
  LET sizes == {0} \cup 11..17
  IN  GcmCalls([len : {16}, id : {1}], [nonce_size : sizes, tag_size : sizes],
               [len : 11..17, id : {1}], {1})
        \cup GcmCalls([len : {0, 16, 24, 32}, id : {1, 2}], [nonce_size : {0}, tag_size : {0}],
                      [len : {12, 16}, id : {1, 2}], {1, 2})

MCTexts == {<<>>, <<<<1>>>>, <<<<1>>, <<2>>>>}

Texts == {"none", "blank", "set"}

(* Every way to authenticate, and every other fault one at a time; formats *)
(* for all data-ids and for one.                                           *)
MCSources ==
  LET base == [server_addr |-> <<"set">>, endpoint |-> "none", data_id |-> <<"app.yml", "shared">>,
               group |-> "set", startup_timeout |-> 1, format |-> "none", data_id_formats |-> <<>>,
               username |-> "none", password |-> "none", access_key |-> "none",
               secret_key |-> "none", region_id |-> "none"]
  IN  {[base EXCEPT !.username = u, !.password = w, !.access_key = a, !.secret_key = k,
                    !.region_id = r] : u, w, a, k, r \in Texts}
      \cup {[base EXCEPT !.data_id = ids, !.server_addr = addrs, !.endpoint = e, !.group = g,
                        !.startup_timeout = t] :
               ids \in {<<>>, <<"shared">>, <<"shared", "shared">>, <<"blank", "shared">>},
               addrs \in {<<>>, <<"set", "blank">>, <<"set", "set">>},
               e \in Texts, g \in {"blank", "set"}, t \in 0..1}
      \cup {[base EXCEPT !.format = f, !.data_id_formats = fs] :
               f \in {"none", "json"}, fs \in {<<>>, [d \in {"shared"} |-> "ron"]}}

MCExtension == [d \in {"app.yml", "shared"} |-> IF d = "shared" THEN "none" ELSE "yml"]

(* Where the table is not the subject, it is one of PostgreSQL.            *)
Init ==
  /\ ZipInit
  /\ call = <<>>
  /\ data = <<>>
  /\ SqlInit
  /\ part \in {"zip", "cipher", "source", "sql"}
  /\ part # "sql" => backend = "pgsql"

DecryptCall ==
  /\ call = <<>>
  /\ \/ call' \in Calls(Paddings) /\ data' \in Buffers
     \/ call' \in MCGcmCalls /\ data' \in MCTexts

SourceGiven == call = <<>> /\ call' \in MCSources /\ UNCHANGED data

(* An entry was read, or an error returned; a buffer was decrypted, or a   *)
(* source validated; no call is left.                                      *)
Finished ==
  /\ CASE part = "zip" -> pc \in {"read", "failed", "opened"}
       [] part \in {"cipher", "source"} -> call # <<>>
       [] part = "sql" -> begun = MaxCalls /\ \A c \in Client : query[c].op # "page"
  /\ UNCHANGED vars

Next ==
  \/ /\ UNCHANGED part
     /\ \/ part = "zip" /\ ZipNext /\ UNCHANGED <<call, data, sqlVars>>
        \/ part = "cipher" /\ DecryptCall /\ UNCHANGED <<zipVars, sqlVars>>
        \/ part = "source" /\ SourceGiven /\ UNCHANGED <<zipVars, sqlVars>>
        \/ part = "sql" /\ SqlNext /\ UNCHANGED <<zipVars, call, data>>
  \/ Finished

Spec == Init /\ [][Next]_vars

(* Decryption in every block mode accepts what encryption makes, nothing   *)
(* else, and gives the text back (Inverts); so does AES-GCM, for calls     *)
(* with the same key, nonce, aad and sizes (GcmInverts).                   *)
DecryptIsInverse ==
  part = "cipher" /\ call # <<>> =>
    IF call.alg = "aes_gcm" THEN GcmInverts(call, data, MCGcmCalls)
    ELSE Inverts(call, data, Paddings)

(* What validate accepts can be used, whatever order its checks come in    *)
(* (SourceIsUsable), and pushed contents are parsed like loaded ones.      *)
AcceptedIsUsable ==
  part = "source" /\ call # <<>> => SourceIsUsable(call, {"text", "yaml", "properties"})
=============================================================================
