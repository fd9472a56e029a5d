--------------------------- MODULE MCNacosReload ---------------------------
(* Two data-ids: batches of one or both, a channel that is told and one    *)
(* that is not.                                                            *)
EXTENDS NacosReload

TwoDataIds == <<"app", "shared">>
=============================================================================
