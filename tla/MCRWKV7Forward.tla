--------------------------- MODULE MCRWKV7Forward ---------------------------
(***************************************************************************)
(* Configurations: the engine's, and others that differ in what decides    *)
(* the weights prepared and the paths taken.                               *)
(***************************************************************************)
EXTENDS RWKV7Forward

Default ==
  [orig_linear_groups |-> {"att_c2c", "ffn_key", "head"}, lowrank_weight |-> "both",
   cmix_sparse |-> "no-fc", rkv_mode |-> "off", wkv_mode |-> "fp16", ln1_tmix_fuse |-> TRUE,
   wide |-> TRUE]

ConfigsChecked ==
  {[Default EXCEPT !.lowrank_weight = w, !.wide = c] :
     w \in {"orig", "transpose", "both"}, c \in BOOLEAN}
  \cup {[Default EXCEPT !.cmix_sparse = m, !.orig_linear_groups = {"att_c2c"}] :
          m \in {"auto", "off"}}
  \cup {[Default EXCEPT !.rkv_mode = m, !.orig_linear_groups = g] :
          m \in {"on", "auto"}, g \in {{"ffn_key", "head"}, {"att_c2c", "head"}}}
  \cup {[Default EXCEPT !.ln1_tmix_fuse = FALSE, !.wkv_mode = "fp32io16"]}
=============================================================================
