--------------------------- MODULE InferenceRegistry ---------------------------
(* The catalogue of inference/registry.py: what every known device offers and  *)
(* which configurations, of one device or two, could run a model.              *)
(* Constant-level only; CapabilityExchange holds the registries.               *)
EXTENDS Mesh

CONSTANTS
    Models,     \* names of GGUF models
    Size,       \* the memory each of them needs
    NoCap       \* nothing known of a device

(* What a device tells of itself: its usable memory and the models on its disk. *)
Capability == [memory : Nat, models : SUBSET Models]

ASSUME RegistryAssumption ==
    /\ Size \in [Models -> Nat]
    /\ NoCap \notin Capability

Registries == [caps : [Devices -> Capability \cup {NoCap}], models : SUBSET (Models \X Devices)]

EmptyRegistry == [caps |-> [e \in Devices |-> NoCap], models |-> {}]

(* update_device: what the device offered earlier and no longer does is kept.  *)
Updated(reg, e, cap) ==
    [caps |-> [reg.caps EXCEPT ![e] = cap],
     models |-> reg.models \cup {<<m, e>> : m \in cap.models}]

(* remove_device *)
Removed(reg, e) ==
    [caps |-> [reg.caps EXCEPT ![e] = NoCap],
     models |-> {x \in reg.models : x[2] # e}]

(* _compute_configs: host alone, or host and worker together, have the memory. *)
Configs(reg) ==
    LET known == {e \in Devices : reg.caps[e] # NoCap}
        hosts(m) == {e \in known : <<m, e>> \in reg.models}
    IN  {g \in [model : Models, devices : SUBSET known] :
            \E h \in hosts(g.model) :
                \/ /\ g.devices = {h}
                   /\ reg.caps[h].memory >= Size[g.model]
                \/ \E w \in known \ {h} :
                      /\ g.devices = {h, w}
                      /\ reg.caps[h].memory + reg.caps[w].memory >= Size[g.model]}
================================================================================
