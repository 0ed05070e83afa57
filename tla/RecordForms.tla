---------------------------- MODULE RecordForms ----------------------------
(***************************************************************************)
(* The nine record forms: the control that edits each field, and what      *)
(* becomes of the field's value between the form and the row.              *)
(*                                                                         *)
(* A value is a set of items: a text or a number is {} when empty or holds *)
(* one item, a list holds what was picked.  Null is the column's NULL and  *)
(* Omit a field the request leaves out.  {Junk} is a text that is no JSON, *)
(* {Text} a JSON string where the column should hold an object.            *)
(*                                                                         *)
(* A policy says how the form puts the field in its request:               *)
(*   send   the value as it is                                             *)
(*   skip   left out when empty                                            *)
(*   keep   left out when the row had NULL and nothing was picked          *)
(*   null   NULL when empty                                                *)
(*   json   left out when empty or no JSON                                 *)
(*   json!  as json, but what is no JSON fails the save                    *)
(*   guitar as null, and left out unless the gear is a guitar              *)
(*   slot   as guitar, and NULL when the pickup configuration has no slot  *)
(* and a store how the service takes it from there:                        *)
(*   sent           as sent; a field left out is NULL in a new row         *)
(*   coalesce       in a change, a NULL is a field left out                *)
(*   dropped        the table has no such column                           *)
(*   encoded        an object becomes a JSON string                        *)
(*   encoded anew   as encoded in a new row, as sent in a change           *)
(***************************************************************************)
CONSTANTS Null, Omit, Junk, Text

All(x, names) == [n \in names |-> x]

\* The first of two functions where it is defined, the second elsewhere.
f ++ g == [n \in DOMAIN f \cup DOMAIN g |-> IF n \in DOMAIN f THEN f[n] ELSE g[n]]

BrandControls ==
    All("text", {"legal_name", "brand_name", "website", "founder", "years", "description"})
    ++ All("pick", {"entity_type_id"})
ModelControls ==
    All("text", {"model_name", "creator", "years_active", "links", "description",
                 "recording_notes", "artist_reference"})
    ++ All("json", {"attributes"}) ++ All("brand", {"brand_id"})
    ++ All("picks", {"model_type_ids"})
EffectControls ==
    All("text", {"effect_name", "version", "collection", "description",
                 "workflow_notes", "recording_notes", "artist_reference"})
    ++ All("json", {"attributes"}) ++ All("brand", {"brand_id"})
    ++ All("models", {"model_ids"}) ++ All("parents", {"parent_ids"})
    ++ All("picks", {"effect_type_ids", "tool_type_ids", "plugin_format_ids", "tag_ids",
                     "disk_paths"})
InstrumentControls ==
    All("text", {"instrument_name", "version", "description", "instrument_notes",
                 "recording_notes", "artist_reference"})
    ++ All("json", {"attributes"}) ++ All("brand", {"brand_id"})
    ++ All("models", {"model_ids"}) ++ All("parents", {"parent_ids"})
    ++ All("picks", {"instrument_type_ids", "tool_type_ids", "plugin_format_ids", "tag_ids",
                     "disk_paths"})
LibraryControls ==
    All("text", {"library_name", "description", "instrument_notes", "recording_notes",
                 "workflow_notes"})
    ++ All("json", {"attributes"}) ++ All("brand", {"brand_id"})
    ++ All("models", {"model_ids"}) ++ All("parents", {"parent_ids"})
    ++ All("picks", {"tag_ids", "disk_paths"})
ToolControls ==
    All("text", {"tool_name", "version", "description", "workflow_notes"})
    ++ All("brand", {"brand_id"}) ++ All("models", {"model_ids"})
    ++ All("picks", {"tool_type_ids", "plugin_format_ids", "tag_ids", "disk_paths"})
WorkstationControls ==
    All("text", {"tool_name", "version", "description", "workflow_notes"})
    ++ All("brand", {"brand_id"})
    ++ All("picks", {"tool_type_ids", "plugin_format_ids", "tag_ids", "disk_paths"})
ConfigControls == All("text", {"type_name", "type_description"})
GearControls ==
    All("text", {"gear_name", "serial_number", "year", "notes", "num_strings", "tuning"})
    ++ All("pick", {"gear_type_id", "pickup_config"})
    ++ All("model", {"model_id", "brand_id", "strings_model_id", "pickup_neck_model_id",
                     "pickup_middle_model_id", "pickup_bridge_model_id"})

-----------------------------------------------------------------------------
BrandPolicy == [n \in DOMAIN BrandControls |-> IF n = "brand_name" THEN "send" ELSE "skip"]
ModelPolicy == [n \in DOMAIN ModelControls |-> IF n = "attributes" THEN "json" ELSE "skip"]
EffectPolicy ==
    All("skip", {"effect_name", "brand_id", "effect_type_ids", "tool_type_ids",
                 "plugin_format_ids", "tag_ids"})
    ++ All("json", {"attributes"})
    ++ [n \in DOMAIN EffectControls |-> "send"]
InstrumentPolicy ==
    All("skip", {"instrument_name", "brand_id", "instrument_type_ids", "tool_type_ids",
                 "plugin_format_ids", "tag_ids"})
    ++ All("null", {"artist_reference"}) ++ All("json", {"attributes"})
    ++ [n \in DOMAIN InstrumentControls |-> "send"]
LibraryPolicy ==
    All("skip", {"library_name", "brand_id", "tag_ids"})
    ++ All("null", {"workflow_notes"}) ++ All("json!", {"attributes"})
    ++ [n \in DOMAIN LibraryControls |-> "send"]
ToolPolicy ==
    All("keep", {"model_ids"}) ++ All("send", {"disk_paths"})
    ++ [n \in DOMAIN ToolControls |-> "skip"]
WorkstationPolicy ==
    All("send", {"version", "description", "workflow_notes", "disk_paths"})
    ++ [n \in DOMAIN WorkstationControls |-> "skip"]
ConfigPolicy == [n \in DOMAIN ConfigControls |-> "skip"]
GearPolicy ==
    All("skip", {"gear_name", "gear_type_id"})
    ++ All("null", {"brand_id", "model_id", "serial_number", "year", "notes"})
    ++ All("guitar", {"num_strings", "tuning", "pickup_config", "strings_model_id"})
    ++ [n \in DOMAIN GearControls |-> "slot"]

-----------------------------------------------------------------------------
\* The handlers that create and change the rows.  All but models.py encode the
\* attributes of a new row only; every table but three of the tools has models.
BrandStore == All("sent", DOMAIN BrandControls)
ModelStore == All("encoded", {"attributes"}) ++ All("sent", DOMAIN ModelControls)
EffectStore == All("encoded anew", {"attributes"}) ++ All("sent", DOMAIN EffectControls)
InstrumentStore == All("encoded anew", {"attributes"}) ++ All("sent", DOMAIN InstrumentControls)
LibraryStore == All("encoded anew", {"attributes"}) ++ All("sent", DOMAIN LibraryControls)
\* Of the five categories of tools two have models.
HasModelIds ==
    All(TRUE, {"measurement", "reference"}) ++ All(FALSE, {"workflow", "composition", "admin"})
ToolStore(has_model_ids) ==
    All(IF has_model_ids THEN "sent" ELSE "dropped", {"model_ids"})
    ++ All("sent", DOMAIN ToolControls)
WorkstationStore == All("sent", DOMAIN WorkstationControls)
ConfigStore == All("sent", DOMAIN ConfigControls)
GearStore == All("coalesce", DOMAIN GearControls)

\* What a save can depend on: the field's control, its policy and its store.
Field(controls, policy, store) ==
    {[control |-> controls[n], policy |-> policy[n], store |-> store[n]] :
        n \in DOMAIN controls}

Fields ==
    UNION ({Field(BrandControls, BrandPolicy, BrandStore),
            Field(ModelControls, ModelPolicy, ModelStore),
            Field(EffectControls, EffectPolicy, EffectStore),
            Field(InstrumentControls, InstrumentPolicy, InstrumentStore),
            Field(LibraryControls, LibraryPolicy, LibraryStore),
            Field(WorkstationControls, WorkstationPolicy, WorkstationStore),
            Field(ConfigControls, ConfigPolicy, ConfigStore),
            Field(GearControls, GearPolicy, GearStore)}
        \cup {Field(ToolControls, ToolPolicy, ToolStore(HasModelIds[category])) :
                  category \in DOMAIN HasModelIds})

-----------------------------------------------------------------------------
\* Mutant: a list of models is not loaded into the form.
ToFormForgets(f, value) == IF value = Null \/ f.control = "models" THEN {} ELSE value

\* The form shows NULL as empty; a tool's models keep the difference.
ToForm(f, value) == IF value = Null /\ f.policy # "keep" THEN {} ELSE value

OrNull(value) == IF value = {} THEN Null ELSE value

\* Mutant: text that is no JSON is sent as it was typed.
PayloadUnparsed(f, value, guitar, slot) ==
    CASE f.policy \in {"skip", "json", "json!"} -> IF value = {} THEN Omit ELSE value
      [] f.policy = "keep" -> IF value = Null THEN Omit ELSE value
      [] f.policy = "null" -> OrNull(value)
      [] f.policy = "guitar" -> IF guitar THEN OrNull(value) ELSE Omit
      [] f.policy = "slot" -> IF ~guitar THEN Omit ELSE IF slot THEN OrNull(value) ELSE Null
      [] OTHER -> value

\* Mutant: a pickup is sent when its slot is missing.
PayloadSlotSwapped(f, value, guitar, slot) ==
    CASE f.policy = "skip" -> IF value = {} THEN Omit ELSE value
      [] f.policy \in {"json", "json!"} -> IF value \in {{}, {Junk}} THEN Omit ELSE value
      [] f.policy = "keep" -> IF value = Null THEN Omit ELSE value
      [] f.policy = "null" -> OrNull(value)
      [] f.policy = "guitar" -> IF guitar THEN OrNull(value) ELSE Omit
      [] f.policy = "slot" -> IF ~guitar THEN Omit ELSE IF slot THEN Null ELSE OrNull(value)
      [] OTHER -> value

\* buildPayload, for one field: guitar and slot say whether the form's gear is a
\* guitar, and whether its pickup configuration has the field's slot.
Payload(f, value, guitar, slot) ==
    CASE f.policy = "skip" -> IF value = {} THEN Omit ELSE value
      [] f.policy \in {"json", "json!"} -> IF value \in {{}, {Junk}} THEN Omit ELSE value
      [] f.policy = "keep" -> IF value = Null THEN Omit ELSE value
      [] f.policy = "null" -> OrNull(value)
      [] f.policy = "guitar" -> IF guitar THEN OrNull(value) ELSE Omit
      [] f.policy = "slot" -> IF ~guitar THEN Omit ELSE IF slot THEN OrNull(value) ELSE Null
      [] OTHER -> value

\* A save whose attributes are no JSON throws before it is sent, in the library form.
Throws(f, value) == f.policy = "json!" /\ value = {Junk}

\* An object is encoded once by the handler and once more by the connection's codec.
Encodes(f, new) == f.store = "encoded" \/ (f.store = "encoded anew" /\ new)

\* The field of a row made (new) or changed by a request; old is its value before.
Stored(f, new, old, sent) ==
    CASE \/ sent = Omit \/ f.store = "dropped"
         \/ sent = Null /\ f.store = "coalesce" -> IF new THEN Null ELSE old
      [] sent \notin {Null, Omit} /\ Encodes(f, new) -> {Text}
      [] OTHER -> sent

=============================================================================
