--------------------------- MODULE MaterialTables ---------------------------
(***************************************************************************)
(* The MySQL tables of the material lists (src/material): the columns each *)
(* is created with, the columns its rows are written under, and the fields *)
(* the rows have. The code's column names are Chinese; here they are       *)
(* translated, one name for one name.                                      *)
(***************************************************************************)
EXTENDS Naturals, Sequences, FiniteSets, SequencesExt

\* `columns`: CREATE TABLE; `names`: field -> column; `fields`: what is
\* written of each list. A table has one list (`main`) or two.
Table(columns, names, main) == [columns |-> columns, names |-> names, fields |-> [main |-> main, tubi |-> main]]

\* Process.
gy_list_measured ==
  [Table(<<"reference", "code", "type", "part", "DN_main", "DN_branch", "material", "RCC_M", "SCH_main", "SCH_branch",
           "made", "joined", "standard", "unit_kg", "total_kg", "quantity", "unit">>,
         [id |-> "reference", code |-> "code", noun |-> "type"], <<"id", "code", "noun">>)
     EXCEPT !.fields.tubi = <<"id", "code", "noun", "length">>]
gy_list == [gy_list_measured EXCEPT !.names =
              [id |-> "reference", code |-> "code", noun |-> "type", count |-> "quantity", length |-> "quantity"]]
gy_equi ==
  Table(<<"reference", "tag", "room", "nozzles", "nozzle_positions", "connected_pipes">>,
        [id |-> "reference", name |-> "tag", room_code |-> "room", nozz_name |-> "nozzles",
         nozz_pos |-> "nozzle_positions", nozz_cref |-> "connected_pipes"],
        <<"id", "name", "room_code", "nozz_name", "nozz_pos", "nozz_cref">>)
gy_valv ==
  Table(<<"reference", "valve", "room", "belongs_to", "length", "weight", "X", "Y", "Z", "support">>,
        [id |-> "reference", valv_name |-> "valve", room_code |-> "room", valv_belong |-> "belongs_to", valv_length |-> "length",
         valv_weight |-> "weight", valv_x |-> "X", valv_y |-> "Y", valv_z |-> "Z", valv_supp |-> "support"],
        <<"id", "valv_name", "room_code", "valv_belong", "valv_length", "valv_weight", "valv_x", "valv_y", "valv_z", "valv_supp">>)

\* Instrumentation.
inst_list ==
  Table(<<"reference", "code", "article", "size", "joined", "material", "RCC-M", "quality", "seismic", "remark", "internal_code", "DN">>,
        [id |-> "reference", code |-> "code", type |-> "article"], <<"id", "code", "type">>)
inst_pipe ==
  Table(<<"reference", "sensor", "root_valve", "room">>,
        [id |-> "reference", name |-> "sensor", pipe_name |-> "root_valve", room_code |-> "room"], <<"id", "name", "pipe_name", "room_code">>)
inst_equi ==
  Table(<<"reference", "tag", "room", "height", "height_above_floor">>,
        [id |-> "reference", equi_name |-> "tag", room_code |-> "room", pos |-> "height", floor_height |-> "height_above_floor"],
        <<"id", "equi_name", "room_code", "pos", "floor_height">>)

\* Ventilation: the rows have the names of the columns already.
hvac_names ==
  [id |-> "reference", bran_seg_code |-> "segment", material |-> "material", pressure_level |-> "pressure", w |-> "width",
   h |-> "height", x |-> "X", y |-> "Y", z |-> "Z", thickness |-> "thickness", area |-> "area", weight |-> "weight",
   stif_sctn |-> "stiffener", stif_len |-> "stiffener_length", stif_wei |-> "stiffener_weight", flan_steel |-> "flange",
   flan_length |-> "flange_length", flan_weight |-> "flange_weight", gask_size |-> "gasket", shim_width |-> "gasket_length",
   bolt_count |-> "bolts", other_material_type |-> "other", other_material_count |-> "others", screw |-> "screws",
   nut_count |-> "nuts", gask_count |-> "gaskets", room_num |-> "room"]
hvac_columns ==
  <<"reference", "segment", "material", "pressure", "width", "height", "thickness", "area", "weight", "stiffener",
    "stiffener_length", "stiffener_weight", "flange", "flange_length", "flange_weight", "gasket", "gasket_length", "bolts",
    "other", "others", "screws", "nuts", "room">>
hvac_pipe == Table(hvac_columns, [c \in ToSet(hvac_columns) |-> c], hvac_columns)

\* Electrical.
elec_list ==
  Table(<<"reference", "unit_no", "project", "project_name", "major", "room", "tray", "height_above", "tray_type", "support",
          "standard", "item", "material", "width", "height", "size", "painted", "colour", "cover", "partition", "partition_no",
          "partition_shared_with", "direction", "unit", "quantity">>,
        [id |-> "reference", num |-> "unit_no", project_num |-> "project", project_name |-> "project_name", major |-> "major",
         room_code |-> "room", name |-> "tray", pos |-> "height_above", bran_type |-> "tray_type", supp_name |-> "support",
         stander_num |-> "standard", item_num |-> "item", material |-> "material", width |-> "width", height |-> "height",
         size_num |-> "size", b_painting |-> "painted", painting_color |-> "colour", b_cover |-> "cover", b_partition |-> "partition",
         partition_num |-> "partition_no", spre |-> "spre", catr |-> "catr", horizontal_or_vertical |-> "direction", unit |-> "unit",
         count |-> "quantity"],
        <<"id", "num", "project_num", "project_name", "major", "room_code", "name", "pos", "bran_type", "supp_name", "stander_num",
          "item_num", "material", "width", "height", "size_num", "b_painting", "painting_color", "b_cover", "b_partition",
          "partition_num", "horizontal_or_vertical", "unit", "count">>)
tx_list ==
  Table(<<"reference", "tag", "description", "factory", "room", "X", "Y", "Z", "model">>,
        [id |-> "reference", equi_name |-> "tag", ptre_desc |-> "description", belong_factory |-> "factory", room_code |-> "room",
         x |-> "X", y |-> "Y", z |-> "Z", ptre_name |-> "model"],
        <<"id", "equi_name", "ptre_desc", "belong_factory", "room_code", "x", "y", "z", "ptre_name">>)

\* Water, equipment, heating.
gps_list ==
  Table(<<"reference", "code", "article", "SCH_main", "SCH_branch", "made", "joined", "grade", "material_standard", "size_standard",
          "RCC_M", "quality", "DN_main", "DN_branch", "diameter", "length", "thickness", "quantity">>,
        [id |-> "reference", code |-> "code", type |-> "article", radius |-> "diameter", length |-> "length", thick |-> "thickness",
         count |-> "quantity"],
        <<"id", "code", "type", "radius", "length", "thick", "count">>)
sb_list ==
  Table(<<"reference", "tag", "room", "rail_length", "height">>,
        [id |-> "reference", name |-> "tag", room_code |-> "room", length |-> "rail_length", pos |-> "height"],
        <<"id", "name", "room_code", "length", "pos">>)
nt_valv ==
  Table(<<"reference", "valve", "room", "belongs_to", "size", "material", "use">>,
        [id |-> "reference", name |-> "valve", room_code |-> "room", bran_name |-> "belongs_to", valv_size |-> "size",
         material |-> "material", valv_use |-> "use"],
        <<"id", "name", "room_code", "bran_name", "valv_size", "material", "valv_use">>)

Tables ==
  [material_gy_list |-> gy_list, material_gy_equi |-> gy_equi, material_gy_valv |-> gy_valv, material_inst_list |-> inst_list,
   material_inst_pipe |-> inst_pipe, material_inst_equi |-> inst_equi, material_hvac_pipe |-> hvac_pipe,
   material_elec_list |-> elec_list, material_tx_list |-> tx_list, material_gps_list |-> gps_list, material_sb_list |-> sb_list,
   material_nt_valv |-> nt_valv]

(***************************************************************************)
(* The rows of the functions.                                              *)
(***************************************************************************)
Segment == {"id", "bran_seg_code", "pressure_level", "stif_sctn", "stif_len", "stif_wei", "other_material_count", "screw",
            "nut_count", "material"}
Duct == Segment \union {"w", "h", "thickness", "area", "weight", "flan_steel", "flan_length", "flan_weight", "gask_size",
                        "shim_width", "bolt_count", "room_num"}
\* The standard, the unit and the item of a row whose specification is in the
\* sheet of electrical materials.
get_dq_value_from_material(row) ==
  IF row \intersect {"spre", "catr"} # {} THEN row \union {"stander_num", "unit", "item_num"} ELSE row
Tray == {"id", "num", "project_num", "major", "room_code", "material", "spre", "catr"}
FieldsOf(fn) ==
  CASE fn = "gy_bend" -> {"id", "code", "noun", "length"}
    [] fn = "gy_tubi" -> {"id", "code", "noun", "length"}
    [] fn = "gy_part" -> {"id", "code", "noun"}
    [] fn = "gy_equip" -> ToSet(gy_equi.fields.main)
    [] fn = "gy_valve" -> ToSet(gy_valv.fields.main)
    [] fn = "yk_dzcl" -> {"id", "code", "type"}
    [] fn = "yk_ybgd" -> ToSet(inst_pipe.fields.main)
    [] fn = "yk_equi" -> ToSet(inst_equi.fields.main)
    [] fn = "dq_bran" -> get_dq_value_from_material(Tray \union
         {"name", "pos", "bran_type", "width", "height", "size_num", "b_painting", "painting_color", "b_cover", "b_partition",
          "partition_num", "horizontal_or_vertical"})
    [] fn = "dq_stru" -> get_dq_value_from_material(Tray \union {"project_name", "supp_name", "size_num", "count"})
    [] fn = "dq_gensec" -> get_dq_value_from_material(Tray \union {"project_name", "name", "pos", "length"})
    [] fn = "tx_sb" -> ToSet(tx_list.fields.main)
    [] fn \in {"gps_bend", "gps_redu", "gps_tubi"} -> {"id", "code", "type", "radius", "length"}
    [] fn \in {"gps_elbo", "gps_tee"} -> {"id", "code", "type", "radius"}
    [] fn = "gps_flan" -> {"id", "code", "type", "radius", "thick"}
    [] fn = "eq_dz" -> ToSet(sb_list.fields.main)
    [] fn = "nt_valv" -> ToSet(nt_valv.fields.main)
    [] fn = "fggd_STIF" -> Segment
    [] OTHER -> Duct
\* Every field of a ventilation row under the name of its column; a field
\* without one is left out, and a row gets an empty version_tag.
change_hvac_result_to_map(row) == {hvac_names[f] : f \in row \intersect DOMAIN hvac_names} \union {"version_tag"}
RowOf_(table, fn) == IF table = "material_hvac_pipe" THEN change_hvac_result_to_map(FieldsOf(fn)) ELSE FieldsOf(fn)

(***************************************************************************)
(* The INSERT. A field without a column name is left out of the columns    *)
(* and not out of the values.                                              *)
(***************************************************************************)
Written(t, list) == ToSet(t.fields[list]) \intersect DOMAIN t.names
\* MySQL takes it if there are as many columns as values and the columns are
\* there, once each.
Accepted(table, list) ==
  LET t == Tables[table] fs == t.fields[list]
  IN /\ ToSet(fs) \subseteq Written(t, list)
     /\ \A i \in DOMAIN fs : t.names[fs[i]] \in ToSet(t.columns)
     /\ \A i, j \in DOMAIN fs : t.names[fs[i]] = t.names[fs[j]] => i = j
\* The columns of a row that are not empty.
Cells(table, list, fn) ==
  LET t == Tables[table] IN {t.names[f] : f \in Written(t, list) \intersect RowOf_(table, fn)}
=============================================================================
