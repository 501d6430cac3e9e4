----------------------------- MODULE MCAonPmic -----------------------------
(* Boards for TLC.  Voltages are in units of 10 mV; the DVC rails of the     *)
(* da9063 start at 300 mV with steps of 10 mV, its memory rail has 20 mV.    *)
EXTENDS AonPmic

MCW == 65536

Dvc(hi, step) == [min_uv |-> 30, max_uv |-> hi, step_uv |-> step, initial_benable |-> TRUE,
                  parent |-> "none", on_order |-> NoSoft, init_target_uv |-> 0, off_order |-> NoSoft]
Ldo(parent, on_order, init, off_order) ==
    [Dvc(31, 1) EXCEPT !.initial_benable = FALSE, !.parent = parent, !.on_order = on_order,
                       !.init_target_uv = init, !.off_order = off_order]
Fixed(on_order, off_order) ==
    [Ldo("none", on_order, 33, off_order) EXCEPT !.max_uv = 30, !.step_uv = 0]
Couple(a, b, hi, lo) == [id0 |-> a, id1 |-> b, max_spread |-> hi, min_spread |-> lo]
Regu(id, coupling) == [id |-> id, coupling |-> coupling]

(* one regulator with coupled rails, any voltages to start with *)
Coupled(id, coupling, start, words, fails) ==
    [regu |-> <<Regu(id, coupling)>>, i2c |-> fails, volt |-> {1}, pwr |-> {}, off |-> FALSE, words |-> words,
     start |-> start, bits |-> {TRUE}]

(* several regulators with a soft power sequence, any enable bits and GPIOs *)
(* to start with                                                            *)
Soft(regu, fails) ==
    [regu |-> regu, i2c |-> fails, volt |-> {}, pwr |-> {1, 2}, off |-> TRUE, words |-> {},
     start |-> {30}, bits |-> BOOLEAN]

Dual == <<Dvc(35, 1), Dvc(35, 1)>>
Mixed == <<Dvc(34, 1), Dvc(34, 2)>>
Triple == <<Dvc(34, 1), Dvc(34, 1), Dvc(34, 1)>>

Camera == <<Regu(<<Ldo("gpio", 2, 31, 1)>>, <<>>),
          Regu(<<Ldo("none", 1, 31, 4), Ldo("gpio", 1, 30, 4)>>, <<>>),
          Regu(<<Fixed(NoSoft, NoSoft)>>, <<>>),
          Regu(<<Fixed(0, 0)>>, <<>>)>>

MCBoards ==
    {Coupled(Dual, <<Couple(1, 2, 1, -3), Couple(2, 1, 3, -1)>>, 30..35, 30..35, FALSE),
      Coupled(Dual, <<Couple(1, 2, 1, -3), Couple(2, 1, 3, -1)>>, 30..35, 30..35, TRUE),
      Coupled(Mixed, <<Couple(1, 2, 1, -2)>>, 30..35, 30..35, FALSE),
      Coupled(<<Dvc(34, 2)>>, <<>>, 30..34, 30..34, TRUE),
      Coupled(Triple, <<Couple(1, 2, 1, -1), Couple(2, 3, 0, -2)>>, 30..34, {30, 31, 34}, FALSE),
      Soft(Camera, FALSE), Soft(Camera, TRUE),
      \* a rail whose parent is of a chip without gpio_output
      Soft(<<Regu(<<Ldo("other", 1, 31, 2), Ldo("none", 1, 31, 2)>>, <<>>),
             Regu(<<Ldo("gpio", 2, 30, 1)>>, <<>>)>>, TRUE),
      \* a regulator whose rails have another one between them
      Soft(<<Regu(<<Ldo("none", 1, 0, NoSoft), Ldo("none", 3, 0, NoSoft)>>, <<>>),
             Regu(<<Ldo("none", 2, 0, NoSoft)>>, <<>>)>>, FALSE)}
=============================================================================
