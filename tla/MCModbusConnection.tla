------------------------ MODULE MCModbusConnection ------------------------
(* Forms for checking ModbusConnection with TLC. *)
EXTENDS ModbusConnection

Form(unit, entity, function, little, base, length) ==
    [unit |-> unit, entity |-> entity, function |-> function,
     little |-> little, base |-> base, length |-> length]

Read(base, length)  == Form(1, "HoldingRegister", "read", FALSE, base, length)
Write(base, length) == Form(1, "HoldingRegister", "multiple", FALSE, base, length)

\* Writes with neighbours on both sides, and two neighbouring reads.
CombinableForms == {Read(2, 1), Read(3, 1), Write(3, 2), Write(2, 1), Write(5, 1)}

\* Two neighbouring registers written with function 6, the default for a
\* payload of one register.
SingleForms ==
    {Form(1, "HoldingRegister", "single", FALSE, 2, 1),
     Form(1, "HoldingRegister", "single", FALSE, 3, 1)}
=============================================================================
