----------------------------- MODULE Registers -----------------------------
(***************************************************************************)
(* The PCI register commands of testpmd: "read reg", "read regbit", "read  *)
(* regfield" and the write commands (test-pmd/config.c, cmdline.c).        *)
(* Values keep the code's shifts and masks, at a width of W bits (32 in    *)
(* the code).                                                              *)
(***************************************************************************)
EXTENDS PmdBase

CONSTANTS W,       \* bits of a register
          PciLen   \* length of the PCI resource, in bytes

ASSUME RegAssumption == W \in Nat \ {0} /\ PciLen \in Nat

VARIABLES regs,    \* per offset: the value of the register
          bits     \* history: per offset, the bits written last, as a set of positions

regvars == <<regs, bits>>

Offsets == 0 .. PciLen                       \* offsets typed
port_reg_off_is_invalid(off) == off % 4 # 0 \/ off >= PciLen
reg_bit_pos_is_invalid(b) == b > W - 1
Positions == 0 .. W                          \* bit positions typed

Low(b1, b2)  == IF b1 > b2 THEN b2 ELSE b1
High(b1, b2) == IF b1 > b2 THEN b1 ELSE b2

\* Mutant: the mask is one bit too wide.
ClearField_wide(v, l, n) == ((v \div 2^(l + n + 1)) * 2^(l + n + 1)) + (v % 2^l)

\* v & ~(mask << l), for a mask of n ones.
ClearField(v, l, n) == ((v \div 2^(l + n)) * 2^(l + n)) + (v % 2^l)

\* What the read commands print.
port_reg_bit_display(v, b) == (v \div 2^b) % 2

port_reg_bit_field_display(v, b1, b2) ==
  LET l == Low(b1, b2)  h == High(b1, b2)
  IN IF h < W - 1 THEN (v \div 2^l) % 2^(h - l + 1) ELSE v \div 2^l

port_reg_display(v) == v

\* port_reg_set and the two below write the register and change nothing else.
WriteReg(off, v, b) == /\ regs' = [regs EXCEPT ![off] = v]
                       /\ bits' = [bits EXCEPT ![off] = b]

Ones(v) == {b \in 0 .. W - 1 : (v \div 2^b) % 2 = 1}

port_reg_set(off, v) == ~port_reg_off_is_invalid(off) /\ WriteReg(off, v, Ones(v))

port_reg_bit_set(off, b, v) ==
  /\ ~port_reg_off_is_invalid(off) /\ ~reg_bit_pos_is_invalid(b) /\ v <= 1
  /\ WriteReg(off, ClearField(regs[off], b, 1) + v * 2^b, Flip(bits[off], b, v = 1))

port_reg_bit_field_set(off, b1, b2, v) ==
  LET l == Low(b1, b2)
      n == High(b1, b2) - l + 1
  IN /\ ~port_reg_off_is_invalid(off)
     /\ ~reg_bit_pos_is_invalid(b1) /\ ~reg_bit_pos_is_invalid(b2)
     /\ v <= 2^n - 1
     /\ WriteReg(off, ClearField(regs[off], l, n) + v * 2^l,
                 (bits[off] \ (l .. l + n - 1)) \union {l + b : b \in Ones(v)})

cmd_write_reg == \E off \in Offsets, v \in 0 .. 2^W - 1 : port_reg_set(off, v)
cmd_write_reg_bit == \E off \in Offsets, b \in Positions, v \in 0 .. 2 :
  port_reg_bit_set(off, b, v)
cmd_write_reg_bit_field == \E off \in Offsets, b1, b2 \in Positions, v \in 0 .. 2^W - 1 :
  port_reg_bit_field_set(off, b1, b2, v)

RegInit == /\ regs = [off \in {o \in Offsets : ~port_reg_off_is_invalid(o)} |-> 0]
           /\ bits = [off \in DOMAIN regs |-> {}]

RegNext == cmd_write_reg \/ cmd_write_reg_bit \/ cmd_write_reg_bit_field
RegSpec == RegInit /\ [][RegNext]_regvars

\* After any sequence of register, field and bit writes, a field shown by "read
\* regfield" (its ends typed in either order), a bit shown by "read regbit" and
\* the register shown by "read reg" consist of the bits written last: the shifts
\* and masks of port_reg_bit_field_set touch no bit outside the field, and the
\* display of a field that ends at the top bit needs no mask.
RegisterBits ==
  \A off \in DOMAIN regs :
    /\ Ones(port_reg_display(regs[off])) = bits[off] /\ regs[off] \in 0 .. 2^W - 1
    /\ \A b1, b2 \in 0 .. W - 1 :
         /\ port_reg_bit_display(regs[off], b1) = (IF b1 \in bits[off] THEN 1 ELSE 0)
         /\ Ones(port_reg_bit_field_display(regs[off], b1, b2)) =
              {b - Low(b1, b2) : b \in bits[off] \intersect (Low(b1, b2) .. High(b1, b2))}
=============================================================================
