---------------------------- MODULE CompiledOps ----------------------------
(***************************************************************************)
(* compiler/alu.c, cb_prefix.c and reg_loads.c: the 68000 code of the GB   *)
(* instructions that work on 8-bit registers.  B and D live in the upper   *)
(* halves of D5 and D6 (00BB00CC, 00DD00EE), H and L together in A2, so    *)
(* what the source spells out per opcode is a family per kind of register. *)
(* Registers are numbered as in the opcodes: b c d e h l (hl) a.           *)
(***************************************************************************)
EXTENDS JitHelpers

READ_BYTE(m, src, off) == dmg_read(m, Wrap16(src + off))

insn_length(op) ==
    IF op \in {1, 8, 17, 33, 49, 194, 195, 196, 202, 204, 205, 210, 212, 218, 220, 234, 250}
    THEN 3
    ELSE IF op \in {6, 14, 22, 30, 38, 46, 54, 62, 16, 24, 32, 40, 48, 56, 198, 203, 206,
                    214, 222, 224, 230, 232, 238, 240, 246, 248, 254}
    THEN 2 ELSE 1

daa_tracked_op(op) == op \in 128..159 \/ op \in {60, 61, 198, 206, 214, 222}

daa_scan_barrier(op) ==
    op \in {16, 24, 32, 40, 48, 56, 118, 192, 194, 195, 196, 199, 200, 201, 202, 204, 205, 207,
            208, 210, 212, 215, 216, 217, 218, 220, 223, 231, 233, 239, 247, 255}

(* FALSE when a later ALU operation sets the DAA state again before it     *)
(* can be seen.                                                            *)
daa_track_needed(m, src, from) ==
    LET needed[off \in 0..258] ==
            LET op == READ_BYTE(m, src, off)
            IN  \/ off >= 256
                \/ op = 39
                \/ ~daa_tracked_op(op) /\ (daa_scan_barrier(op) \/ needed[off + insn_length(op)])
    IN  needed[from]

\* what a tracked operation records: the old A, and N
track_daa(n, track) ==
    IF ~track THEN <<>>
    ELSE emit_move_b_dn_disp_an(REG_A, JIT_CTX_DAA_STATE, CTX) \o emit_moveq_dn(SCRATCH_0, n)
         \o emit_move_b_dn_disp_an(SCRATCH_0, JIT_CTX_DAA_STATE + 1, CTX)
compile_daa_track_add(track) == track_daa(0, track)
compile_daa_track_sub(track) == track_daa(1, track)

compile_daa ==
    LET old_nibble == emit_move_b_disp_an_dn(JIT_CTX_DAA_STATE, CTX, SCRATCH_0)
                      \o emit_andi_b_dn(SCRATCH_0, 15) \o emit_cmp_b_dn_dn(SCRATCH_0, SCRATCH_1)
        add_60 == emit_addi_b_dn(REG_A, 96) \o emit_ori_b_dn(FLAGS, 1)
        test_99 == emit_cmp_b_imm_dn(REG_A, 153) \o Branch("ls", Len(add_60))
        add_6 == emit_addi_b_dn(REG_A, 6)
        addition == emit_btst_imm_dn(0, FLAGS) \o patch_branch("ne", test_99) \o add_60
                    \o old_nibble
                    \o Fork("cc", add_6,
                            emit_cmp_b_imm_dn(SCRATCH_1, 9) \o patch_branch("ls", add_6))
        subtraction == emit_btst_imm_dn(0, FLAGS)
                       \o patch_branch("eq", emit_subi_b_dn(REG_A, 96))
                       \o old_nibble \o patch_branch("ls", emit_subi_b_dn(REG_A, 6))
    IN  emit_move_b_dn_dn(REG_A, SCRATCH_1) \o emit_andi_b_dn(SCRATCH_1, 15)
        \o emit_move_b_disp_an_dn(JIT_CTX_DAA_STATE + 1, CTX, SCRATCH_0) \o emit_tst_b_dn(SCRATCH_0)
        \o Fork("ne", addition, subtraction)
        \o emit_andi_b_dn(FLAGS, 1) \o emit_tst_b_dn(REG_A)
        \o patch_branch("ne", emit_ori_b_dn(FLAGS, 4))

\* both operands zero-extended, A in D0
widen_operands == emit_andi_w_dn(SCRATCH_1, 255) \o emit_moveq_dn(SCRATCH_0, 0)
                  \o emit_move_b_dn_dn(REG_A, SCRATCH_0)
if_carry(code) == emit_btst_imm_dn(0, FLAGS) \o patch_branch("eq", code)
store_and_capture_z == emit_move_b_dn_dn(SCRATCH_0, REG_A) \o emit_tst_b_dn(REG_A)
                       \o emit_move_sr_dn(FLAGS) \o emit_andi_b_dn(FLAGS, 254)

compile_adc_core(track) ==
    compile_daa_track_add(track) \o widen_operands
    \o if_carry(emit_addq_w_dn(SCRATCH_0, 1)) \o emit_add_w_dn_dn(SCRATCH_1, SCRATCH_0)
    \o store_and_capture_z
    \o emit_lsr_w_imm_dn(8, SCRATCH_0) \o emit_or_b_dn_dn(SCRATCH_0, FLAGS)

compile_sbc_core(track) ==
    compile_daa_track_sub(track) \o widen_operands
    \o if_carry(emit_addq_w_dn(SCRATCH_1, 1)) \o emit_sub_w_dn_dn(SCRATCH_1, SCRATCH_0)
    \o emit_scc("cs", SCRATCH_1) \o store_and_capture_z
    \o emit_andi_b_dn(SCRATCH_1, 1) \o emit_or_b_dn_dn(SCRATCH_1, FLAGS)

-----------------------------------------------------------------------------
(* Where a register's byte is.                                             *)

Pair(r) == IF r \in {0, 1} THEN REG_BC ELSE REG_DE
Upper == {0, 2}
Lower == {1, 3}
swapped(pair, code) == emit_swap(pair) \o code \o emit_swap(pair)
from_high(pair, dreg) == swapped(pair, emit_move_b_dn_dn(pair, dreg))
into_high(pair, dreg) == swapped(pair, emit_move_b_dn_dn(dreg, pair))
l_in_d1 == emit_move_w_an_dn(REG_HL, SCRATCH_1)
h_in_d1 == l_in_d1 \o emit_rol_w_8(SCRATCH_1)
d1_to_hl == emit_movea_w_dn_an(SCRATCH_1, REG_HL)
put_h(code) == h_in_d1 \o code \o emit_ror_w_8(SCRATCH_1) \o d1_to_hl
put_l(code) == l_in_d1 \o code \o d1_to_hl

\* adc and sbc take their operand in D1
operand_in_d1(r) ==
    CASE r \in Upper -> from_high(Pair(r), SCRATCH_1)
      [] r \in Lower -> emit_move_b_dn_dn(Pair(r), SCRATCH_1)
      [] r = 4       -> h_in_d1
      [] r = 5       -> l_in_d1
      [] r = 6       -> compile_call_dmg_read_hl \o emit_move_b_dn_dn(SCRATCH_0, SCRATCH_1)
      [] r = 7       -> emit_move_b_dn_dn(REG_A, SCRATCH_1)

\* A := A f r, with the flags captured before a swap can change them
alu_on_a(f(_, _), r) ==
    LET op(reg) == f(reg, REG_A) \o compile_set_zc_flags
    IN  CASE r \in Upper -> swapped(Pair(r), op(Pair(r)))
          [] r \in Lower -> op(Pair(r))
          [] r = 4       -> h_in_d1 \o op(SCRATCH_1)
          [] r = 5       -> l_in_d1 \o op(SCRATCH_1)
          [] r = 6       -> compile_call_dmg_read_hl \o op(SCRATCH_0)
          [] r = 7       -> op(REG_A)

a_is_zero == emit_moveq_dn(REG_A, 0) \o compile_set_zc_flags
test_a == emit_tst_b_dn(REG_A) \o compile_set_zc_flags

add_a_r(r, track) == compile_daa_track_add(track) \o alu_on_a(emit_add_b_dn_dn, r)
adc_a_r(r, track) == operand_in_d1(r) \o compile_adc_core(track)
sub_a_r(r, track) == compile_daa_track_sub(track)
                     \o IF r = 7 THEN a_is_zero ELSE alu_on_a(emit_sub_b_dn_dn, r)
sbc_a_r(r, track) == operand_in_d1(r) \o compile_sbc_core(track)
and_a_r(r) == IF r = 7 THEN test_a ELSE alu_on_a(emit_and_b_dn_dn, r)
xor_a_r(r) == IF r = 7 THEN a_is_zero ELSE alu_on_a(emit_eor_b_dn_dn, r)
or_a_r(r) == IF r = 7 THEN test_a ELSE alu_on_a(emit_or_b_dn_dn, r)
\* the wait for LY in cp a,(hl) is in WaitLoops.tla
cp_a_r(r) == IF r = 7 THEN emit_moveq_dn(FLAGS, 4) ELSE alu_on_a(emit_cmp_b_dn_dn, r)

alu_a_imm(op, n, track) ==
    CASE op = 198 -> compile_daa_track_add(track) \o emit_addi_b_dn(REG_A, n) \o compile_set_zc_flags
      [] op = 206 -> emit_move_b_dn(SCRATCH_1, n) \o compile_adc_core(track)
      [] op = 214 -> compile_daa_track_sub(track) \o emit_subi_b_dn(REG_A, n) \o compile_set_zc_flags
      [] op = 222 -> emit_move_b_dn(SCRATCH_1, n) \o compile_sbc_core(track)
      [] op = 230 -> emit_andi_b_dn(REG_A, n) \o compile_set_zc_flags
      [] op = 238 -> emit_eor_b_imm_dn(n, REG_A) \o compile_set_zc_flags
      [] op = 246 -> emit_ori_b_dn(REG_A, n) \o compile_set_zc_flags
      [] op = 254 -> emit_cmp_b_imm_dn(REG_A, n) \o compile_set_zc_flags

\* inc and dec leave C alone, so they capture Z only
inc_dec_r(r, step(_, _), track) ==
    CASE r \in Upper -> swapped(Pair(r), step(Pair(r), 1) \o compile_set_z_flag)
      [] r \in Lower -> step(Pair(r), 1) \o compile_set_z_flag
      [] r = 4       -> put_h(step(SCRATCH_1, 1) \o compile_set_z_flag)
      [] r = 5       -> put_l(step(SCRATCH_1, 1)) \o compile_set_z_flag
      [] r = 6       -> compile_call_dmg_read_hl \o step(SCRATCH_0, 1) \o compile_set_z_flag
                        \o compile_call_dmg_write_hl_d0
      [] r = 7       -> track \o step(REG_A, 1) \o compile_set_z_flag

compile_alu_op(op, m, src, ptr) ==
    LET n == READ_BYTE(m, src, ptr)
        next == IF op \in {198, 206, 214, 222} THEN ptr + 1 ELSE ptr
        track == daa_tracked_op(op) /\ daa_track_needed(m, src, next)
        r == op % 8
        dst == (op \div 8) % 8
    IN  CASE op = 39 -> compile_daa
          [] op = 47 -> emit_not_b_dn(REG_A)
          [] op = 55 -> emit_ori_b_dn(FLAGS, 1)
          [] op = 63 -> emit_eor_b_imm_dn(1, FLAGS)
          [] op < 64 /\ r = 4 -> inc_dec_r(dst, emit_addq_b_dn, compile_daa_track_add(track))
          [] op < 64 /\ r = 5 -> inc_dec_r(dst, emit_subq_b_dn, compile_daa_track_sub(track))
          [] op \in 128..135 -> add_a_r(r, track)
          [] op \in 136..143 -> adc_a_r(r, track)
          [] op \in 144..151 -> sub_a_r(r, track)
          [] op \in 152..159 -> sbc_a_r(r, track)
          [] op \in 160..167 -> and_a_r(r)
          [] op \in 168..175 -> xor_a_r(r)
          [] op \in 176..183 -> or_a_r(r)
          [] op \in 184..191 -> cp_a_r(r)
          [] op > 191 -> alu_a_imm(op, n, track)

-----------------------------------------------------------------------------
(* cb_prefix.c                                                             *)

compile_shift_flags == emit_move_sr_dn(FLAGS)
compile_swap_flags == emit_move_sr_dn(FLAGS) \o emit_andi_b_dn(FLAGS, 254)
compile_bit_flags == emit_scc("eq", SCRATCH_0) \o emit_andi_b_dn(SCRATCH_0, 4)
                     \o emit_andi_b_dn(FLAGS, 251) \o emit_or_b_dn_dn(SCRATCH_0, FLAGS)

op_reg(r) == IF r = 7 THEN REG_A ELSE SCRATCH_1

get_reg_for_op(r) ==
    CASE r \in Upper -> emit_move_l_dn_dn(Pair(r), SCRATCH_1) \o emit_swap(SCRATCH_1)
      [] r = 7       -> <<>>
      [] OTHER       -> operand_in_d1(r)

put_reg_result(r) ==
    CASE r \in Upper -> into_high(Pair(r), SCRATCH_1)
      [] r \in Lower -> emit_move_b_dn_dn(SCRATCH_1, Pair(r))
      [] r = 4 -> emit_move_w_an_dn(REG_HL, SCRATCH_0) \o emit_ror_w_8(SCRATCH_1)
                  \o emit_move_b_dn_dn(SCRATCH_0, SCRATCH_1) \o d1_to_hl
      [] r = 5 -> emit_move_w_an_dn(REG_HL, SCRATCH_0) \o emit_move_b_dn_dn(SCRATCH_1, SCRATCH_0)
                  \o emit_movea_w_dn_an(SCRATCH_0, REG_HL)
      [] r = 6 -> emit_move_b_dn_dn(SCRATCH_1, SCRATCH_0) \o compile_call_dmg_write_hl_d0
      [] r = 7 -> <<>>

compile_rlc_reg(r) == get_reg_for_op(r) \o emit_rol_b_imm(1, op_reg(r)) \o compile_shift_flags
                      \o put_reg_result(r)
compile_rrc_reg(r) == get_reg_for_op(r) \o emit_ror_b_imm(1, op_reg(r)) \o compile_shift_flags
                      \o put_reg_result(r)

\* C from the shift, then the old carry into the result, then Z of the whole
through_carry(r, align, shift) ==
    get_reg_for_op(r)
    \o emit_move_b_dn_dn(FLAGS, SCRATCH_0) \o emit_andi_b_dn(SCRATCH_0, 1) \o align
    \o shift \o emit_move_sr_dn(FLAGS) \o emit_andi_b_dn(FLAGS, 1)
    \o emit_or_b_dn_dn(SCRATCH_0, op_reg(r))
    \o emit_scc("eq", SCRATCH_0) \o emit_andi_b_dn(SCRATCH_0, 4) \o emit_or_b_dn_dn(SCRATCH_0, FLAGS)
    \o put_reg_result(r)
compile_rl_reg(r) == through_carry(r, <<>>, emit_lsl_b_imm_dn(1, op_reg(r)))
compile_rr_reg(r) == through_carry(r, emit_ror_b_imm(1, SCRATCH_0), emit_lsr_b_imm_dn(1, op_reg(r)))

compile_sla_reg(r) == get_reg_for_op(r) \o emit_lsl_b_imm_dn(1, op_reg(r)) \o compile_shift_flags
                      \o put_reg_result(r)
compile_sra_reg(r) == get_reg_for_op(r) \o emit_asr_b_imm_dn(1, op_reg(r)) \o compile_shift_flags
                      \o put_reg_result(r)
compile_swap_reg(r) == get_reg_for_op(r) \o emit_ror_b_imm(4, op_reg(r)) \o compile_swap_flags
                       \o put_reg_result(r)
compile_srl_reg(r) == get_reg_for_op(r) \o emit_lsr_b_imm_dn(1, op_reg(r)) \o compile_shift_flags
                      \o put_reg_result(r)

compile_bit_reg(bit, r) ==
    (CASE r \in Upper -> emit_btst_imm_dn(bit + 16, Pair(r))
       [] r \in Lower -> emit_btst_imm_dn(bit, Pair(r))
       [] r = 4       -> l_in_d1 \o emit_btst_imm_dn(bit + 8, SCRATCH_1)
       [] r = 5       -> l_in_d1 \o emit_btst_imm_dn(bit, SCRATCH_1)
       [] r = 6       -> compile_call_dmg_read_hl \o emit_btst_imm_dn(bit, SCRATCH_0)
       [] r = 7       -> emit_btst_imm_dn(bit, REG_A))
    \o compile_bit_flags

change_bit(f(_, _), bit, r) ==
    CASE r \in Upper -> f(bit + 16, Pair(r))
      [] r \in Lower -> f(bit, Pair(r))
      [] r = 4       -> put_l(f(bit + 8, SCRATCH_1))
      [] r = 5       -> put_l(f(bit, SCRATCH_1))
      [] r = 6       -> compile_call_dmg_read_hl \o f(bit, SCRATCH_0) \o compile_call_dmg_write_hl_d0
      [] r = 7       -> f(bit, REG_A)
compile_res_reg(bit, r) == change_bit(emit_bclr_imm_dn, bit, r)
compile_set_reg(bit, r) == change_bit(emit_bset_imm_dn, bit, r)

compile_cb_insn(cb_op) ==
    LET r == cb_op % 8  bit == (cb_op \div 8) % 8
    IN  CASE cb_op < 8        -> compile_rlc_reg(r)
          [] cb_op \in 8..15  -> compile_rrc_reg(r)
          [] cb_op \in 16..23 -> compile_rl_reg(r)
          [] cb_op \in 24..31 -> compile_rr_reg(r)
          [] cb_op \in 32..39 -> compile_sla_reg(r)
          [] cb_op \in 40..47 -> compile_sra_reg(r)
          [] cb_op \in 48..55 -> compile_swap_reg(r)
          [] cb_op \in 56..63 -> compile_srl_reg(r)
          [] cb_op \in 64..127 -> compile_bit_reg(bit, r)
          [] cb_op \in 128..191 -> compile_res_reg(bit, r)
          [] cb_op > 191      -> compile_set_reg(bit, r)

-----------------------------------------------------------------------------
(* reg_loads.c, by destination                                             *)

load_high(pair, src) ==
    LET other == IF pair = REG_BC THEN REG_DE ELSE REG_BC
    IN  CASE src \in Upper -> IF Pair(src) = pair THEN <<>>
                              ELSE from_high(other, SCRATCH_1) \o into_high(pair, SCRATCH_1)
          [] src \in Lower -> IF Pair(src) # pair THEN into_high(pair, other)
                              ELSE emit_move_b_dn_dn(pair, SCRATCH_1) \o into_high(pair, SCRATCH_1)
          [] src = 4 -> h_in_d1 \o into_high(pair, SCRATCH_1)
          [] src = 5 -> l_in_d1 \o into_high(pair, SCRATCH_1)
          [] src = 6 -> compile_call_dmg_read_hl \o into_high(pair, SCRATCH_0)
          [] src = 7 -> into_high(pair, REG_A)

\* `crossed` is the load of the other pair's upper half
load_low(pair, src, crossed) ==
    LET to_pair(dreg) == emit_move_b_dn_dn(dreg, pair)
    IN  CASE src \in Lower -> IF Pair(src) = pair THEN <<>> ELSE to_pair(Pair(src))
          [] src \in Upper -> IF Pair(src) = pair THEN from_high(pair, SCRATCH_1) \o to_pair(SCRATCH_1)
                              ELSE crossed
          [] src = 4 -> h_in_d1 \o to_pair(SCRATCH_1)
          [] src = 5 -> l_in_d1 \o to_pair(SCRATCH_1)
          [] src = 6 -> compile_call_dmg_read_hl \o to_pair(SCRATCH_0)
          [] src = 7 -> to_pair(REG_A)

load_b(src) == load_high(REG_BC, src)
load_c(src) == load_low(REG_BC, src,
                        from_high(REG_DE, SCRATCH_1) \o emit_move_b_dn_dn(SCRATCH_1, REG_BC))
load_d(src) == load_high(REG_DE, src)
load_e(src) == load_low(REG_DE, src, from_high(REG_BC, REG_DE))

load_h(src) ==
    CASE src \in Upper -> put_h(from_high(Pair(src), SCRATCH_1))
      [] src \in Lower -> put_h(emit_move_b_dn_dn(Pair(src), SCRATCH_1))
      [] src = 4 -> <<>>
      [] src = 5 -> l_in_d1 \o emit_move_b_dn_dn(SCRATCH_1, SCRATCH_0) \o emit_rol_w_8(SCRATCH_1)
                    \o emit_move_b_dn_dn(SCRATCH_0, SCRATCH_1) \o emit_ror_w_8(SCRATCH_1) \o d1_to_hl
      [] src = 6 -> compile_call_dmg_read_hl \o put_h(emit_move_b_dn_dn(SCRATCH_0, SCRATCH_1))
      [] src = 7 -> put_h(emit_move_b_dn_dn(REG_A, SCRATCH_1))

load_l(src) ==
    CASE src \in Upper -> put_l(from_high(Pair(src), SCRATCH_1))
      [] src \in Lower -> put_l(emit_move_b_dn_dn(Pair(src), SCRATCH_1))
      [] src = 4 -> h_in_d1 \o emit_move_b_dn_dn(SCRATCH_1, SCRATCH_0) \o emit_ror_w_8(SCRATCH_1)
                    \o emit_move_b_dn_dn(SCRATCH_0, SCRATCH_1) \o d1_to_hl
      [] src = 5 -> <<>>
      [] src = 6 -> compile_call_dmg_read_hl \o put_l(emit_move_b_dn_dn(SCRATCH_0, SCRATCH_1))
      [] src = 7 -> put_l(emit_move_b_dn_dn(REG_A, SCRATCH_1))

store_at_hl(src) ==
    CASE src \in Upper -> from_high(Pair(src), SCRATCH_0) \o compile_call_dmg_write_hl_d0
      [] src \in Lower -> emit_move_b_dn_dn(Pair(src), SCRATCH_0) \o compile_call_dmg_write_hl_d0
      [] src \in {4, 5} -> (IF src = 4 THEN h_in_d1 ELSE l_in_d1)
                           \o emit_move_b_dn_dn(SCRATCH_1, SCRATCH_0) \o compile_call_dmg_write_hl_d0
      [] src = 7 -> compile_call_dmg_write_hl_a

load_a(src) ==
    CASE src \in Upper -> from_high(Pair(src), REG_A)
      [] src \in Lower -> emit_move_b_dn_dn(Pair(src), REG_A)
      [] src = 4 -> h_in_d1 \o emit_move_b_dn_dn(SCRATCH_1, REG_A)
      [] src = 5 -> l_in_d1 \o emit_move_b_dn_dn(SCRATCH_1, REG_A)
      [] src = 6 -> compile_call_dmg_read_hl_a
      [] src = 7 -> <<>>

compile_reg_load(op) ==
    LET src == op % 8
    IN  CASE op \in 64..71   -> load_b(src)
          [] op \in 72..79   -> load_c(src)
          [] op \in 80..87   -> load_d(src)
          [] op \in 88..95   -> load_e(src)
          [] op \in 96..103  -> load_h(src)
          [] op \in 104..111 -> load_l(src)
          [] op \in 112..119 -> store_at_hl(src)
          [] op \in 120..127 -> load_a(src)
=============================================================================
