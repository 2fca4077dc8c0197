------------------------------ MODULE Emitters ------------------------------
(***************************************************************************)
(* The emitters of compiler/emitters.c: each appends one 68000 instruction *)
(* to the block.  Here each is the sequence of that one instruction, so a  *)
(* compile function is a concatenation of emitters.  Opcodes and extension *)
(* words are left out.  A forward branch is emitted with displacement 0    *)
(* and patched when its target is reached: Over and Fork take the code it  *)
(* passes.                                                                 *)
(***************************************************************************)
EXTENDS M68k

Move(sz, s, t) == <<[i |-> "move", sz |-> sz, s |-> s, t |-> t]>>
AluOp(f, sz, s, t) == <<[i |-> "alu", f |-> f, sz |-> sz, s |-> s, t |-> t]>>
ShiftOp(f, sz, n, r) == <<[i |-> "shift", f |-> f, sz |-> sz, n |-> n, t |-> D(r)]>>
BitInsn(f, b, r) == <<[i |-> "bit", f |-> f, b |-> b, n |-> r]>>
One(kind, r) == <<[i |-> kind, n |-> r]>>

emit_moveq_dn(reg, imm) == Move("l", Imm(Long(Signed8(imm))), D(reg))
emit_move_b_dn(reg, imm) == Move("b", Imm(imm), D(reg))
emit_move_w_dn(reg, imm) == Move("w", Imm(imm), D(reg))
emit_move_l_dn(reg, imm) == Move("l", Imm(imm), D(reg))
emit_rol_w_8(reg) == ShiftOp("rol", "w", 8, reg)
emit_rol_w_imm_dn(count, reg) == ShiftOp("rol", "w", count, reg)
emit_ror_w_8(reg) == ShiftOp("ror", "w", 8, reg)
emit_swap(reg) == One("swap", reg)
emit_move_w_an_dn(areg, dreg) == Move("w", A(areg), D(dreg))
emit_movea_w_dn_an(dreg, areg) == Move("w", D(dreg), A(areg))
emit_movea_w_an_an(src_areg, dest_areg) == Move("w", A(src_areg), A(dest_areg))
emit_movea_w_imm16(areg, val) == Move("w", Imm(val), A(areg))
emit_subq_b_dn(dreg, val) == AluOp("sub", "b", Imm(val), D(dreg))
emit_subq_l_dn(dreg, val) == AluOp("sub", "l", Imm(Long(val)), D(dreg))
emit_subq_w_an(areg, val) == AluOp("sub", "w", Imm(val), A(areg))
emit_subq_l_an(areg, val) == AluOp("sub", "l", Imm(Long(val)), A(areg))
emit_subq_w_dn(dreg, val) == AluOp("sub", "w", Imm(val), D(dreg))
emit_addq_b_dn(dreg, val) == AluOp("add", "b", Imm(val), D(dreg))
emit_addq_w_dn(dreg, val) == AluOp("add", "w", Imm(val), D(dreg))
emit_addq_l_dn(dreg, val) == AluOp("add", "l", Imm(Long(val)), D(dreg))
emit_addq_w_an(areg, val) == AluOp("add", "w", Imm(val), A(areg))
emit_move_b_dn_ind_an(dreg, areg) == Move("b", D(dreg), At(areg, 0))
emit_move_b_dn_disp_an(dreg, disp, areg) == Move("b", D(dreg), At(areg, disp))
emit_move_b_imm_ind_an(imm, areg) == Move("b", Imm(imm), At(areg, 0))
emit_move_b_imm_disp_an(imm, disp, areg) == Move("b", Imm(imm), At(areg, disp))
emit_move_b_ind_an_dn(areg, dreg) == Move("b", At(areg, 0), D(dreg))
emit_move_b_disp_an_dn(disp, areg, dreg) == Move("b", At(areg, disp), D(dreg))
emit_andi_w_dn(dreg, imm) == AluOp("and", "w", Imm(imm), D(dreg))
emit_cmp_b_imm_dn(dreg, imm) == AluOp("cmp", "b", Imm(imm), D(dreg))
emit_cmp_b_dn_dn(src, dest) == AluOp("cmp", "b", D(src), D(dest))
emit_scc(cond, dreg) == <<[i |-> "scc", cc |-> cond, n |-> dreg]>>
emit_andi_b_dn(dreg, imm) == AluOp("and", "b", Imm(imm), D(dreg))
emit_ori_b_dn(dreg, imm) == AluOp("or", "b", Imm(imm), D(dreg))
emit_subi_b_dn(dreg, imm) == AluOp("sub", "b", Imm(imm), D(dreg))
emit_addi_b_dn(dreg, imm) == AluOp("add", "b", Imm(imm), D(dreg))
emit_addi_l_dn(dreg, imm) == AluOp("add", "l", Imm(Long(imm)), D(dreg))
emit_or_b_dn_dn(src, dest) == AluOp("or", "b", D(src), D(dest))
\* an rts ends the code only where the caller is the main loop
emit_rts == <<[i |-> "leave", to |-> "return"]>>
emit_dispatch_jump == <<[i |-> "leave", to |-> "dispatch"]>>
emit_bra_w(off) == <<[i |-> "back", cc |-> "t", off |-> off]>>
emit_bcs_w(off) == <<[i |-> "back", cc |-> "cs", off |-> off]>>
emit_btst_imm_dn(bit, dreg) == BitInsn("btst", bit, dreg)
emit_bclr_imm_dn(bit, dreg) == BitInsn("bclr", bit, dreg)
emit_bset_imm_dn(bit, dreg) == BitInsn("bset", bit, dreg)
emit_move_l_dn_dn(src, dest) == Move("l", D(src), D(dest))
emit_move_w_dn_dn(src, dest) == Move("w", D(src), D(dest))
emit_lsl_w_imm_dn(count, dreg) == ShiftOp("lsl", "w", count, dreg)
\* a pushed byte takes a word of the stack and is its upper half
emit_push_b_dn(dreg) == One("pushb", dreg)
emit_push_w_dn(dreg) == One("pushw", dreg)
emit_push_l_disp_an(disp, areg) == <<[i |-> "pushl", s |-> At(areg, disp)]>>
emit_movea_l_disp_an_an(disp, src_areg, dest_areg) == Move("l", At(src_areg, disp), A(dest_areg))
emit_jsr_ind_an(areg) == <<[i |-> "jsr", n |-> areg]>>
emit_addq_l_an(areg, val) ==
    IF areg = 7 THEN One("drop", val) ELSE AluOp("add", "l", Imm(Long(val)), A(areg))
emit_move_b_dn_dn(src, dest) == Move("b", D(src), D(dest))
emit_movea_l_imm32(areg, val) == Move("l", Imm(val), A(areg))
emit_move_b_abs32_dn(addr, dreg) == Move("b", Abs(addr), D(dreg))
emit_move_b_dn_abs32(dreg, addr) == Move("b", D(dreg), Abs(addr))
emit_eor_b_dn_dn(src, dest) == AluOp("eor", "b", D(src), D(dest))
emit_eor_b_imm_dn(imm, dreg) == AluOp("eor", "b", Imm(imm), D(dreg))
emit_ext_w_dn(dreg) == One("ext", dreg)
emit_not_b_dn(dreg) == One("not", dreg)
emit_and_b_dn_dn(src, dest) == AluOp("and", "b", D(src), D(dest))
emit_ror_b_imm(count, dreg) == ShiftOp("ror", "b", count, dreg)
emit_rol_b_imm(count, dreg) == ShiftOp("rol", "b", count, dreg)
emit_add_b_dn_dn(src, dest) == AluOp("add", "b", D(src), D(dest))
emit_add_w_dn_dn(src, dest) == AluOp("add", "w", D(src), D(dest))
emit_sub_b_dn_dn(src, dest) == AluOp("sub", "b", D(src), D(dest))
emit_sub_w_dn_dn(src, dest) == AluOp("sub", "w", D(src), D(dest))
emit_adda_w_dn_an(dreg, areg) == AluOp("add", "w", D(dreg), A(areg))
emit_adda_l_dn_an(dreg, areg) == AluOp("add", "l", D(dreg), A(areg))
emit_lsl_b_imm_dn(count, dreg) == ShiftOp("lsl", "b", count, dreg)
emit_lsr_b_imm_dn(count, dreg) == ShiftOp("lsr", "b", count, dreg)
emit_asr_b_imm_dn(count, dreg) == ShiftOp("asr", "b", count, dreg)
emit_tst_b_dn(dreg) == Move("b", D(dreg), D(dreg))
emit_lsr_w_imm_dn(count, dreg) == ShiftOp("lsr", "w", count, dreg)
emit_lsr_l_imm_dn(count, dreg) == One("lsr.l", dreg)   \* only ever by 8
emit_move_l_an_dn(areg, dreg) == Move("l", A(areg), D(dreg))
emit_movea_l_idx_an_an(disp, base_areg, idx_dreg, dest_areg) ==
    Move("l", Idx(base_areg, idx_dreg, disp), A(dest_areg))
emit_move_b_idx_an_dn(base_areg, idx_dreg, dest_dreg) ==
    Move("b", Idx(base_areg, idx_dreg, 0), D(dest_dreg))
emit_move_b_dn_idx_an(src_dreg, base_areg, idx_dreg) ==
    Move("b", D(src_dreg), Idx(base_areg, idx_dreg, 0))
emit_lea_disp_an_an(disp, src_areg, dest_areg) ==
    <<[i |-> "lea", s |-> At(src_areg, disp), n |-> dest_areg]>>
emit_move_l_dn_disp_an(dreg, disp, areg) == Move("l", D(dreg), At(areg, disp))
emit_move_w_dn_disp_an(dreg, disp, areg) == Move("w", D(dreg), At(areg, disp))
emit_move_w_disp_an_dn(disp, areg, dreg) == Move("w", At(areg, disp), D(dreg))
emit_move_l_disp_an_dn(disp, areg, dreg) == Move("l", At(areg, disp), D(dreg))
emit_tst_l_disp_an(disp, areg) == AluOp("cmp", "l", Imm(<<0, 0>>), At(areg, disp))
emit_addi_w_disp_an(imm, disp, areg) == AluOp("add", "w", Imm(Wrap16(imm)), At(areg, disp))
emit_addq_w_disp_an(val, disp, areg) == AluOp("add", "w", Imm(val), At(areg, disp))
emit_subq_w_disp_an(val, disp, areg) == AluOp("sub", "w", Imm(val), At(areg, disp))
emit_cmpi_w_imm_dn(imm, dreg) == AluOp("cmp", "w", Imm(imm), D(dreg))
emit_subi_w_dn(imm, dreg) == AluOp("sub", "w", Imm(imm), D(dreg))
emit_move_sr_dn(dreg) == One("sr", dreg)
emit_cmp_l_disp_an_dn(disp, areg, dreg) == AluOp("cmp", "l", At(areg, disp), D(dreg))
emit_cmp_b_disp_an_dn(disp, areg, dreg) == AluOp("cmp", "b", At(areg, disp), D(dreg))

\* a branch emitted with displacement 0 and patched to land behind `body`
Branch(cc, n) == <<[i |-> "bcc", cc |-> cc, over |-> n]>>
patch_branch(cc, body) == Branch(cc, Len(body)) \o body
\* branch to `taken` if cc holds, otherwise do `fall` and jump behind `taken`
Fork(cc, fall, taken) == Branch(cc, Len(fall) + 1) \o fall
                         \o Branch("t", Len(taken)) \o taken

emit_add_cycles(cycles) ==
    IF cycles <= 0 THEN <<[i |-> "nop"]>>
    ELSE IF cycles <= 8 THEN emit_addq_l_dn(2, cycles)
    ELSE emit_addi_l_dn(2, cycles)

JIT_CTX_WAKE_LIMIT == 80

(* cmp.l wake_limit,d2; bcc over the patch helper to the rts.              *)
emit_patchable_exit ==
    emit_cmp_l_disp_an_dn(JIT_CTX_WAKE_LIMIT, 4, 2)
    \o patch_branch("cc", <<[i |-> "leave", to |-> "patch"]>>)
    \o emit_rts

emit_block_exit(target_gb_pc) ==
    IF target_gb_pc >= 32768 THEN emit_dispatch_jump ELSE emit_patchable_exit
=============================================================================
