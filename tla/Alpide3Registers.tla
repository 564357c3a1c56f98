-------------------------- MODULE Alpide3Registers --------------------------
(***************************************************************************)
(* The registers of the pALPIDE-3 prototype, one definition for each pair  *)
(* of generated functions setreg_<name>, getreg_<name>.                    *)
(***************************************************************************)
EXTENDS RegisterLayout

cmd == Register(\h000, {F("Command", 0, 16)})
periphery_ctrl == Register(\h001, {F("ChipModeSelector", 0, 2), F("ClusteringEnabled", 2, 1),
    F("StartMemSelfTest", 3, 1), F("MatrixROSpeed", 5, 1), F("ForceBusy", 6, 1),
    F("ForceBusyValue", 7, 1)})
disable_regions_lsbs == Register(\h002, {F("RegionDisable", 0, 16)})
disableof_regions_msbs == Register(\h003, {F("RegionDisable", 0, 16)})
fromu_cfg_1 == Register(\h004, {F("MEBMask", 0, 3), F("EnInternalGeneration", 3, 1),
    F("EnBusyMonitoring", 4, 1), F("TPulseMode", 5, 1), F("EnTestStrobe", 6, 1),
    F("SMState", 8, 5)})
fromu_cfg_2 == Register(\h005, {F("FrameDuration", 0, 16)})
fromu_pulsing1 == Register(\h006, {F("TPulseDelay", 0, 16)})
fromu_pulsing_2 == Register(\h007, {F("TPulseDuration", 0, 16)})
fromu_status_1 == Status(\h008, {F("StrobeCounter", 0, 16)})
fromu_status_2 == Status(\h009, {F("BunchCounter", 0, 12), F("EventCounter", 12, 2)})
dac_settings_dclk_and_mclk_io_buffers == Register(\h00A, {F("DCLKReceiver", 0, 4),
    F("DCLKDriver", 4, 4), F("MCLKReceiver", 8, 4)})
dac_settings_cmu_io_buffers == Register(\h00B, {F("DCTRLReceiver", 0, 4), F("DCTRLDriver", 4, 4)})
cmu_and_dmu_cfg == Register(\h00C, {F("PreviousChipID", 0, 4), F("DMUXOff", 4, 1),
    F("InitialToken", 5, 1), F("DisableManchester", 6, 1), F("EnableDDR", 7, 1)})
cmu_errors_counter == Status(\h00D, {F("CMUErrorsCounter", 0, 12)})
dtu_cfg == Register(\h00E, {F("VcoDelayStages", 0, 2), F("PllBandwidthControl", 2, 1),
    F("PllOffSignal", 3, 1), F("SerPhase", 4, 4), F("PLLReset", 8, 1), F("LoadENStatus", 12, 1)})
dtu_dacs == Register(\h00F, {F("PLLDAC", 0, 4), F("DriverDAC", 4, 4), F("PreDAC", 8, 4)})
dtu_pll_lock_1 == Status(\h010, {F("LockCounter", 0, 8), F("LockFlag", 8, 1),
    F("LockStatus", 9, 1)})
dtu_pll_lock_2 == Register(\h011, {F("LockWaitCycles", 0, 8), F("UnlockWaitCycles", 8, 8)})
dtu_test_1 == Register(\h012, {F("TestEN", 0, 1), F("IntPatternEN", 1, 1), F("PrbsEN", 2, 1),
    F("Bypass8b10b", 3, 1), F("BDIN8b10b0", 4, 2), F("BDIN8b10b1", 6, 2), F("BDIN8b10b2", 8, 2),
    F("K0", 10, 1), F("K1", 11, 1), F("K2", 12, 1), F("ForceSetLoadEN", 13, 1),
    F("ForceUnsetLoadEN", 14, 1)})
dtu_test_2 == Register(\h013, {F("DIN0", 0, 8), F("DIN1", 8, 8)})
dtu_test_3 == Register(\h014, {F("DIN2", 0, 8)})
busy_min_width == Register(\h015, {F("BusyMinWidth", 0, 5)})
fuses_write_lsbs == Register(\h016, {F("FusesWriteLSBs", 0, 16)})
fuses_write_msbs == Register(\h017, {F("FusesWriteMSBs", 0, 8)})
fuses_read_lsbs == Status(\h018, {F("FusesReadLSBs", 0, 16)})
fuses_read_msbs == Status(\h019, {F("FusesReadMSBs", 0, 8)})
temperature_sensor == Status(\h01A, {F("TempSensor", 0, 16)})
dmu_and_tru_state == Status(\h400, {F("TRUSMState", 0, 3), F("DMUSMState", 3, 3),
    F("BusyMismatchError", 6, 1), F("BusyFifoFullError", 7, 1)})
pixel_cfg_1 == Register(\h500, {F("RowSel", 0, 9), F("SetsAllRows", 9, 1),
    F("PIXCNFG_REGSEL", 10, 1), F("PIXCNFG_DATA", 11, 1)})
pixel_cfg_2 == Register(\h501, {F("ColSel", 0, 10), F("SetsAllColumns", 10, 1)})
pixel_cfg_3 == Register(\h502, {F("MatrixLatchEn", 0, 1)})
analog_monitor_and_override == Register(\h600, {F("VoltageDACSel", 0, 4),
    F("CurrentDACSel", 4, 3), F("SWCNTL_DACMONI", 7, 1), F("SWCNTL_DACMONV", 8, 1),
    F("IRefBufferCurrent", 9, 2)})
VRESETP == Register(\h601, {F("VRESETP", 0, 8)})
VRESETD == Register(\h602, {F("VRESETD", 0, 8)})
VCASP == Register(\h603, {F("VCASP", 0, 8)})
VCASN == Register(\h604, {F("VCASN", 0, 8)})
VPULSEH == Register(\h605, {F("VPULSEH", 0, 8)})
VPULSEL == Register(\h606, {F("VPULSEL", 0, 8)})
VCASN2 == Register(\h607, {F("VCASN2", 0, 8)})
VCLIP == Register(\h608, {F("VCLIP", 0, 8)})
VTEMP == Register(\h609, {F("VTEMP", 0, 8)})
IAUX2 == Register(\h60A, {F("IAUX2", 0, 8)})
IRESET == Register(\h60B, {F("IRESET", 0, 8)})
IDB == Register(\h60C, {F("IDB", 0, 8)})
IBIAS == Register(\h60D, {F("IBIAS", 0, 8)})
ITHR == Register(\h60E, {F("ITHR", 0, 8)})
buffer_bypass == Register(\h60F, {F("VCASNBYPASS", 0, 1), F("VCASN2BYPASS", 1, 1),
    F("VCASPBYPASS", 2, 1), F("VCLIPBYPASS", 3, 1), F("IRESETBYPASS", 4, 1),
    F("IBIASBYPASS", 5, 1), F("ITHRBYPASS", 6, 1), F("IDBBYPASS", 7, 1)})

AllRegisters == {
  cmd, periphery_ctrl, disable_regions_lsbs, disableof_regions_msbs, fromu_cfg_1,
  fromu_cfg_2, fromu_pulsing1, fromu_pulsing_2, fromu_status_1, fromu_status_2,
  dac_settings_dclk_and_mclk_io_buffers, dac_settings_cmu_io_buffers, cmu_and_dmu_cfg,
  cmu_errors_counter, dtu_cfg, dtu_dacs, dtu_pll_lock_1, dtu_pll_lock_2, dtu_test_1,
  dtu_test_2, dtu_test_3, busy_min_width, fuses_write_lsbs, fuses_write_msbs,
  fuses_read_lsbs, fuses_read_msbs, temperature_sensor, dmu_and_tru_state, pixel_cfg_1,
  pixel_cfg_2, pixel_cfg_3, analog_monitor_and_override, VRESETP, VRESETD, VCASP, VCASN,
  VPULSEH, VPULSEL, VCASN2, VCLIP, VTEMP, IAUX2, IRESET, IDB, IBIAS, ITHR, buffer_bypass}

=============================================================================
